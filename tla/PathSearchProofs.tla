--------------------------- MODULE PathSearchProofs ---------------------------
(***************************************************************************)
(* Proofs about PathSearch, for every graph.                               *)
(***************************************************************************)
EXTENDS PathSearch, FiniteSetTheorems, WellFoundedInduction, TLAPS

(* A path on the queue is a route all of whose nodes but the last have been
   dequeued; all nodes of the current path have been.  So a neighbour that is
   not marked visited is on neither, and extending the path keeps it simple. *)
QueueInv ==
  \A k \in DOMAIN queue :
    /\ IsRoute(queue[k])
    /\ \A j \in 1..Len(queue[k]) - 1 : queue[k][j] \in visited

PathInv ==
  /\ path # <<>> => IsRoute(path) /\ \A j \in 1..Len(path) : path[j] \in visited
  /\ pending # {} => path # <<>> /\ pending \subseteq DOMAIN links[Last(path)]

IInv == TypeOK /\ QueueInv /\ PathInv /\ FoundPathsAreRoutes

-------------------------------------------------------------------------------
(* The one-node path the search starts with is a route. *)
LEMMA RootIsRoute ==
  ASSUME root \in Nodes
  PROVE  IsRoute(<<root>>)
BY DEF IsRoute

(* A route extended to an unvisited neighbour of its end is a route. *)
LEMMA ExtendedRoute ==
  ASSUME NEW p, IsRoute(p),
         NEW n \in DOMAIN links[Last(p)], n \in Nodes,
         \A j \in 1..Len(p) : p[j] # n
  PROVE  /\ IsRoute(Append(p, n))
         /\ Append(p, n) \in Seq(Nodes) \ {<<>>}
         /\ Len(Append(p, n)) = Len(p) + 1
         /\ \A j \in 1..Len(p) : Append(p, n)[j] = p[j]
<1> DEFINE q == Append(p, n)
<1>1. /\ p \in Seq(Nodes)
      /\ q \in Seq(Nodes)
      /\ Len(q) = Len(p) + 1
      /\ \A j \in 1..Len(p) : q[j] = p[j]
      /\ q[Len(p) + 1] = n
      /\ Len(p) \in Nat \ {0}
      /\ q # <<>>
  BY DEF IsRoute
<1>2. q[1] = root
  BY <1>1 DEF IsRoute
<1>3. \A k \in 1..Len(q) - 1 : q[k + 1] \in DOMAIN links[q[k]]
  BY <1>1 DEF IsRoute, Last
<1>4. \A j, k \in 1..Len(q) : q[j] = q[k] => j = k
  BY <1>1 DEF IsRoute
<1> HIDE DEF q
<1>5. IsRoute(q)
  BY <1>1, <1>2, <1>3, <1>4 DEF IsRoute
<1> QED BY <1>1, <1>5 DEF q

(* What StartSearch sets up. *)
Started ==
  /\ root \in Nodes
  /\ DOMAIN links = Nodes
  /\ \A n \in Nodes : DOMAIN links[n] \subseteq Nodes
  /\ nodeToFind \in Nodes
  /\ queue = << <<root>> >>
  /\ visited = {}
  /\ pathsToNode = <<>>
  /\ path = <<>>
  /\ pending = {}


(* The search starts in the invariant. *)
LEMMA StartInv == Started => IInv
<1> SUFFICES ASSUME Started PROVE IInv
  OBVIOUS
<1> USE DEF Started
<1>1. TypeOK
  BY DEF TypeOK
<1>2. QueueInv
  <2>1. DOMAIN queue = {1} /\ queue[1] = <<root>>
    OBVIOUS
  <2>2. Len(<<root>>) = 1
    OBVIOUS
  <2>3. IsRoute(<<root>>)
    BY RootIsRoute
  <2>4. ASSUME NEW k \in DOMAIN queue
        PROVE  IsRoute(queue[k]) /\ 1..Len(queue[k]) - 1 = {}
    <3>1. queue[k] = <<root>>
      BY <2>1
    <3>2. 1..Len(<<root>>) - 1 = {}
      BY <2>2
    <3> QED BY <2>3, <3>1, <3>2, Zenon
  <2> QED BY <2>4, Zenon DEF QueueInv
<1>3. PathInv /\ FoundPathsAreRoutes
  BY DEF PathInv, FoundPathsAreRoutes
<1> QED BY <1>1, <1>2, <1>3 DEF IInv

(* The same of the state a step leads to. *)
LEMMA StartedNext == Started' => IInv'
BY StartInv, PTL

(* Taking a path off the queue keeps it. *)
LEMMA DequeueInv == IInv /\ Dequeue => IInv'
<1> SUFFICES ASSUME IInv, Dequeue PROVE IInv'
  OBVIOUS
<1> USE DEF IInv
<1>1. /\ path' = queue[1]
      /\ IsRoute(path')
      /\ path' \in Seq(Nodes) \ {<<>>}
      /\ Last(path') \in Nodes
      /\ \A j \in 1..Len(path') - 1 : path'[j] \in visited
  <2>1. queue \in Seq(Seq(Nodes) \ {<<>>}) /\ queue # <<>> /\ path' = queue[1] /\ 1 \in DOMAIN queue
    BY DEF TypeOK, Dequeue
  <2> QED BY <2>1 DEF QueueInv, Last
<1>2. visited' = visited \cup {Last(path')} /\ UNCHANGED <<root, links, nodeToFind>>
  BY DEF Dequeue
<1>3. \A p : IsRoute(p)' <=> IsRoute(p)
  BY <1>2 DEF IsRoute
<1>4. queue' \in Seq(Seq(Nodes) \ {<<>>}) /\ Len(queue') = Len(queue) - 1
      /\ \A k \in DOMAIN queue' : k + 1 \in DOMAIN queue /\ queue'[k] = queue[k + 1]
  BY DEF TypeOK, Dequeue
<1>5. /\ pathsToNode' \in Seq(Seq(Nodes) \ {<<>>})
      /\ FoundPathsAreRoutes'
  <2>1. CASE Last(path') = nodeToFind
    <3>1. /\ pathsToNode' = Append(pathsToNode, path')
          /\ pathsToNode \in Seq(Seq(Nodes) \ {<<>>})
      BY <2>1 DEF Dequeue, TypeOK
    <3> QED BY <1>1, <1>2, <1>3, <2>1, <3>1 DEF FoundPathsAreRoutes
  <2>2. CASE Last(path') # nodeToFind
    BY <1>2, <1>3, <2>2 DEF Dequeue, TypeOK, FoundPathsAreRoutes
  <2> QED BY <2>1, <2>2
<1>6. pending' = DOMAIN links[Last(path')] /\ pending' \subseteq Nodes
  BY <1>1 DEF Dequeue, TypeOK
<1>7. TypeOK'
  BY <1>1, <1>2, <1>4, <1>5, <1>6 DEF TypeOK
<1>8. QueueInv'
  BY <1>2, <1>3, <1>4 DEF QueueInv
<1>9. PathInv'
  <2>1. \A j \in 1..Len(path') : path'[j] \in visited'
    BY <1>1, <1>2 DEF Last
  <2> QED BY <1>1, <1>2, <1>3, <1>6, <2>1 DEF PathInv
<1> QED BY <1>5, <1>7, <1>8, <1>9

(* Looking at a neighbour keeps it: only an unvisited one extends the path. *)
LEMMA ExploreInv == \A n : IInv /\ Explore(n) => IInv'
<1> SUFFICES ASSUME NEW n, IInv, Explore(n) PROVE IInv'
  OBVIOUS
<1> USE DEF IInv
<1>1. /\ n \in pending
      /\ pending' = pending \ {n}
      /\ queue' = IF n \in visited THEN queue ELSE Append(queue, Append(path, n))
      /\ UNCHANGED <<root, links, nodeToFind, visited, pathsToNode, path>>
  BY DEF Explore
<1>2. \A p : IsRoute(p)' <=> IsRoute(p)
  BY <1>1 DEF IsRoute
<1>3. PathInv' /\ FoundPathsAreRoutes'
  BY <1>1, <1>2 DEF PathInv, FoundPathsAreRoutes, Last
<1>4. CASE n \in visited
  BY <1>1, <1>2, <1>3, <1>4 DEF TypeOK, QueueInv
<1>5. CASE n \notin visited
  <2> DEFINE q == Append(path, n)
  <2>1. /\ IsRoute(q)
        /\ q \in Seq(Nodes) \ {<<>>}
        /\ \A j \in 1..Len(q) - 1 : q[j] \in visited
    <3>1. /\ IsRoute(path)
          /\ \A j \in 1..Len(path) : path[j] \in visited
          /\ n \in DOMAIN links[Last(path)]
          /\ n \in Nodes
          /\ Len(path) \in Nat
      BY <1>1 DEF PathInv, TypeOK
    <3>2. \A j \in 1..Len(path) : path[j] # n
      BY <3>1, <1>5
    <3> QED BY <3>1, <3>2, ExtendedRoute
  <2> HIDE DEF q
  <2>2. /\ queue' \in Seq(Seq(Nodes) \ {<<>>})
        /\ \A k \in DOMAIN queue' : queue'[k] = q \/ (k \in DOMAIN queue /\ queue'[k] = queue[k])
    <3> DEFINE S == Seq(Nodes) \ {<<>>}
    <3>1. queue' = Append(queue, q) /\ queue \in Seq(S) /\ q \in S
      BY <1>1, <1>5, <2>1 DEF TypeOK, q
    <3> HIDE DEF S
    <3>2. queue' \in Seq(S)
          /\ \A k \in DOMAIN queue' : queue'[k] = q \/ (k \in DOMAIN queue /\ queue'[k] = queue[k])
      BY <3>1
    <3> QED BY <3>2 DEF S
  <2>3. TypeOK'
    BY <1>1, <2>2 DEF TypeOK
  <2>4. QueueInv'
    BY <1>1, <1>2, <2>1, <2>2 DEF QueueInv
  <2> QED BY <1>3, <2>3, <2>4
<1> QED BY <1>4, <1>5

-------------------------------------------------------------------------------
(* Why the search finds all shortest paths: paths come off the queue in the    *)
(* order of their lengths.                                                     *)

(* The queue holds paths of at most two lengths, the shorter ones first. *)
OrderInv ==
  /\ \A j, k \in DOMAIN queue :
       j <= k => Len(queue[j]) <= Len(queue[k]) /\ Len(queue[k]) <= Len(queue[j]) + 1
  /\ path # <<>> => \A k \in DOMAIN queue :
                      Len(path) <= Len(queue[k]) /\ Len(queue[k]) <= Len(path) + 1

(* What has been visited is no further away than the current path is long. *)
VisitedInv == \A n \in visited : \E q \in RoutesTo(n) : Len(q) <= Len(path)

Begins(q, p) == Len(q) <= Len(p) /\ \A j \in 1..Len(q) : q[j] = p[j]

(* A shortest route is being followed, or it has been followed to its end. *)
CoverInv ==
  \A p \in Routes : IsShortest(p) =>
    \/ \E k \in DOMAIN queue : Begins(queue[k], p)
    \/ /\ path # <<>> /\ Begins(path, p) /\ Len(path) < Len(p)
       /\ p[Len(path) + 1] \in pending
    \/ /\ Last(p) \in visited
       /\ Last(p) = nodeToFind => p \in Range(pathsToNode)

NearlyShortest(q) == \A p \in RoutesTo(Last(q)) : Len(q) <= Len(p) + 1

NearInv ==
  /\ \A k \in DOMAIN queue : NearlyShortest(queue[k])
  /\ \A k \in DOMAIN pathsToNode : NearlyShortest(pathsToNode[k])

Prolongs(q, p) == Len(q) = Len(p) + 1 /\ \A j \in 1..Len(p) : q[j] = p[j]

(* No path is, was or will be queued twice: what is still to be prolonged has
   not been prolonged yet. *)
DistinctInv ==
  /\ \A j, k \in DOMAIN queue : queue[j] = queue[k] => j = k
  /\ \A j, k \in DOMAIN queue : ~Prolongs(queue[k], queue[j])
  /\ \A k \in DOMAIN queue : queue[k] # path
  /\ \A k \in DOMAIN queue : Prolongs(queue[k], path) => Last(queue[k]) \notin pending
  /\ \A k \in DOMAIN pathsToNode : /\ Len(pathsToNode[k]) <= Len(path)
                                   /\ pathsToNode[k] \notin Range(queue)
  /\ \A j, k \in DOMAIN pathsToNode : pathsToNode[j] = pathsToNode[k] => j = k

BreadthInv == IInv /\ OrderInv /\ VisitedInv /\ CoverInv /\ NearInv /\ DistinctInv

(* Of some numbers one is the least. *)
LEMMA Least ==
  ASSUME NEW S, S \subseteq Nat, S # {}
  PROVE  \E n \in S : \A m \in S : n <= m
<1>1. PICK n \in S : \A m \in S : ~(<<m, n>> \in OpToRel(<, Nat))
  BY NatLessThanWellFounded, WFMin
<1>2. ASSUME NEW m \in S PROVE n <= m
  <2>1. m \in Nat /\ n \in Nat
    OBVIOUS
  <2>2. m < n => <<m, n>> \in OpToRel(<, Nat)
    BY <2>1 DEF OpToRel
  <2>3. ~(m < n)
    BY <1>1, <2>2, Zenon
  <2> QED BY <2>1, <2>3
<1> QED BY <1>2

(* A route passes no node twice, so it is among those of bounded length. *)
LEMMA RouteIsBounded == \A p : IsRoute(p) => p \in Routes
<1> SUFFICES ASSUME NEW p, IsRoute(p) PROVE p \in Routes
  OBVIOUS
<1>1. /\ p \in Seq(Nodes)
      /\ Len(p) \in Nat
      /\ p \in [1..Len(p) -> Nodes]
      /\ \A j, k \in 1..Len(p) : p[j] = p[k] => j = k
  BY DEF IsRoute
<1>2. p \in Injection(1..Len(p), Nodes)
  BY <1>1 DEF Injection, IsInjective
<1>3. Cardinality(1..Len(p)) = Len(p)
  BY <1>1, FS_Interval
<1>4. Cardinality(Nodes) \in Nat
  BY NodesAssumption, FS_CardinalityType
<1>5. Len(p) <= Cardinality(Nodes)
  BY <1>2, <1>3, NodesAssumption, FS_Injection
<1>6. p \in SeqOf(Nodes, Cardinality(Nodes))
  BY <1>1, <1>4, <1>5 DEF SeqOf
<1> QED BY <1>6 DEF Routes

(* And the other way round. *)
LEMMA RoutesAre ==
  ASSUME NEW n
  PROVE  \A p : p \in RoutesTo(n) <=> IsRoute(p) /\ Last(p) = n
BY RouteIsBounded DEF Routes, RoutesTo

(* A walk may pass a node more than once. *)
IsWalk(w) ==
  /\ w \in Seq(Nodes) /\ w # <<>> /\ w[1] = root
  /\ \A k \in 1..Len(w) - 1 : w[k + 1] \in DOMAIN links[w[k]]

(* Leaving out the round trip between two visits of a node shortens a walk. *)
LEMMA ShorterWalk ==
  ASSUME NEW w, IsWalk(w), NEW j \in 1..Len(w), NEW k \in 1..Len(w), j < k, w[j] = w[k]
  PROVE  \E u : IsWalk(u) /\ Last(u) = Last(w) /\ Len(u) < Len(w)
<1> DEFINE c == k - j
           n == Len(w) - c
           u == [x \in 1..n |-> IF x <= j THEN w[x] ELSE w[x + c]]
<1>1. /\ w \in Seq(Nodes) /\ Len(w) \in Nat
      /\ \A x \in 1..Len(w) : w[x] \in Nodes
      /\ w[1] = root
      /\ \A x \in 1..Len(w) - 1 : w[x + 1] \in DOMAIN links[w[x]]
  BY DEF IsWalk
<1>2. c \in Nat /\ c >= 1 /\ n \in Nat /\ n >= j /\ n < Len(w) /\ j >= 1 /\ j \in Nat
      /\ n + c = Len(w) /\ j + c = k /\ k \in Nat
  BY <1>1
<1> HIDE DEF c, n
<1>3. \A x \in 1..n : u[x] \in Nodes
  BY <1>1, <1>2
<1>4. u \in Seq(Nodes) /\ Len(u) = n /\ u # <<>>
  BY <1>2, <1>3
<1>5. u[1] = root
  BY <1>1, <1>2
<1>6. ASSUME NEW x \in 1..n - 1 PROVE u[x + 1] \in DOMAIN links[u[x]]
  <2>1. CASE x < j
    BY <1>1, <1>2, <2>1
  <2>2. CASE x = j
    <3>0. x \in Int /\ x >= 1 /\ x <= n - 1 /\ Len(w) \in Nat
      BY <1>1, <1>2
    <3>1. x + 1 \in 1..n /\ x + 1 > j /\ (x + 1) + c = k + 1 /\ k \in 1..Len(w) - 1
      BY <1>2, <2>2, <3>0
    <3>2. x \in 1..n /\ x <= j /\ ~(x + 1 <= j)
      BY <1>2, <2>2, <3>1
    <3>3. u[x] = w[x] /\ u[x + 1] = w[(x + 1) + c]
      BY <3>1, <3>2
    <3> QED BY <1>1, <2>2, <3>1, <3>3
  <2>3. CASE x > j
    <3>1. u[x] = w[x + c] /\ u[x + 1] = w[(x + c) + 1] /\ x + c \in 1..Len(w) - 1
      BY <1>1, <1>2, <2>3
    <3> QED BY <1>1, <3>1
  <2> QED BY <1>2, <2>1, <2>2, <2>3
<1>7. u[n] = w[Len(w)]
  BY <1>1, <1>2
<1> HIDE DEF u
<1>8. IsWalk(u)
  BY <1>4, <1>5, <1>6 DEF IsWalk
<1> QED BY <1>2, <1>4, <1>7, <1>8 DEF Last

(* A shortest walk is a route. *)
LEMMA WalkHasRoute ==
  ASSUME NEW w, IsWalk(w)
  PROVE  \E p : IsRoute(p) /\ Last(p) = Last(w) /\ Len(p) <= Len(w)
<1> DEFINE S == {n \in Nat : \E v : IsWalk(v) /\ Last(v) = Last(w) /\ Len(v) = n}
<1>1. Len(w) \in S
  BY DEF IsWalk
<1>2. PICK n \in S : \A m \in S : n <= m
  BY <1>1, Least
<1>3. PICK v : IsWalk(v) /\ Last(v) = Last(w) /\ Len(v) = n
  BY <1>2
<1>4. ASSUME NEW j \in 1..Len(v), NEW k \in 1..Len(v), j < k, v[j] = v[k]
      PROVE  FALSE
  <2>1. PICK u : IsWalk(u) /\ Last(u) = Last(v) /\ Len(u) < Len(v)
    BY <1>3, <1>4, ShorterWalk
  <2>2. Len(u) \in Nat
    BY <2>1 DEF IsWalk
  <2>3. Len(u) \in S
    BY <1>3, <2>1, <2>2
  <2> QED BY <1>2, <1>3, <2>1, <2>2, <2>3
<1>5. \A j, k \in 1..Len(v) : v[j] = v[k] => j = k
  BY <1>3, <1>4 DEF IsWalk
<1>6. IsRoute(v)
  BY <1>3, <1>5 DEF IsRoute, IsWalk
<1> QED BY <1>1, <1>2, <1>3, <1>6

(* To every node that has a route there is a shortest one. *)
LEMMA ShortestExists ==
  ASSUME NEW n, NEW p \in RoutesTo(n)
  PROVE  \E q \in RoutesTo(n) : IsShortest(q) /\ Len(q) <= Len(p)
<1> DEFINE S == {Len(q) : q \in RoutesTo(n)}
<1>1. S \subseteq Nat /\ Len(p) \in S
  BY RoutesAre DEF IsRoute
<1>2. PICK m \in S : \A l \in S : m <= l
  BY <1>1, Least
<1>3. PICK q \in RoutesTo(n) : Len(q) = m
  BY <1>2
<1>4. Last(q) = n
  BY <1>3, RoutesAre
<1> QED BY <1>1, <1>2, <1>3, <1>4 DEF IsShortest

(* A node on a shortest route has no shorter route than that route up to it:
   going on from the end of such a route would be shorter altogether. *)
LEMMA NoShortcut ==
  ASSUME NEW p \in Routes, IsShortest(p), NEW k \in 1..Len(p),
         NEW q \in RoutesTo(p[k])
  PROVE  k <= Len(q)
<1> SUFFICES ASSUME Len(q) < k PROVE FALSE
  BY RoutesAre DEF Routes, IsRoute
<1> DEFINE c == k - Len(q)
           n == Len(p) - c
           w == [x \in 1..n |-> IF x <= Len(q) THEN q[x] ELSE p[x + c]]
<1>1. /\ Len(p) \in Nat
      /\ \A x \in 1..Len(p) : p[x] \in Nodes
      /\ \A x \in 1..Len(p) - 1 : p[x + 1] \in DOMAIN links[p[x]]
  BY DEF Routes, IsRoute
<1>2. /\ Len(q) \in Nat /\ Len(q) >= 1
      /\ \A x \in 1..Len(q) : q[x] \in Nodes
      /\ q[1] = root
      /\ q[Len(q)] = p[k]
      /\ \A x \in 1..Len(q) - 1 : q[x + 1] \in DOMAIN links[q[x]]
  BY RoutesAre DEF IsRoute, Last
<1>3. c \in Nat /\ c >= 1 /\ n \in Nat /\ n >= Len(q) /\ n < Len(p)
      /\ n + c = Len(p) /\ Len(q) + c = k /\ k \in Nat
  BY <1>1, <1>2
<1> HIDE DEF c, n
<1>4. \A x \in 1..n : w[x] \in Nodes
  BY <1>1, <1>2, <1>3
<1>5. w \in Seq(Nodes) /\ Len(w) = n /\ w # <<>>
  <2>1. w \in [1..n -> Nodes]
    BY <1>4
  <2> HIDE DEF w
  <2>2. w \in Seq(Nodes) /\ Len(w) = n
    BY <1>3, <2>1
  <2> QED BY <1>2, <1>3, <2>2
<1>6. w[1] = root
  BY <1>1, <1>2, <1>3
<1>7. ASSUME NEW x \in 1..n - 1 PROVE w[x + 1] \in DOMAIN links[w[x]]
  <2>1. CASE x < Len(q)
    BY <1>1, <1>2, <1>3, <2>1
  <2>2. CASE x = Len(q)
    <3>0. x \in Int /\ x >= 1 /\ x <= n - 1 /\ Len(p) \in Nat /\ Len(q) \in Nat
      BY <1>1, <1>2, <1>3
    <3>1. x + 1 \in 1..n /\ x + 1 > Len(q) /\ (x + 1) + c = k + 1 /\ k \in 1..Len(p) - 1
      BY <1>3, <2>2, <3>0
    <3>2. x \in 1..n /\ x <= Len(q) /\ ~(x + 1 <= Len(q))
      BY <1>2, <1>3, <2>2, <3>1
    <3>3. w[x] = q[x] /\ w[x + 1] = p[(x + 1) + c]
      BY <3>1, <3>2
    <3> QED BY <1>1, <1>2, <2>2, <3>1, <3>3
  <2>3. CASE x > Len(q)
    <3>1. w[x] = p[x + c] /\ w[x + 1] = p[(x + c) + 1] /\ x + c \in 1..Len(p) - 1
      BY <1>1, <1>2, <1>3, <2>3
    <3> QED BY <1>1, <3>1
  <2> QED BY <1>2, <1>3, <2>1, <2>2, <2>3
<1>8. w[n] = p[Len(p)]
  BY <1>1, <1>2, <1>3
<1> HIDE DEF w
<1>9. IsWalk(w) /\ Last(w) = Last(p)
  BY <1>5, <1>6, <1>7, <1>8 DEF IsWalk, Last
<1>10. PICK r : IsRoute(r) /\ Last(r) = Last(p) /\ Len(r) <= Len(w)
  BY <1>9, WalkHasRoute
<1>11. Len(p) <= Len(r)
  BY <1>10, RoutesAre DEF IsShortest
<1>12. Len(r) \in Nat
  BY <1>10 DEF IsRoute
<1> QED BY <1>1, <1>3, <1>5, <1>10, <1>11, <1>12

-------------------------------------------------------------------------------
(* The graph does not change, so neither do its routes. *)
LEMMA RoutesStay ==
  UNCHANGED <<root, links>> =>
    /\ Routes' = Routes
    /\ \A n : RoutesTo(n)' = RoutesTo(n)
    /\ \A p : IsShortest(p)' <=> IsShortest(p)
    /\ \A p : NearlyShortest(p)' <=> NearlyShortest(p)
<1> SUFFICES ASSUME UNCHANGED <<root, links>>
             PROVE  /\ Routes' = Routes
                    /\ \A n : RoutesTo(n)' = RoutesTo(n)
                    /\ \A p : IsShortest(p)' <=> IsShortest(p)
                    /\ \A p : NearlyShortest(p)' <=> NearlyShortest(p)
  OBVIOUS
<1>1. \A p : IsRoute(p)' <=> IsRoute(p)
  BY DEF IsRoute
<1>2. Routes' = Routes
  BY <1>1 DEF Routes
<1>3. \A n : RoutesTo(n)' = RoutesTo(n)
  BY <1>2 DEF RoutesTo, Last
<1> QED BY <1>2, <1>3 DEF IsShortest, NearlyShortest, Last

(* No two sequences of nodes begin alike and are equally long. *)
LEMMA SameSequence ==
  ASSUME NEW p \in Seq(Nodes), NEW q \in Seq(Nodes), Begins(q, p), Len(q) = Len(p)
  PROVE  q = p
BY DEF Begins

(* What the steps below use of the invariant. *)
LEMMA SearchTypes ==
  ASSUME IInv
  PROVE  /\ \A k \in DOMAIN queue : queue[k] \in Seq(Nodes) /\ Len(queue[k]) \in Nat \ {0}
         /\ \A k \in DOMAIN pathsToNode :
              pathsToNode[k] \in Seq(Nodes) /\ Len(pathsToNode[k]) \in Nat \ {0}
         /\ path \in Seq(Nodes) /\ Len(path) \in Nat
         /\ DOMAIN queue = 1..Len(queue) /\ Len(queue) \in Nat
         /\ DOMAIN pathsToNode = 1..Len(pathsToNode) /\ Len(pathsToNode) \in Nat
         /\ pending # {} => path # <<>>
         /\ queue # <<>> => 1 \in DOMAIN queue
         /\ \A p : /\ DOMAIN Append(pathsToNode, p) = 1..Len(pathsToNode) + 1
                  /\ Append(pathsToNode, p)[Len(pathsToNode) + 1] = p
                  /\ \A k \in DOMAIN pathsToNode : Append(pathsToNode, p)[k] = pathsToNode[k]
<1> DEFINE S == Seq(Nodes) \ {<<>>}
<1>1. queue \in Seq(S) /\ pathsToNode \in Seq(S) /\ path \in Seq(Nodes)
  BY DEF IInv, TypeOK
<1>2. \A s \in S : s \in Seq(Nodes) /\ Len(s) \in Nat \ {0}
  OBVIOUS
<1> HIDE DEF S
<1>3. /\ \A k \in DOMAIN queue : queue[k] \in S
      /\ \A k \in DOMAIN pathsToNode : pathsToNode[k] \in S
      /\ DOMAIN queue = 1..Len(queue) /\ Len(queue) \in Nat
      /\ DOMAIN pathsToNode = 1..Len(pathsToNode) /\ Len(pathsToNode) \in Nat
      /\ queue # <<>> => 1 \in DOMAIN queue
      /\ \A p : /\ DOMAIN Append(pathsToNode, p) = 1..Len(pathsToNode) + 1
               /\ Append(pathsToNode, p)[Len(pathsToNode) + 1] = p
               /\ \A k \in DOMAIN pathsToNode : Append(pathsToNode, p)[k] = pathsToNode[k]
  BY <1>1
<1> QED BY <1>1, <1>2, <1>3 DEF IInv, PathInv

(* The search starts with the one path of one node. *)
LEMMA BreadthStart == Started => BreadthInv
<1> SUFFICES ASSUME Started PROVE BreadthInv
  OBVIOUS
<1>1. /\ DOMAIN queue = {1} /\ queue[1] = <<root>> /\ Len(queue[1]) = 1
      /\ queue[1][1] = root
      /\ path = <<>> /\ Len(path) = 0 /\ pathsToNode = <<>> /\ DOMAIN pathsToNode = {}
      /\ visited = {} /\ pending = {}
  BY DEF Started
<1>2. \A p \in Routes : Len(p) \in Nat /\ Len(p) >= 1 /\ p[1] = root
  BY DEF Routes, IsRoute
<1>3. OrderInv /\ VisitedInv
  BY <1>1 DEF OrderInv, VisitedInv
<1>4. CoverInv
  <2>1. \A p \in Routes : Begins(queue[1], p)
    BY <1>1, <1>2 DEF Begins
  <2> QED BY <1>1, <2>1 DEF CoverInv
<1>5. NearInv
  <2>1. NearlyShortest(queue[1])
    BY <1>1, <1>2 DEF NearlyShortest, RoutesTo
  <2> QED BY <1>1, <2>1 DEF NearInv
<1>6. DistinctInv
  BY <1>1 DEF DistinctInv, Prolongs
<1> QED BY <1>3, <1>4, <1>5, <1>6, StartInv DEF BreadthInv

(* The same of the state a step leads to. *)
LEMMA BreadthStartNext == Started' => BreadthInv'
BY BreadthStart, PTL

(* The path taken off the queue is one of the shorter ones; a route followed
   so far is followed on over one of its neighbours, or found. *)
LEMMA BreadthDequeue == BreadthInv /\ Dequeue => BreadthInv'
<1> SUFFICES ASSUME BreadthInv, Dequeue PROVE BreadthInv'
  OBVIOUS
<1> USE DEF BreadthInv
<1>1. /\ pending = {} /\ queue # <<>>
      /\ path' = queue[1]
      /\ queue' = Tail(queue)
      /\ visited' = visited \cup {Last(path')}
      /\ pathsToNode' = IF Last(path') = nodeToFind
                        THEN Append(pathsToNode, path') ELSE pathsToNode
      /\ pending' = DOMAIN links[Last(path')]
      /\ UNCHANGED <<root, links, nodeToFind>>
  BY DEF Dequeue
<1>2. /\ \A k \in DOMAIN queue : queue[k] \in Seq(Nodes) /\ Len(queue[k]) \in Nat \ {0}
      /\ \A k \in DOMAIN pathsToNode :
           pathsToNode[k] \in Seq(Nodes) /\ Len(pathsToNode[k]) \in Nat \ {0}
      /\ path \in Seq(Nodes) /\ Len(path) \in Nat
      /\ DOMAIN queue = 1..Len(queue) /\ Len(queue) \in Nat
      /\ DOMAIN pathsToNode = 1..Len(pathsToNode) /\ Len(pathsToNode) \in Nat
      /\ 1 \in DOMAIN queue
  BY <1>1, SearchTypes
<1>3. 1 \in DOMAIN queue /\ IsRoute(queue[1])
  BY <1>2 DEF IInv, QueueInv
<1>4. /\ DOMAIN queue' = 1..Len(queue) - 1
      /\ \A k \in DOMAIN queue' : k + 1 \in DOMAIN queue /\ queue'[k] = queue[k + 1] /\ k \in Nat \ {0}
  BY <1>1, <1>2 DEF IInv, TypeOK
<1>5. /\ \A k \in DOMAIN pathsToNode' :
           \/ k \in DOMAIN pathsToNode /\ pathsToNode'[k] = pathsToNode[k]
           \/ k = Len(pathsToNode) + 1 /\ pathsToNode'[k] = queue[1]
      /\ \A k \in DOMAIN pathsToNode : k \in DOMAIN pathsToNode' /\ pathsToNode'[k] = pathsToNode[k]
      /\ Last(queue[1]) = nodeToFind =>
           \E k \in DOMAIN pathsToNode' : pathsToNode'[k] = queue[1]
  <2>2. CASE Last(path') = nodeToFind
    <3>1. pathsToNode' = Append(pathsToNode, queue[1])
      BY <1>1, <2>2
    <3>2. /\ DOMAIN pathsToNode' = 1..Len(pathsToNode) + 1
          /\ pathsToNode'[Len(pathsToNode) + 1] = queue[1]
          /\ \A k \in DOMAIN pathsToNode : pathsToNode'[k] = pathsToNode[k]
      BY <3>1, SearchTypes
    <3> QED BY <1>2, <3>2
  <2>3. CASE Last(path') # nodeToFind
    BY <1>1, <1>2, <2>3
  <2> QED BY <2>2, <2>3
<1>6. IInv'
  BY DequeueInv
<1>7. OrderInv'
  <2>1. \A j, k \in DOMAIN queue :
          j <= k => Len(queue[j]) <= Len(queue[k]) /\ Len(queue[k]) <= Len(queue[j]) + 1
    BY DEF OrderInv
  <2>2. \A j, k \in DOMAIN queue' :
          j <= k => Len(queue'[j]) <= Len(queue'[k]) /\ Len(queue'[k]) <= Len(queue'[j]) + 1
    BY <1>4, <2>1
  <2>3. \A k \in DOMAIN queue' : Len(path') <= Len(queue'[k]) /\ Len(queue'[k]) <= Len(path') + 1
    BY <1>1, <1>3, <1>4, <2>1
  <2> QED BY <2>2, <2>3 DEF OrderInv
<1>8. path # <<>> => Len(path) <= Len(path')
  BY <1>1, <1>3 DEF OrderInv
<1>9. VisitedInv'
  <2> SUFFICES ASSUME NEW n \in visited' PROVE \E q \in RoutesTo(n) : Len(q) <= Len(path')
    BY <1>1, RoutesStay DEF VisitedInv
  <2>1. CASE n \in visited
    <3>1. PICK q \in RoutesTo(n) : Len(q) <= Len(path)
      BY <2>1 DEF VisitedInv
    <3>2. Len(q) \in Nat /\ Len(q) >= 1
      BY RoutesAre DEF IsRoute
    <3>3. path # <<>>
      BY <3>1, <3>2
    <3> QED BY <1>1, <1>2, <1>3, <1>8, <3>1, <3>2, <3>3
  <2>2. CASE n = Last(path')
    <3>1. path' \in RoutesTo(n)
      BY <1>1, <1>3, <2>2, RoutesAre
    <3> QED BY <1>1, <1>2, <1>3, <3>1
  <2> QED BY <1>1, <2>1, <2>2
<1>10. CoverInv'
  <2> SUFFICES ASSUME NEW p \in Routes, IsShortest(p)
               PROVE  \/ \E k \in DOMAIN queue' : Begins(queue'[k], p)
                      \/ /\ path' # <<>> /\ Begins(path', p) /\ Len(path') < Len(p)
                         /\ p[Len(path') + 1] \in pending'
                      \/ /\ Last(p) \in visited'
                         /\ Last(p) = nodeToFind => p \in Range(pathsToNode')
    BY <1>1, RoutesStay DEF CoverInv, Begins, Last
  <2>0. /\ p \in Seq(Nodes) /\ Len(p) \in Nat
        /\ \A x \in 1..Len(p) - 1 : p[x + 1] \in DOMAIN links[p[x]]
    BY DEF Routes, IsRoute
  <2>1. CASE \E k \in DOMAIN queue : Begins(queue[k], p)
    <3>1. PICK k \in DOMAIN queue : Begins(queue[k], p)
      BY <2>1
    <3>2. CASE k = 1 /\ Len(path') = Len(p)
      <4>1. p = queue[1]
        BY <1>1, <1>2, <1>3, <2>0, <3>1, <3>2, SameSequence
      <4> QED BY <1>1, <1>5, <4>1 DEF Range
    <3>3. CASE k = 1 /\ Len(path') # Len(p)
      <4>1. Begins(path', p) /\ Len(path') < Len(p) /\ Len(path') \in 1..Len(p) - 1
        BY <1>1, <1>2, <1>3, <2>0, <3>1, <3>3 DEF Begins
      <4>2. Last(path') = p[Len(path')]
        BY <4>1 DEF Begins, Last
      <4>3. p[Len(path') + 1] \in pending'
        BY <1>1, <2>0, <4>1, <4>2
      <4> QED BY <1>1, <1>2, <1>3, <4>1, <4>3
    <3>4. CASE k # 1
      <4>1. k - 1 \in DOMAIN queue' /\ queue'[k - 1] = queue[k]
        BY <1>2, <1>4, <3>4
      <4> QED BY <3>1, <4>1
    <3> QED BY <3>2, <3>3, <3>4
  <2>2. CASE Last(p) \in visited /\ (Last(p) = nodeToFind => p \in Range(pathsToNode))
    BY <1>1, <1>5, <2>2 DEF Range
  <2> QED BY <1>1, <2>1, <2>2 DEF CoverInv
<1>11. NearInv'
  <2>1. \A k \in DOMAIN queue' : NearlyShortest(queue'[k])
    BY <1>4 DEF NearInv
  <2>2. \A k \in DOMAIN pathsToNode' : NearlyShortest(pathsToNode'[k])
    BY <1>3, <1>5 DEF NearInv
  <2> QED BY <1>1, <2>1, <2>2, RoutesStay DEF NearInv, NearlyShortest, Last
<1>12. DistinctInv'
  <2>1. \A j, k \in DOMAIN queue' : queue'[j] = queue'[k] => j = k
    BY <1>4 DEF DistinctInv
  <2>2. \A j, k \in DOMAIN queue' : ~Prolongs(queue'[k], queue'[j])
    BY <1>4 DEF DistinctInv
  <2>3. \A k \in DOMAIN queue' : queue'[k] # path'
    BY <1>1, <1>3, <1>4 DEF DistinctInv
  <2>4. \A k \in DOMAIN queue' : ~Prolongs(queue'[k], path')
    BY <1>1, <1>3, <1>4 DEF DistinctInv
  <2>5. ASSUME NEW k \in DOMAIN pathsToNode'
        PROVE  Len(pathsToNode'[k]) <= Len(path') /\ pathsToNode'[k] \notin Range(queue')
    <3>1. CASE k \in DOMAIN pathsToNode /\ pathsToNode'[k] = pathsToNode[k]
      <4>1. Len(pathsToNode[k]) <= Len(path) /\ pathsToNode[k] \notin Range(queue)
        BY <3>1 DEF DistinctInv
      <4>2. path # <<>>
        BY <1>2, <3>1, <4>1
      <4>3. Len(path) <= Len(path')
        BY <1>8, <4>2
      <4> QED BY <1>1, <1>2, <1>3, <1>4, <3>1, <4>1, <4>3 DEF Range
    <3>2. CASE pathsToNode'[k] = queue[1]
      BY <1>1, <1>2, <1>3, <2>3, <3>2 DEF Range
    <3> QED BY <1>5, <3>1, <3>2
  <2>6. \A j, k \in DOMAIN pathsToNode' : pathsToNode'[j] = pathsToNode'[k] => j = k
    BY <1>3, <1>5 DEF DistinctInv, Range
  <2> QED BY <2>1, <2>2, <2>3, <2>4, <2>5, <2>6 DEF DistinctInv, Prolongs, Last, Range
<1> QED BY <1>6, <1>7, <1>9, <1>10, <1>11, <1>12

(* A neighbour that has been visited has a shorter route, and no shortest route
   goes there from the end of the current path; one that has not been visited is
   as far away as the paths the queue still holds, and prolongs the current path
   for the first time. *)
LEMMA BreadthExplore == \A n : BreadthInv /\ Explore(n) => BreadthInv'
<1> SUFFICES ASSUME NEW n, BreadthInv, Explore(n) PROVE BreadthInv'
  OBVIOUS
<1> USE DEF BreadthInv
<1> DEFINE q == Append(path, n)
<1>1. /\ n \in pending
      /\ pending' = pending \ {n}
      /\ queue' = IF n \in visited THEN queue ELSE Append(queue, q)
      /\ UNCHANGED <<root, links, nodeToFind, visited, pathsToNode, path>>
  BY DEF Explore
<1>2. /\ \A k \in DOMAIN queue : queue[k] \in Seq(Nodes) /\ Len(queue[k]) \in Nat \ {0}
      /\ \A k \in DOMAIN pathsToNode :
           pathsToNode[k] \in Seq(Nodes) /\ Len(pathsToNode[k]) \in Nat \ {0}
      /\ path \in Seq(Nodes) /\ Len(path) \in Nat
      /\ DOMAIN queue = 1..Len(queue) /\ Len(queue) \in Nat
      /\ path # <<>>
  BY <1>1, SearchTypes
<1>3. IInv'
  BY ExploreInv
<1>4. n \in Nodes
  BY <1>1 DEF IInv, TypeOK
<1>5. /\ q \in Seq(Nodes) /\ Len(q) = Len(path) + 1 /\ q[Len(path) + 1] = n
      /\ \A j \in 1..Len(path) : q[j] = path[j]
      /\ Last(q) = n
  BY <1>2, <1>4 DEF Last
<1> HIDE DEF q
<1>6. VisitedInv'
  BY <1>1, RoutesStay DEF VisitedInv
<1>7. /\ n \in visited => queue' = queue
      /\ n \notin visited =>
           /\ DOMAIN queue' = 1..Len(queue) + 1
           /\ queue'[Len(queue) + 1] = q
           /\ \A k \in DOMAIN queue : queue'[k] = queue[k]
  <2> DEFINE S == Seq(Nodes)
  <2>1. queue \in Seq(S) /\ q \in S
    <3>1. queue \in [1..Len(queue) -> S]
      BY <1>2 DEF IInv, TypeOK
    <3> HIDE DEF S
    <3> QED BY <1>2, <1>5, <3>1 DEF S
  <2> HIDE DEF S
  <2> QED BY <1>1, <2>1
<1>8. CoverInv'
  <2> SUFFICES ASSUME NEW p \in Routes, IsShortest(p)
               PROVE  \/ \E k \in DOMAIN queue' : Begins(queue'[k], p)
                      \/ /\ path # <<>> /\ Begins(path, p) /\ Len(path) < Len(p)
                         /\ p[Len(path) + 1] \in pending'
                      \/ /\ Last(p) \in visited
                         /\ Last(p) = nodeToFind => p \in Range(pathsToNode)
    BY <1>1, RoutesStay DEF CoverInv, Begins, Last, Range
  <2>1. CASE \E k \in DOMAIN queue : Begins(queue[k], p)
    <3>1. PICK k \in DOMAIN queue : Begins(queue[k], p)
      BY <2>1
    <3>2. k \in DOMAIN queue' /\ queue'[k] = queue[k]
      BY <1>2, <1>7
    <3> QED BY <3>1, <3>2
  <2>2. CASE /\ path # <<>> /\ Begins(path, p) /\ Len(path) < Len(p)
             /\ p[Len(path) + 1] \in pending
    <3>1. CASE p[Len(path) + 1] = n /\ n \notin visited
      <4>1. Begins(q, p)
        <5>1. Len(p) \in Nat
          BY DEF Routes, IsRoute
        <5> QED BY <1>2, <1>5, <2>2, <3>1, <5>1 DEF Begins
      <4>2. Len(queue) + 1 \in DOMAIN queue' /\ queue'[Len(queue) + 1] = q
        BY <1>2, <1>7, <3>1
      <4> QED BY <4>1, <4>2
    <3>2. CASE p[Len(path) + 1] = n /\ n \in visited
      <4>1. PICK r \in RoutesTo(n) : Len(r) <= Len(path)
        BY <3>2 DEF VisitedInv
      <4>2. Len(path) + 1 \in 1..Len(p)
        <5>1. Len(p) \in Nat
          BY DEF Routes, IsRoute
        <5> QED BY <1>2, <2>2, <5>1
      <4>3. Len(path) + 1 <= Len(r)
        BY <3>2, <4>2, NoShortcut
      <4>4. Len(r) \in Nat
        BY RoutesAre DEF IsRoute
      <4> QED BY <1>2, <4>1, <4>3, <4>4
    <3>3. CASE p[Len(path) + 1] # n
      BY <1>1, <2>2, <3>3
    <3> QED BY <3>1, <3>2, <3>3
  <2> QED BY <2>1, <2>2 DEF CoverInv
<1>9. CASE n \in visited
  <2>1. queue' = queue
    BY <1>7, <1>9
  <2>2. OrderInv'
    BY <1>1, <2>1 DEF OrderInv
  <2>3. NearInv'
    BY <1>1, <2>1, RoutesStay DEF NearInv
  <2>4. DistinctInv'
    BY <1>1, <2>1 DEF DistinctInv, Prolongs, Last, Range
  <2> QED BY <1>3, <1>6, <1>8, <2>2, <2>3, <2>4
<1>10. CASE n \notin visited
  <2>1. /\ DOMAIN queue' = 1..Len(queue) + 1
        /\ \A k \in DOMAIN queue' :
             \/ k \in DOMAIN queue /\ queue'[k] = queue[k]
             \/ k = Len(queue) + 1 /\ queue'[k] = q /\ k \notin DOMAIN queue
    BY <1>2, <1>7, <1>10
  <2>2. OrderInv'
    <3>1. \A j, k \in DOMAIN queue :
            j <= k => Len(queue[j]) <= Len(queue[k]) /\ Len(queue[k]) <= Len(queue[j]) + 1
      BY DEF OrderInv
    <3>2. \A k \in DOMAIN queue : Len(path) <= Len(queue[k]) /\ Len(queue[k]) <= Len(path) + 1
      BY <1>2 DEF OrderInv
    <3>3. ASSUME NEW j \in DOMAIN queue', NEW k \in DOMAIN queue', j <= k
          PROVE  Len(queue'[j]) <= Len(queue'[k]) /\ Len(queue'[k]) <= Len(queue'[j]) + 1
      <4>1. CASE k \in DOMAIN queue
        BY <1>2, <2>1, <3>1, <3>3, <4>1
      <4>2. CASE k = Len(queue) + 1 /\ queue'[k] = q
        BY <1>2, <1>5, <2>1, <3>2, <4>2
      <4> QED BY <2>1, <4>1, <4>2
    <3>4. \A k \in DOMAIN queue' : Len(path) <= Len(queue'[k]) /\ Len(queue'[k]) <= Len(path) + 1
      BY <1>2, <1>5, <2>1, <3>2
    <3> QED BY <1>1, <3>3, <3>4 DEF OrderInv
  <2>3. NearInv'
    <3>1. NearlyShortest(q)
      <4> SUFFICES ASSUME NEW p \in RoutesTo(n) PROVE Len(q) <= Len(p) + 1
        BY <1>5 DEF NearlyShortest
      <4>1. PICK s \in RoutesTo(n) : IsShortest(s) /\ Len(s) <= Len(p)
        BY ShortestExists
      <4>2. s \in Routes /\ Last(s) = n /\ Len(s) \in Nat
        BY DEF RoutesTo, Routes, IsRoute
      <4>3. Len(path) <= Len(s)
        <5>1. CASE \E k \in DOMAIN queue : Begins(queue[k], s)
          BY <1>2, <4>2, <5>1 DEF OrderInv, Begins
        <5>2. CASE Len(path) < Len(s)
          BY <1>2, <4>2, <5>2
        <5> QED BY <1>10, <4>1, <4>2, <5>1, <5>2 DEF CoverInv
      <4>4. Len(p) \in Nat
        BY RoutesAre DEF IsRoute
      <4> QED BY <1>2, <1>5, <4>1, <4>2, <4>3, <4>4
    <3>2. /\ \A k \in DOMAIN queue' : NearlyShortest(queue'[k])
          /\ \A k \in DOMAIN pathsToNode : NearlyShortest(pathsToNode[k])
      BY <2>1, <3>1 DEF NearInv
    <3> QED BY <1>1, <3>2, RoutesStay DEF NearInv
  <2>4. DistinctInv'
    <3>1. \A k \in DOMAIN queue : queue[k] # q
      <4>1. Prolongs(q, path)
        BY <1>5 DEF Prolongs
      <4> QED BY <1>1, <1>5, <4>1 DEF DistinctInv
    <3>2. \A j, k \in DOMAIN queue' : queue'[j] = queue'[k] => j = k
      BY <2>1, <3>1 DEF DistinctInv
    <3>3. ASSUME NEW j \in DOMAIN queue', NEW k \in DOMAIN queue', Prolongs(queue'[k], queue'[j])
          PROVE  FALSE
      <4>1. \A x \in DOMAIN queue : Len(queue[x]) <= Len(path) + 1
        BY <1>2 DEF OrderInv
      <4>2. CASE j \in DOMAIN queue /\ k \in DOMAIN queue
        BY <2>1, <3>3, <4>2 DEF DistinctInv
      <4>3. CASE queue'[j] = q
        BY <1>2, <1>5, <2>1, <3>3, <4>1, <4>3 DEF Prolongs
      <4>4. CASE queue'[k] = q /\ j \in DOMAIN queue /\ queue'[j] = queue[j]
        <5>1. Begins(queue[j], path) /\ Len(queue[j]) = Len(path)
          BY <1>2, <1>5, <3>3, <4>4 DEF Prolongs, Begins
        <5>2. queue[j] = path
          BY <1>2, <4>4, <5>1, SameSequence
        <5> QED BY <4>4, <5>2 DEF DistinctInv
      <4> QED BY <2>1, <4>2, <4>3, <4>4
    <3>4. \A k \in DOMAIN queue' : queue'[k] # path
      BY <1>2, <1>5, <2>1 DEF DistinctInv
    <3>5. \A k \in DOMAIN queue' : Prolongs(queue'[k], path) => Last(queue'[k]) \notin pending'
      BY <1>1, <1>5, <2>1 DEF DistinctInv
    <3>6. \A k \in DOMAIN pathsToNode : /\ Len(pathsToNode[k]) <= Len(path)
                                        /\ pathsToNode[k] \notin Range(queue')
      <4>1. \A k \in DOMAIN pathsToNode : /\ Len(pathsToNode[k]) <= Len(path)
                                          /\ pathsToNode[k] \notin Range(queue)
        BY DEF DistinctInv
      <4>2. \A k \in DOMAIN pathsToNode : pathsToNode[k] # q
        BY <1>2, <1>5, <4>1
      <4> QED BY <2>1, <4>1, <4>2 DEF Range
    <3>7. \A j, k \in DOMAIN pathsToNode : pathsToNode[j] = pathsToNode[k] => j = k
      BY DEF DistinctInv
    <3> QED BY <1>1, <3>2, <3>3, <3>4, <3>5, <3>6, <3>7 DEF DistinctInv, Prolongs, Last, Range
  <2> QED BY <1>3, <1>6, <1>8, <2>2, <2>3, <2>4
<1> QED BY <1>9, <1>10

(* What the search has found when it ends. *)
LEMMA SearchResult == BreadthInv => AllShortestPathsFound /\ FoundPathsNearlyShortest
<1> SUFFICES ASSUME BreadthInv, Returned PROVE AllShortestPathsFound /\ FoundPathsNearlyShortest
  BY DEF AllShortestPathsFound, FoundPathsNearlyShortest
<1>1. DOMAIN queue = {} /\ pending = {}
  BY DEF Returned
<1>2. AllShortestPathsFound
  <2> SUFFICES ASSUME NEW p \in RoutesTo(nodeToFind), IsShortest(p)
               PROVE  p \in Range(pathsToNode)
    BY DEF AllShortestPathsFound
  <2>1. p \in Routes /\ Last(p) = nodeToFind
    BY DEF RoutesTo
  <2> QED BY <1>1, <2>1 DEF BreadthInv, CoverInv
<1>3. ASSUME NEW p \in RoutesTo(nodeToFind), NEW q \in Range(pathsToNode)
      PROVE  Len(q) <= Len(p) + 1
  <2>1. NearlyShortest(q) /\ Last(q) = nodeToFind
    BY DEF BreadthInv, IInv, NearInv, FoundPathsAreRoutes, Range
  <2> QED BY <2>1 DEF NearlyShortest
<1>4. IsInjective(pathsToNode)
  BY DEF BreadthInv, DistinctInv, IsInjective
<1> QED BY <1>2, <1>3, <1>4 DEF FoundPathsNearlyShortest

-------------------------------------------------------------------------------
(* The invariant holds initially. *)
LEMMA InitInv == Init => BreadthInv
<1> SUFFICES ASSUME Init PROVE BreadthInv
  OBVIOUS
<1>1. DOMAIN links = Nodes /\ \A n \in Nodes : DOMAIN links[n] \subseteq Nodes
  <2>1. PICK g : links = [n \in Nodes |-> [m \in {x \in Nodes : {n, x} \in g} |-> {n, m}]]
    BY Zenon DEF Init, Graphs
  <2> QED BY <2>1
<1> QED BY <1>1, BreadthStart DEF Init, Started

(* Nothing happens to it while nothing happens. *)
LEMMA StutterInv == BreadthInv /\ UNCHANGED vars => BreadthInv'
<1> SUFFICES ASSUME BreadthInv, UNCHANGED vars PROVE BreadthInv'
  OBVIOUS
<1>1. UNCHANGED <<root, links, nodeToFind, queue, visited, pathsToNode, path, pending>>
  BY DEF vars
<1>2. IInv'
  BY <1>1 DEF BreadthInv, IInv, TypeOK, QueueInv, PathInv, FoundPathsAreRoutes, IsRoute, Last
<1>3. OrderInv' /\ DistinctInv'
  BY <1>1 DEF BreadthInv, OrderInv, DistinctInv, Prolongs, Last, Range
<1>4. VisitedInv' /\ CoverInv' /\ NearInv'
  BY <1>1, RoutesStay DEF BreadthInv, VisitedInv, CoverInv, NearInv, Begins, Last, Range
<1> QED BY <1>2, <1>3, <1>4 DEF BreadthInv

(* Every step of the search keeps the invariant. *)
LEMMA NextInv == BreadthInv /\ [Next]_vars => BreadthInv'
<1> SUFFICES ASSUME BreadthInv, [Next]_vars PROVE BreadthInv'
  OBVIOUS
<1>1. CASE Dequeue
  BY <1>1, BreadthDequeue
<1>2. CASE \E n \in Nodes : Explore(n)
  BY <1>2, BreadthExplore
<1>3. CASE UNCHANGED vars
  BY <1>3, StutterInv
<1> QED BY <1>1, <1>2, <1>3 DEF Next

(* On every graph the types hold throughout the search. *)
THEOREM TypeCorrect == Spec => []TypeOK
<1>1. BreadthInv => TypeOK
  BY DEF BreadthInv, IInv
<1> QED BY <1>1, InitInv, NextInv, PTL DEF Spec

(* Every path findPathsTo collects is a simple route along links from the core
   to the node asked for, on every graph and for every order of the Links
   maps. *)
THEOREM RoutesFound == Spec => []FoundPathsAreRoutes
<1>1. BreadthInv => FoundPathsAreRoutes
  BY DEF BreadthInv, IInv
<1> QED BY <1>1, InitInv, NextInv, PTL DEF Spec

(* Although a node is marked only when a path to it is taken off the queue, and
   whatever the order of the Links maps, no shortest path is missed: on every
   graph. *)
THEOREM ShortestFound == Spec => []AllShortestPathsFound
<1>1. BreadthInv => AllShortestPathsFound
  BY SearchResult
<1> QED BY <1>1, InitInv, NextInv, PTL DEF Spec

(* No path found is more than one hop longer than the shortest, and none is
   found twice: on every graph. *)
THEOREM NearlyShortestOnly == Spec => []FoundPathsNearlyShortest
<1>1. BreadthInv => FoundPathsNearlyShortest
  BY SearchResult
<1> QED BY <1>1, InitInv, NextInv, PTL DEF Spec
===============================================================================
