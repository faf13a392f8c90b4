----------------------- MODULE PlacementAccountingProofs ----------------------
(***************************************************************************)
(* The books of a placement run: what has been taken of nodes and links is *)
(* what the chains need, for every topology, cluster, list of RUs and      *)
(* requirement.                                                            *)
(***************************************************************************)
EXTENDS PlacementProofs

(* To show something of all subsets of a finite set, it is enough to show it
   of a subset of which all smaller ones have it: a smallest one that has it
   not has none smaller. *)
LEMMA SmallestSubset ==
  ASSUME NEW S, IsFiniteSet(S), NEW A,
         \A T \in SUBSET S :
           (\A U \in SUBSET T : Cardinality(U) < Cardinality(T) => U \in A) => T \in A
  PROVE  SUBSET S \subseteq A
<1> DEFINE bad == {T \in SUBSET S : T \notin A}
           sizes == {Cardinality(T) : T \in bad}
<1>1. \A T \in SUBSET S : IsFiniteSet(T) /\ Cardinality(T) \in Nat
  BY FS_Subset, FS_CardinalityType
<1>2. SUFFICES ASSUME bad # {} PROVE FALSE
  OBVIOUS
<1>3. sizes \subseteq Nat /\ sizes # {}
  BY <1>1, <1>2
<1>4. PICK n \in sizes : \A m \in sizes : n <= m
  BY <1>3, P!Least, SearchAssumption
<1>5. PICK T \in bad : Cardinality(T) = n
  BY <1>4
<1>6. ASSUME NEW U \in SUBSET T, Cardinality(U) < Cardinality(T) PROVE U \in A
  <2>1. U \in SUBSET S
    BY <1>5
  <2>2. Cardinality(U) \in Nat /\ Cardinality(T) \in Nat
    BY <1>1, <1>5, <2>1
  <2>3. U \in bad => Cardinality(T) <= Cardinality(U)
    BY <1>4, <1>5
  <2> QED BY <1>6, <2>1, <2>2, <2>3
<1> QED BY <1>5, <1>6

(* A subset without one of its elements is smaller. *)
LEMMA Smaller ==
  ASSUME NEW S, IsFiniteSet(S), NEW T \in SUBSET S, NEW x \in T
  PROVE  /\ T \ {x} \in SUBSET T /\ T \ {x} \in SUBSET S
         /\ Cardinality(T \ {x}) = Cardinality(T) - 1
         /\ Cardinality(T) \in Nat \ {0} /\ Cardinality(T \ {x}) \in Nat
<1>1. IsFiniteSet(T) /\ Cardinality(T) \in Nat
  BY FS_Subset, FS_CardinalityType
<1>2. IsFiniteSet(T \ {x}) /\ Cardinality(T \ {x}) = Cardinality(T) - 1
  BY <1>1, FS_RemoveElement
<1>3. Cardinality(T \ {x}) \in Nat
  BY <1>2, FS_CardinalityType
<1> QED BY <1>1, <1>2, <1>3

-------------------------------------------------------------------------------
(* The sums of f over the subsets of S, as SumFunctionOnSet computes them. *)
Pick(T) == CHOOSE x \in T : TRUE

SumsUpTo(f, S, n, sum) ==
  sum = [T \in {U \in SUBSET S : Cardinality(U) <= n} |->
           IF T = {} THEN 0 ELSE f[Pick(T)] + sum[T \ {Pick(T)}]]

Sums(f, S) ==
  CHOOSE sum : sum = [T \in SUBSET S |-> IF T = {} THEN 0 ELSE f[Pick(T)] + sum[T \ {Pick(T)}]]

(* There are such sums of the subsets up to any size. *)
LEMMA SumsOfSize ==
  ASSUME NEW f, NEW S, IsFiniteSet(S), NEW n \in Nat
  PROVE  \E sum : SumsUpTo(f, S, n, sum)
<1> DEFINE bad == {m \in Nat : ~\E sum : SumsUpTo(f, S, m, sum)}
<1>1. SUFFICES ASSUME bad # {} PROVE FALSE
  OBVIOUS
<1>2. PICK m \in bad : \A j \in bad : m <= j
  <2>1. bad \subseteq Nat
    OBVIOUS
  <2> HIDE DEF bad
  <2> QED BY <1>1, <2>1, P!Least, SearchAssumption
<1>3. CASE m = 0
  <2> DEFINE D == {U \in SUBSET S : Cardinality(U) <= 0}
             sum == [T \in D |-> 0]
  <2>1. \A T \in D : T = {}
    BY FS_Subset, FS_EmptySet, FS_CardinalityType
  <2>2. sum = [T \in D |-> IF T = {} THEN 0 ELSE f[Pick(T)] + sum[T \ {Pick(T)}]]
    BY <2>1
  <2> QED BY <1>2, <1>3, <2>2 DEF SumsUpTo
<1>4. CASE m # 0
  <2>1. m - 1 \in Nat /\ m - 1 \notin bad
    BY <1>2, <1>4
  <2>2. PICK old : SumsUpTo(f, S, m - 1, old)
    BY <2>1
  <2> DEFINE D == {U \in SUBSET S : Cardinality(U) <= m}
             E == {U \in SUBSET S : Cardinality(U) <= m - 1}
             sum == [T \in D |-> IF T = {} THEN 0 ELSE f[Pick(T)] + old[T \ {Pick(T)}]]
  <2>3. \A T \in E : old[T] = IF T = {} THEN 0 ELSE f[Pick(T)] + old[T \ {Pick(T)}]
    BY <2>2 DEF SumsUpTo
  <2>4. ASSUME NEW T \in D, T # {} PROVE sum[T \ {Pick(T)}] = old[T \ {Pick(T)}]
    <3>1. Pick(T) \in T
      BY <2>4 DEF Pick
    <3> DEFINE U == T \ {Pick(T)}
    <3>2. U \in SUBSET S /\ Cardinality(U) = Cardinality(T) - 1 /\ Cardinality(T) \in Nat
          /\ Cardinality(U) \in Nat
      BY <3>1, Smaller
    <3>3. U \in D /\ U \in E
      BY <3>2
    <3> QED BY <2>3, <3>3
  <2>5. sum = [T \in D |-> IF T = {} THEN 0 ELSE f[Pick(T)] + sum[T \ {Pick(T)}]]
    BY <2>4
  <2> QED BY <1>2, <2>5 DEF SumsUpTo
<1> QED BY <1>3, <1>4

(* So there are of all subsets. *)
LEMMA SumsExist ==
  ASSUME NEW f, NEW S, IsFiniteSet(S), NEW T \in SUBSET S
  PROVE  Sums(f, S)[T] = IF T = {} THEN 0 ELSE f[Pick(T)] + Sums(f, S)[T \ {Pick(T)}]
<1>1. Cardinality(S) \in Nat /\ \A U \in SUBSET S : Cardinality(U) <= Cardinality(S)
  BY FS_CardinalityType, FS_Subset
<1>2. PICK sum : SumsUpTo(f, S, Cardinality(S), sum)
  BY <1>1, SumsOfSize
<1>3. {U \in SUBSET S : Cardinality(U) <= Cardinality(S)} = SUBSET S
  BY <1>1
<1>4. sum = [U \in SUBSET S |-> IF U = {} THEN 0 ELSE f[Pick(U)] + sum[U \ {Pick(U)}]]
  BY <1>2, <1>3 DEF SumsUpTo
<1> DEFINE all == Sums(f, S)
<1>5. all = [U \in SUBSET S |-> IF U = {} THEN 0 ELSE f[Pick(U)] + all[U \ {Pick(U)}]]
  BY <1>4 DEF Sums
<1> HIDE DEF all
<1>6. all[T] = IF T = {} THEN 0 ELSE f[Pick(T)] + all[T \ {Pick(T)}]
  BY <1>5
<1> QED BY <1>6 DEF all

(* A sum of integers is one. *)
LEMMA SumsTyped ==
  ASSUME NEW f, NEW S, IsFiniteSet(S), \A x \in S : f[x] \in Int
  PROVE  \A T \in SUBSET S : Sums(f, S)[T] \in Int
<1> DEFINE A == {T \in SUBSET S : Sums(f, S)[T] \in Int}
<1>1. ASSUME NEW T \in SUBSET S,
             \A U \in SUBSET T : Cardinality(U) < Cardinality(T) => U \in A
      PROVE  T \in A
  <2>1. CASE T = {}
    BY <2>1, SumsExist
  <2>2. CASE T # {}
    <3> DEFINE x == Pick(T)
    <3>1. x \in T
      BY <2>2 DEF Pick
    <3>2. Sums(f, S)[T] = f[x] + Sums(f, S)[T \ {x}]
      <4>1. Sums(f, S)[T] = IF T = {} THEN 0 ELSE f[Pick(T)] + Sums(f, S)[T \ {Pick(T)}]
        BY SumsExist
      <4> QED BY <2>2, <4>1
    <3> HIDE DEF x
    <3>3. T \ {x} \in A
      BY <1>1, <3>1, Smaller
    <3> QED BY <3>1, <3>2, <3>3
  <2> QED BY <2>1, <2>2
<1> HIDE DEF A
<1>2. SUBSET S \subseteq A
  BY <1>1, SmallestSubset
<1> QED BY <1>2 DEF A

(* Whichever element is added last, the sum is the same. *)
LEMMA SumsInAnyOrder ==
  ASSUME NEW f, NEW S, IsFiniteSet(S), \A x \in S : f[x] \in Int
  PROVE  \A T \in SUBSET S : \A x \in T : Sums(f, S)[T] = f[x] + Sums(f, S)[T \ {x}]
<1> DEFINE sum == Sums(f, S)
           A == {T \in SUBSET S : \A x \in T : sum[T] = f[x] + sum[T \ {x}]}
<1>1. ASSUME NEW T \in SUBSET S,
             \A U \in SUBSET T : Cardinality(U) < Cardinality(T) => U \in A
      PROVE  T \in A
  <2> SUFFICES ASSUME NEW x \in T PROVE sum[T] = f[x] + sum[T \ {x}]
    OBVIOUS
  <2> DEFINE y == Pick(T)
  <2>1. y \in T
    BY DEF Pick
  <2>2. sum[T] = f[y] + sum[T \ {y}]
    BY SumsExist
  <2> HIDE DEF y, sum
  <2>3. CASE x = y
    BY <2>2, <2>3
  <2>4. CASE x # y
    <3>1. T \ {x} \in A /\ T \ {y} \in A
      BY <1>1, <2>1, Smaller
    <3>2. x \in T \ {y} /\ y \in T \ {x} /\ (T \ {x}) \ {y} = (T \ {y}) \ {x}
      BY <2>1, <2>4
    <3>3. sum[T \ {y}] = f[x] + sum[(T \ {y}) \ {x}]
      BY <3>1, <3>2
    <3>4. sum[T \ {x}] = f[y] + sum[(T \ {x}) \ {y}]
      BY <3>1, <3>2
    <3>5. f[x] \in Int /\ f[y] \in Int /\ sum[(T \ {y}) \ {x}] \in Int
      BY <2>1, SumsTyped DEF sum
    <3>6. sum[(T \ {x}) \ {y}] = sum[(T \ {y}) \ {x}]
      BY <3>2
    <3> DEFINE r == sum[(T \ {y}) \ {x}]
               a == sum[T \ {x}]
               b == sum[T \ {y}]
    <3>7. sum[T] = f[y] + b /\ b = f[x] + r /\ a = f[y] + r /\ r \in Int
      BY <2>2, <3>3, <3>4, <3>5, <3>6
    <3> HIDE DEF r, a, b
    <3>8. sum[T] = f[x] + a
      BY <3>5, <3>7
    <3> QED BY <3>8 DEF a
  <2> QED BY <2>3, <2>4
<1> HIDE DEF A
<1>2. SUBSET S \subseteq A
  BY <1>1, SmallestSubset
<1> QED BY <1>2 DEF A

(* It only depends on the elements summed. *)
LEMMA SumsAgree ==
  ASSUME NEW f, NEW S, IsFiniteSet(S), NEW g, NEW R, IsFiniteSet(R), R \subseteq S,
         \A x \in R : f[x] = g[x]
  PROVE  \A T \in SUBSET R : Sums(f, S)[T] = Sums(g, R)[T]
<1> DEFINE A == {T \in SUBSET R : Sums(f, S)[T] = Sums(g, R)[T]}
<1>1. ASSUME NEW T \in SUBSET R,
             \A U \in SUBSET T : Cardinality(U) < Cardinality(T) => U \in A
      PROVE  T \in A
  <2>1. T \in SUBSET S
    OBVIOUS
  <2>2. CASE T = {}
    BY <2>1, <2>2, SumsExist
  <2>3. CASE T # {}
    <3> DEFINE x == Pick(T)
    <3>1. x \in T
      BY <2>3 DEF Pick
    <3> HIDE DEF x
    <3>2. T \ {x} \in A
      BY <1>1, <3>1, Smaller
    <3>3. /\ Sums(f, S)[T] = f[x] + Sums(f, S)[T \ {x}]
          /\ Sums(g, R)[T] = g[x] + Sums(g, R)[T \ {x}]
      BY <2>1, <2>3, SumsExist DEF x
    <3> QED BY <3>1, <3>2, <3>3
  <2> QED BY <2>2, <2>3
<1> HIDE DEF A
<1>2. SUBSET R \subseteq A
  BY <1>1, SmallestSubset
<1> QED BY <1>2 DEF A

(* What the library's operator computes. *)
LEMMA SumIs == \A f, S : SumFunctionOnSet(f, S) = Sums(f, S)[S]
BY DEF SumFunctionOnSet, FoldFunctionOnSet, MapThenFoldSet, Sums, Pick

(* Nothing sums up to zero. *)
LEMMA SumOfNothing == ASSUME NEW f, DOMAIN f = {} PROVE SumFunction(f) = 0
<1>1. Sums(f, {})[{}] = 0
  <2>1. IsFiniteSet({})
    BY FS_EmptySet
  <2> QED BY <2>1, SumsExist
<1> QED BY <1>1, SumIs DEF SumFunction

(* One term can be taken out of a sum. *)
LEMMA SumSplit ==
  ASSUME NEW f, IsFiniteSet(DOMAIN f), \A x \in DOMAIN f : f[x] \in Int, NEW x \in DOMAIN f
  PROVE  SumFunction(f) = f[x] + SumFunction([y \in DOMAIN f \ {x} |-> f[y]])
<1> DEFINE S == DOMAIN f
           R == DOMAIN f \ {x}
           g == [y \in R |-> f[y]]
<1>1. IsFiniteSet(R) /\ R \subseteq S /\ \A y \in R : f[y] = g[y]
  BY FS_Subset
<1>2. Sums(f, S)[S] = f[x] + Sums(f, S)[R]
  BY SumsInAnyOrder
<1>3. Sums(f, S)[R] = Sums(g, R)[R]
  BY <1>1, SumsAgree
<1>4. DOMAIN g = R
  OBVIOUS
<1> HIDE DEF g, R
<1>5. SumFunction(f) = Sums(f, S)[S] /\ SumFunction(g) = Sums(g, R)[R]
  BY <1>4, SumIs DEF SumFunction
<1> QED BY <1>2, <1>3, <1>5 DEF g, R

(* A sum of integers is an integer, as a function's too. *)
LEMMA SumTyped ==
  ASSUME NEW f, IsFiniteSet(DOMAIN f), \A x \in DOMAIN f : f[x] \in Int
  PROVE  SumFunction(f) \in Int
BY SumsTyped, SumIs DEF SumFunction

(* A term that grows by v makes the sum grow by v. *)
LEMMA SumGrows ==
  ASSUME NEW f, IsFiniteSet(DOMAIN f), \A x \in DOMAIN f : f[x] \in Int,
         NEW x \in DOMAIN f, NEW v \in Int, NEW g, DOMAIN g = DOMAIN f, g[x] = f[x] + v,
         \A y \in DOMAIN f : y # x => g[y] = f[y]
  PROVE  SumFunction(g) = SumFunction(f) + v
<1> DEFINE rest == [y \in DOMAIN f \ {x} |-> f[y]]
<1>1. [y \in DOMAIN g \ {x} |-> g[y]] = rest
  OBVIOUS
<1>2. \A y \in DOMAIN g : g[y] \in Int
  OBVIOUS
<1>3. SumFunction(f) = f[x] + SumFunction(rest)
  BY SumSplit
<1>4. SumFunction(g) = g[x] + SumFunction(rest)
  BY <1>1, <1>2, SumSplit
<1>5. SumFunction(rest) \in Int
  <2>1. IsFiniteSet(DOMAIN rest)
    BY FS_Subset
  <2> QED BY <2>1, SumTyped
<1> QED BY <1>3, <1>4, <1>5

-------------------------------------------------------------------------------
(* The RUs, the DUs and the CUs a node has been charged for. *)
RUsOn(n) == {k \in DOMAIN rus : rus[k].ruNode = n /\ (stage # "rus" \/ k < i)}
DUsOn(n) == {k \in DOMAIN rus : rus[k].duNode = n /\ (stage # "du" \/ k < i)}
CUsOn(n) == {k \in DOMAIN rus : rus[k].cuNode = n /\ (stage \notin {"du", "cu"} \/ k < i)}

Hosted(n) == Cardinality(RUsOn(n)) + Cardinality(DUsOn(n)) + Cardinality(CUsOn(n))

(* Where a run starts: every node is one of the cluster's, nothing has been
   taken of the links before the first chain is placed, and a chain's links are
   charged from its first hop. *)
StartInv ==
  /\ Built => Nodes \subseteq DOMAIN NodeListToMap(nodeList)
  /\ stage = "new" => i = 1
  /\ stage \in {"du", "cu"} => hop = 1
  /\ stage = "rus" => \A l \in DOMAIN bandwidth : bandwidth[l] = topology.link[l].capacity

NodeInv == RInv /\ StartInv /\ NodeAccounting

-------------------------------------------------------------------------------
(* The accounts of the nodes in terms of these. *)
LEMMA NodeAccounts ==
  NodeAccounting <=>
    (InStep => \A n \in Nodes :
       /\ cpu[n] = NodeListToMap(nodeList)[n].cpu - Hosted(n) * ReqCPU
       /\ memory[n] = NodeListToMap(nodeList)[n].memory - Hosted(n) * ReqMemory)
BY DEF NodeAccounting, Hosted, RUsOn, DUsOn, CUsOn

(* The RUs are finitely many, so every count is a number. *)
LEMMA Counted ==
  ASSUME IInv, NEW n
  PROVE  /\ DOMAIN rus = 1..Len(rus) /\ Len(rus) \in Nat /\ i \in 1..Len(rus) + 1
         /\ IsFiniteSet(DOMAIN rus)
         /\ IsFiniteSet(RUsOn(n)) /\ Cardinality(RUsOn(n)) \in Nat
         /\ IsFiniteSet(DUsOn(n)) /\ Cardinality(DUsOn(n)) \in Nat
         /\ IsFiniteSet(CUsOn(n)) /\ Cardinality(CUsOn(n)) \in Nat
         /\ Hosted(n) \in Nat
<1>1. DOMAIN rus = 1..Len(rus) /\ Len(rus) \in Nat /\ i \in 1..Len(rus) + 1
  <2>1. rus \in Seq(RUType) /\ i \in 1..Len(rus) + 1
    BY DEF IInv, TypeOK
  <2> HIDE DEF RUType
  <2> QED BY <2>1
<1>2. IsFiniteSet(DOMAIN rus)
  BY <1>1, FS_Interval
<1>3. RUsOn(n) \subseteq DOMAIN rus /\ DUsOn(n) \subseteq DOMAIN rus /\ CUsOn(n) \subseteq DOMAIN rus
  BY DEF RUsOn, DUsOn, CUsOn
<1>4. \A S : S \subseteq DOMAIN rus => IsFiniteSet(S) /\ Cardinality(S) \in Nat
  BY <1>2, FS_Subset, FS_CardinalityType
<1>5. /\ IsFiniteSet(RUsOn(n)) /\ Cardinality(RUsOn(n)) \in Nat
      /\ IsFiniteSet(DUsOn(n)) /\ Cardinality(DUsOn(n)) \in Nat
      /\ IsFiniteSet(CUsOn(n)) /\ Cardinality(CUsOn(n)) \in Nat
  BY <1>3, <1>4
<1> QED BY <1>1, <1>2, <1>5 DEF Hosted

(* What the cluster reports of a node are numbers. *)
LEMMA Reported ==
  ASSUME IInv, Nodes \subseteq DOMAIN NodeListToMap(nodeList), NEW n \in Nodes
  PROVE  NodeListToMap(nodeList)[n].cpu \in Nat /\ NodeListToMap(nodeList)[n].memory \in Nat
<1> DEFINE S == [name : ClusterNodes, cpu : Nat, memory : Nat]
<1>1. nodeList \in Seq(S)
  BY NodeListAssumption DEF IInv, TypeOK
<1>2. nodeList # <<>> /\ NodeListToMap(nodeList)[n] = nodeList[Len(nodeList)]
  BY DEF NodeListToMap
<1> HIDE DEF S
<1>3. nodeList[Len(nodeList)] \in S
  BY <1>1, <1>2
<1> QED BY <1>2, <1>3 DEF S

(* A charge to one node for one more instance on it balances its account. *)
LEMMA ChargedOnce ==
  ASSUME IInv, StartInv, NodeAccounting, InStep, Built, nodeList' = nodeList,
         NEW x \in Nodes,
         memory' = [memory EXCEPT ![x] = memory[x] - ReqMemory],
         cpu' = [cpu EXCEPT ![x] = cpu[x] - ReqCPU],
         \A n \in Nodes : Hosted(n)' = IF n = x THEN Hosted(n) + 1 ELSE Hosted(n)
  PROVE  NodeAccounting'
<1>1. \A n \in Nodes : /\ cpu[n] = NodeListToMap(nodeList)[n].cpu - Hosted(n) * ReqCPU
                       /\ memory[n] = NodeListToMap(nodeList)[n].memory - Hosted(n) * ReqMemory
  BY NodeAccounts
<1> SUFFICES ASSUME NEW n \in Nodes
    PROVE  /\ cpu'[n] = NodeListToMap(nodeList)[n].cpu - Hosted(n)' * ReqCPU
           /\ memory'[n] = NodeListToMap(nodeList)[n].memory - Hosted(n)' * ReqMemory
  BY DEF NodeAccounting, Hosted, RUsOn, DUsOn, CUsOn
<1>2. memory \in [Nodes -> Int] /\ cpu \in [Nodes -> Int] /\ Hosted(n) \in Nat
  BY Counted DEF IInv, TypeOK
<1>3. CASE n # x
  BY <1>1, <1>2, <1>3
<1>4. CASE n = x
  <2> DEFINE h == Hosted(n)
             b == NodeListToMap(nodeList)[n]
  <2>1. /\ cpu'[n] = cpu[n] - ReqCPU /\ memory'[n] = memory[n] - ReqMemory
        /\ Hosted(n)' = h + 1 /\ h \in Nat
        /\ cpu[n] = b.cpu - h * ReqCPU /\ memory[n] = b.memory - h * ReqMemory
        /\ b.cpu \in Int /\ b.memory \in Int /\ cpu[n] \in Int /\ memory[n] \in Int
    BY <1>1, <1>2, <1>4, Reported DEF StartInv
  <2> HIDE DEF h, b
  <2>2. (h + 1) * ReqCPU = h * ReqCPU + ReqCPU /\ (h + 1) * ReqMemory = h * ReqMemory + ReqMemory
    BY <2>1, RequestAssumption
  <2>3. h * ReqCPU \in Int /\ h * ReqMemory \in Int
    BY <2>1, RequestAssumption
  <2>4. /\ cpu'[n] = b.cpu - (h + 1) * ReqCPU
        /\ memory'[n] = b.memory - (h + 1) * ReqMemory
    BY <2>1, <2>2, <2>3, RequestAssumption
  <2> QED BY <2>1, <2>4 DEF b
<1> QED BY <1>3, <1>4

(* A step that counts the same instances and takes nothing keeps the accounts. *)
LEMMA CountedAgain ==
  ASSUME NodeAccounting, InStep, UNCHANGED <<nodeList, memory, cpu>>,
         \A n \in Nodes : Hosted(n)' = Hosted(n)
  PROVE  NodeAccounting'
<1>1. \A n \in Nodes : /\ cpu[n] = NodeListToMap(nodeList)[n].cpu - Hosted(n) * ReqCPU
                       /\ memory[n] = NodeListToMap(nodeList)[n].memory - Hosted(n) * ReqMemory
  BY NodeAccounts
<1>2. \A n \in Nodes : /\ cpu'[n] = NodeListToMap(nodeList')[n].cpu - Hosted(n)' * ReqCPU
                       /\ memory'[n] = NodeListToMap(nodeList')[n].memory - Hosted(n)' * ReqMemory
  BY <1>1
<1> QED BY <1>2 DEF NodeAccounting, Hosted, RUsOn, DUsOn, CUsOn

(* When the graph is built nothing runs on any node. *)
LEMMA NewBooks == NodeInv /\ NewPlacementBFS => NodeAccounting'
<1> SUFFICES ASSUME NodeInv, NewPlacementBFS,
                    NEW n \in Nodes
             PROVE  /\ cpu'[n] = NodeListToMap(nodeList)'[n].cpu - Hosted(n)' * ReqCPU
                    /\ memory'[n] = NodeListToMap(nodeList)'[n].memory - Hosted(n)' * ReqMemory
  BY DEF NodeAccounting, Hosted, RUsOn, DUsOn, CUsOn
<1>1. IInv /\ UnplacedInv /\ StartInv
  BY DEF NodeInv, RInv
<1>2. /\ stage = "new" /\ stage' = "rus" /\ rus' = rus /\ i' = i /\ nodeList' = nodeList
      /\ GraphBuilds /\ i = 1
      /\ memory'[n] = NodeListToMap(nodeList)[n].memory
      /\ cpu'[n] = NodeListToMap(nodeList)[n].cpu
  BY <1>1 DEF NewPlacementBFS, input, StartInv
<1>3. DOMAIN rus = 1..Len(rus)
  BY <1>1, Counted
<1>4. RUsOn(n)' = {}
  BY <1>2, <1>3 DEF RUsOn
<1>5. DUsOn(n)' = {} /\ CUsOn(n)' = {}
  <2>1. \A k \in DOMAIN rus : rus[k].duNode = NoNode /\ rus[k].cuNode = NoNode
    BY <1>1, <1>2 DEF UnplacedInv, Unplaced
  <2> QED BY <1>2, <2>1, NoNodeAssumption DEF DUsOn, CUsOn
<1>6. Hosted(n)' = 0
  <2>1. Hosted(n)' = Cardinality(RUsOn(n)') + Cardinality(DUsOn(n)') + Cardinality(CUsOn(n)')
    BY DEF Hosted
  <2> QED BY <1>4, <1>5, <2>1, FS_EmptySet
<1>7. /\ NodeListToMap(nodeList)[n].cpu \in Nat
      /\ NodeListToMap(nodeList)[n].memory \in Nat
  BY <1>1, <1>2, Reported DEF GraphBuilds
<1>8. Hosted(n)' * ReqCPU = 0 /\ Hosted(n)' * ReqMemory = 0
  BY <1>6, RequestAssumption
<1> QED BY <1>2, <1>7, <1>8

(* One RU after the other is charged to its node. *)
LEMMA RUBooks == NodeInv /\ (AllocateRU \/ RUsAllocated) => NodeAccounting'
<1> SUFFICES ASSUME NodeInv, AllocateRU \/ RUsAllocated PROVE NodeAccounting'
  OBVIOUS
<1>1. IInv /\ StartInv /\ NodeAccounting
  BY DEF NodeInv, RInv
<1>2. DOMAIN rus = 1..Len(rus) /\ Len(rus) \in Nat /\ i \in 1..Len(rus) + 1
  BY <1>1, Counted
<1>3. stage = "rus" /\ InStep /\ Built /\ rus' = rus /\ nodeList' = nodeList
  BY DEF AllocateRU, RUsAllocated, input, InStep, Built
<1>4. CASE RUsAllocated
  <2>1. stage' = "place" /\ i > Len(rus) /\ UNCHANGED <<memory, cpu>>
    BY <1>4 DEF RUsAllocated, left
  <2>2. \A n \in Nodes : RUsOn(n)' = RUsOn(n) /\ DUsOn(n)' = DUsOn(n) /\ CUsOn(n)' = CUsOn(n)
    BY <1>2, <1>3, <2>1 DEF RUsOn, DUsOn, CUsOn
  <2>3. \A n \in Nodes : Hosted(n)' = Hosted(n)
    BY <2>2 DEF Hosted
  <2> QED BY <1>1, <1>3, <2>1, <2>3, CountedAgain
<1>5. CASE AllocateRU /\ stage' = "rus"
  <2> DEFINE x == rus[i].ruNode
  <2>1. /\ x \in Nodes /\ i \in DOMAIN rus /\ i' = i + 1
        /\ memory' = [memory EXCEPT ![x] = memory[x] - ReqMemory]
        /\ cpu' = [cpu EXCEPT ![x] = cpu[x] - ReqCPU]
    BY <1>2, <1>5 DEF AllocateRU, AllocateOn
  <2>2. ASSUME NEW n \in Nodes
        PROVE  Hosted(n)' = IF n = x THEN Hosted(n) + 1 ELSE Hosted(n)
    <3>1. DUsOn(n)' = DUsOn(n) /\ CUsOn(n)' = CUsOn(n)
      BY <1>3, <1>5 DEF DUsOn, CUsOn
    <3>2. RUsOn(n)' = IF n = x THEN RUsOn(n) \cup {i} ELSE RUsOn(n)
      BY <1>2, <1>3, <1>5, <2>1 DEF RUsOn
    <3>3. i \notin RUsOn(n)
      BY <1>2, <1>3 DEF RUsOn
    <3>4. IsFiniteSet(RUsOn(n)) /\ Cardinality(RUsOn(n)) \in Nat
          /\ Cardinality(DUsOn(n)) \in Nat /\ Cardinality(CUsOn(n)) \in Nat
      BY <1>1, Counted
    <3>5. n = x => Cardinality(RUsOn(n)') = Cardinality(RUsOn(n)) + 1
      BY <3>2, <3>3, <3>4, OneMore
    <3> QED BY <3>1, <3>2, <3>4, <3>5 DEF Hosted
  <2> HIDE DEF x
  <2> QED BY <1>1, <1>3, <2>1, <2>2, ChargedOnce
<1>6. CASE AllocateRU /\ stage' # "rus"
  BY <1>6 DEF AllocateRU, AllocateOn, NodeAccounting, InStep
<1> QED BY <1>4, <1>5, <1>6

(* A chain that is written to its RU is not charged yet. *)
LEMMA AcceptedBooks == NodeInv /\ Accept => NodeAccounting'
<1> SUFFICES ASSUME NodeInv, Accept PROVE NodeAccounting'
  OBVIOUS
<1>1. IInv /\ UnplacedInv /\ NodeAccounting
  BY DEF NodeInv, RInv
<1>2. PICK c : Accepted(c)
  BY <1>1, AcceptedCandidate
<1>3. /\ stage = "search" /\ stage' = "du" /\ UNCHANGED <<nodeList, i, memory, cpu>>
      /\ DOMAIN rus' = DOMAIN rus
      /\ \A k \in DOMAIN rus : rus'[k].ruNode = rus[k].ruNode
      /\ \A k \in DOMAIN rus : k # i => rus'[k] = rus[k]
  BY <1>1, <1>2, AcceptedCandidate DEF Accepted
<1>4. DOMAIN rus = 1..Len(rus) /\ Len(rus) \in Nat /\ i \in Nat
  BY <1>1, Counted
<1>5. \A k \in DOMAIN rus : ~(k < i) => rus[k].duNode = NoNode /\ rus[k].cuNode = NoNode
  BY <1>1, <1>3, <1>4 DEF UnplacedInv, Unplaced
<1>6. ASSUME NEW n \in Nodes
      PROVE  RUsOn(n)' = RUsOn(n) /\ DUsOn(n)' = DUsOn(n) /\ CUsOn(n)' = CUsOn(n)
  <2>1. n # NoNode
    BY NoNodeAssumption
  <2>2. RUsOn(n)' = RUsOn(n)
    BY <1>3 DEF RUsOn
  <2>3. DUsOn(n)' = DUsOn(n)
    BY <1>3, <1>4, <1>5, <2>1 DEF DUsOn
  <2>4. CUsOn(n)' = CUsOn(n)
    BY <1>3, <1>4, <1>5, <2>1 DEF CUsOn
  <2> QED BY <2>2, <2>3, <2>4
<1>7. \A n \in Nodes : Hosted(n)' = Hosted(n)
  BY <1>6 DEF Hosted
<1>8. InStep
  BY <1>3 DEF InStep
<1> QED BY <1>1, <1>3, <1>7, <1>8, CountedAgain

(* The DU is charged to its node. *)
LEMMA DUBooks == NodeInv /\ AllocateDU => NodeAccounting'
<1> SUFFICES ASSUME NodeInv, AllocateDU PROVE NodeAccounting'
  OBVIOUS
<1>1. IInv /\ StartInv /\ NodeAccounting
  BY DEF NodeInv, RInv
<1> DEFINE x == rus[i].duNode
<1>2. /\ stage = "du" /\ stage' \in {"cu", "allocError"}
      /\ UNCHANGED <<nodeList, rus, i>>
      /\ x \in Nodes
      /\ memory' = [memory EXCEPT ![x] = memory[x] - ReqMemory]
      /\ cpu' = [cpu EXCEPT ![x] = cpu[x] - ReqCPU]
  BY DEF AllocateDU, AllocateOn, input
<1>3. DOMAIN rus = 1..Len(rus) /\ Len(rus) \in Nat /\ i \in Nat /\ i \in DOMAIN rus
  BY <1>1, <1>2, Counted DEF IInv, ChainInv
<1>4. CASE stage' = "cu"
  <2>1. ASSUME NEW n \in Nodes
        PROVE  Hosted(n)' = IF n = x THEN Hosted(n) + 1 ELSE Hosted(n)
    <3>1. RUsOn(n)' = RUsOn(n) /\ CUsOn(n)' = CUsOn(n)
      BY <1>2, <1>4 DEF RUsOn, CUsOn
    <3>2. \A k \in DOMAIN rus : k > i => rus[k].duNode = NoNode
      BY <1>1, <1>2, <1>3 DEF NodeInv, RInv, UnplacedInv, Unplaced
    <3>3. i \notin DUsOn(n) /\ DUsOn(n)' = IF n = x THEN DUsOn(n) \cup {i} ELSE DUsOn(n)
      BY <1>2, <1>3, <1>4, <3>2, NoNodeAssumption DEF DUsOn
    <3>4. IsFiniteSet(DUsOn(n)) /\ Cardinality(DUsOn(n)) \in Nat
          /\ Cardinality(RUsOn(n)) \in Nat /\ Cardinality(CUsOn(n)) \in Nat
      BY <1>1, Counted
    <3>5. n = x => Cardinality(DUsOn(n)') = Cardinality(DUsOn(n)) + 1
      BY <3>3, <3>4, OneMore
    <3> QED BY <3>1, <3>3, <3>4, <3>5 DEF Hosted
  <2>2. InStep /\ Built
    BY <1>2 DEF InStep, Built
  <2> HIDE DEF x
  <2> QED BY <1>1, <1>2, <2>1, <2>2, ChargedOnce
<1>5. CASE stage' = "allocError"
  BY <1>5 DEF NodeAccounting, InStep
<1> QED BY <1>2, <1>4, <1>5

(* Then the CU is. *)
LEMMA CUBooks == NodeInv /\ AllocateCU => NodeAccounting'
<1> SUFFICES ASSUME NodeInv, AllocateCU PROVE NodeAccounting'
  OBVIOUS
<1>1. IInv /\ StartInv /\ NodeAccounting
  BY DEF NodeInv, RInv
<1> DEFINE x == rus[i].cuNode
<1>2. /\ stage = "cu" /\ stage' \in {"links", "allocError"}
      /\ UNCHANGED <<nodeList, rus, i>>
      /\ memory' = [memory EXCEPT ![x] = memory[x] - ReqMemory]
      /\ cpu' = [cpu EXCEPT ![x] = cpu[x] - ReqCPU]
  BY DEF AllocateCU, AllocateOn, input
<1>3. DOMAIN rus = 1..Len(rus) /\ Len(rus) \in Nat /\ i \in Nat /\ i \in DOMAIN rus
  BY <1>1, <1>2, Counted DEF IInv, ChainInv
<1>6. x \in Nodes
  <2>1. /\ P!IsRoute(rus[i].path) /\ Len(rus[i].path) >= 2
        /\ rus[i].cuNode = rus[i].path[2]
    BY <1>1, <1>2 DEF IInv, ChainInv
  <2> QED BY <2>1 DEF P!IsRoute
<1>4. CASE stage' = "links"
  <2>1. ASSUME NEW n \in Nodes
        PROVE  Hosted(n)' = IF n = x THEN Hosted(n) + 1 ELSE Hosted(n)
    <3>1. RUsOn(n)' = RUsOn(n) /\ DUsOn(n)' = DUsOn(n)
      BY <1>2, <1>4 DEF RUsOn, DUsOn
    <3>2. \A k \in DOMAIN rus : k > i => rus[k].cuNode = NoNode
      BY <1>1, <1>2, <1>3 DEF NodeInv, RInv, UnplacedInv, Unplaced
    <3>3. i \notin CUsOn(n) /\ CUsOn(n)' = IF n = x THEN CUsOn(n) \cup {i} ELSE CUsOn(n)
      BY <1>2, <1>3, <1>4, <3>2, NoNodeAssumption DEF CUsOn
    <3>4. IsFiniteSet(CUsOn(n)) /\ Cardinality(CUsOn(n)) \in Nat
          /\ Cardinality(RUsOn(n)) \in Nat /\ Cardinality(DUsOn(n)) \in Nat
      BY <1>1, Counted
    <3>5. n = x => Cardinality(CUsOn(n)') = Cardinality(CUsOn(n)) + 1
      BY <3>3, <3>4, OneMore
    <3> QED BY <3>1, <3>3, <3>4, <3>5 DEF Hosted
  <2>2. InStep /\ Built
    BY <1>2 DEF InStep, Built
  <2> HIDE DEF x
  <2> QED BY <1>1, <1>2, <1>6, <2>1, <2>2, ChargedOnce
<1>5. CASE stage' = "allocError"
  BY <1>5 DEF NodeAccounting, InStep
<1> QED BY <1>2, <1>4, <1>5

(* The books of a run start with what the code builds. *)
LEMMA StartNext == RInv /\ StartInv /\ [Next]_vars => StartInv'
<1> SUFFICES ASSUME RInv, StartInv, [Next]_vars PROVE StartInv'
  OBVIOUS
<1>1. CASE NewPlacementBFS
  <2>1. /\ UNCHANGED <<topology, nodeList>> /\ stage' = "rus" /\ GraphBuilds
        /\ bandwidth' = [l \in DOMAIN topology.link |-> topology.link[l].capacity]
    BY <1>1 DEF NewPlacementBFS, input
  <2> QED BY <2>1 DEF StartInv, GraphBuilds
<1>2. CASE Accept
  <2>1. /\ stage = "search" /\ stage' = "du" /\ hop' = 1 /\ nodeList' = nodeList
    BY <1>2, AcceptedCandidate DEF RInv, Accepted
  <2> QED BY <2>1 DEF StartInv, Built
<1>3. CASE ~NewPlacementBFS /\ ~Accept
  <2>1. /\ UNCHANGED nodeList
        /\ Built' => Built
        /\ stage' # "new" \/ (stage' = stage /\ i' = i)
        /\ stage' \in {"du", "cu"} => stage \in {"du", "cu"} /\ hop' = hop
        /\ stage' = "rus" => stage = "rus" /\ UNCHANGED <<topology, bandwidth>>
    BY <1>3 DEF Next, vars, input, left, NewPlacementPanics, AllocateRU, AllocateRUPanics,
                RUsAllocated, FindPaths, FindPathsPanics, SearchStep, ValidatePanics, Reject,
                AllocateDU, AllocateDUPanics, AllocateCU, AllocateLink, Placed, Panic, AllocateOn, Built, Validating
  <2> QED BY <2>1 DEF StartInv
<1> QED BY <1>1, <1>2, <1>3

(* The steps that charge no node count the same instances. *)
LEMMA OtherBooks ==
  ASSUME NodeInv, NEW s, s \in {"place", "search", "links", "done"},
         stage \in {"place", "search", "links", "done"}, stage' = s,
         UNCHANGED <<nodeList, rus, memory, cpu>>
  PROVE  NodeAccounting'
<1>1. \A n \in Nodes : RUsOn(n)' = RUsOn(n) /\ DUsOn(n)' = DUsOn(n) /\ CUsOn(n)' = CUsOn(n)
  BY DEF RUsOn, DUsOn, CUsOn
<1>2. \A n \in Nodes : Hosted(n)' = Hosted(n)
  BY <1>1 DEF Hosted
<1> QED BY <1>2, CountedAgain DEF NodeInv, InStep

(* Every step keeps the accounts of the nodes. *)
LEMMA NodeNext == NodeInv /\ [Next]_vars => NodeInv'
<1> SUFFICES ASSUME NodeInv, [Next]_vars PROVE NodeAccounting'
  BY RNext, StartNext DEF NodeInv
<1>1. CASE NewPlacementBFS
  BY <1>1, NewBooks
<1>2. CASE AllocateRU \/ RUsAllocated
  BY <1>2, RUBooks
<1>3. CASE Accept
  BY <1>3, AcceptedBooks
<1>4. CASE AllocateDU
  BY <1>4, DUBooks
<1>5. CASE AllocateCU
  BY <1>5, CUBooks
<1>6. CASE FindPaths \/ SearchStep \/ Reject \/ Placed \/ AllocateLink
  <2>1. /\ stage \in {"place", "search", "links", "done"}
        /\ stage' \in {"place", "search", "links", "done", "allocError"}
        /\ UNCHANGED <<nodeList, rus, memory, cpu>>
    BY <1>6 DEF FindPaths, SearchStep, Reject, Validating, Placed, AllocateLink, input, left
  <2>2. stage' = "allocError" => NodeAccounting'
    BY DEF NodeAccounting, InStep
  <2> QED BY <2>1, <2>2, OtherBooks
<1>7. CASE NewPlacementPanics \/ AllocateRUPanics \/ FindPathsPanics \/ ValidatePanics \/ AllocateDUPanics
  BY <1>7 DEF NewPlacementPanics, AllocateRUPanics, FindPathsPanics, ValidatePanics, AllocateDUPanics,
              Panic, NodeAccounting, InStep
<1>8. CASE UNCHANGED vars
  BY <1>8 DEF vars, input, left, NodeInv, NodeAccounting, InStep
<1> QED BY <1>1, <1>2, <1>3, <1>4, <1>5, <1>6, <1>7, <1>8 DEF Next

(* The invariant holds initially. *)
LEMMA NodeInit == Init => NodeInv
BY RInit DEF Init, NodeInv, StartInv, NodeAccounting, InStep, Built

(* On every topology, cluster and list of RUs, and whatever is requested for an
   instance: at every point of a run a node has been charged exactly once for
   each RU, DU and CU that runs on it, and for nothing else. *)
THEOREM NodesBalance == Spec => []NodeAccounting
<1>1. NodeInv => NodeAccounting
  BY DEF NodeInv
<1> QED BY <1>1, NodeInit, NodeNext, PTL DEF Spec

-------------------------------------------------------------------------------
(* A chain whose CU is next to the core and whose DU is further on the path. *)
DUAt(r, d) ==
  /\ P!IsRoute(r.path) /\ r.cuNode = r.path[2]
  /\ d \in 3..Len(r.path) - 1 /\ r.duNode = r.path[d]

(* The first hop of the haul hop h belongs to. *)
FirstHop(d, h) == IF h >= d THEN d ELSE IF h >= 2 THEN 2 ELSE 1

(* The hauls of such a chain are the hops up to the CU, up to the DU and from
   there on. *)
LEMMA HaulOfHop ==
  ASSUME NEW r, NEW d, DUAt(r, d), NEW h \in 1..Len(r.path) - 1
  PROVE  HaulOf(r, h) = IF h >= d THEN 3 ELSE IF h >= 2 THEN 2 ELSE 1
<1> DEFINE at(n) == CHOOSE k \in DOMAIN r.path : r.path[k] = n
<1>1. /\ Len(r.path) \in Nat /\ DOMAIN r.path = 1..Len(r.path)
      /\ \A j, k \in 1..Len(r.path) : r.path[j] = r.path[k] => j = k
  BY DEF DUAt, P!IsRoute
<1>2. /\ r.cuNode = r.path[2] /\ 2 \in DOMAIN r.path
      /\ r.duNode = r.path[d] /\ d \in DOMAIN r.path /\ d \in 3..Len(r.path) - 1
  BY <1>1 DEF DUAt
<1>3. at(r.cuNode) = 2 /\ at(r.duNode) = d
  BY <1>1, <1>2
<1>4. HaulOf(r, h) = CASE h < at(r.cuNode) -> 1
                       [] at(r.cuNode) <= h /\ h < at(r.duNode) -> 2
                       [] at(r.duNode) <= h -> 3
  BY DEF HaulOf
<1> HIDE DEF at
<1>5. h \in Nat /\ d \in Nat
  BY <1>2
<1> QED BY <1>2, <1>3, <1>4, <1>5

(* The core, the CU's, the DU's and the RU's node of such a chain differ. *)
LEMMA FourNodes ==
  ASSUME NEW r, NEW d, DUAt(r, d), P!Last(r.path) = r.ruNode
  PROVE  Cardinality({root, r.cuNode, r.duNode, r.ruNode}) = 4
<1> DEFINE p == r.path
           n == Len(p)
<1>1. /\ n \in Nat /\ d \in 3..n - 1
      /\ root = p[1] /\ r.cuNode = p[2] /\ r.duNode = p[d] /\ r.ruNode = p[n]
      /\ \A j, k \in 1..n : p[j] = p[k] => j = k
  BY DEF DUAt, P!IsRoute, P!Last
<1>2. /\ p[1] # p[2] /\ p[1] # p[d] /\ p[1] # p[n]
      /\ p[2] # p[d] /\ p[2] # p[n] /\ p[d] # p[n]
  BY <1>1
<1> HIDE DEF p, n
<1> DEFINE A == {p[1]}
           B == A \cup {p[2]}
           C == B \cup {p[d]}
           D == C \cup {p[n]}
<1>3. p[2] \notin A /\ p[d] \notin B /\ p[n] \notin C
  BY <1>2
<1>4. IsFiniteSet(A) /\ Cardinality(A) = 1
  BY FS_Singleton
<1>5. D = {root, r.cuNode, r.duNode, r.ruNode}
  BY <1>1
<1> HIDE DEF A
<1>6. IsFiniteSet(B) /\ Cardinality(B) = 2
  BY <1>3, <1>4, OneMore
<1> HIDE DEF B
<1>7. IsFiniteSet(C) /\ Cardinality(C) = 3
  BY <1>3, <1>6, OneMore
<1> HIDE DEF C
<1>8. Cardinality(D) = 4
  BY <1>3, <1>7, OneMore
<1> QED BY <1>5, <1>8

(* A sum up to k is the sum up to k - 1 and the term of k. *)
LEMMA SumUpTo ==
  ASSUME NEW f, NEW a \in Int, NEW k \in Int, a <= k, \A j \in a..k : f[j] \in Int
  PROVE  /\ SumFunction([j \in a..k |-> f[j]]) = f[k] + SumFunction([j \in a..k - 1 |-> f[j]])
         /\ a = k => SumFunction([j \in a..k |-> f[j]]) = f[k]
<1> DEFINE g == [j \in a..k |-> f[j]]
           e == [j \in a..k - 1 |-> f[j]]
<1>1. IsFiniteSet(DOMAIN g) /\ k \in DOMAIN g /\ g[k] = f[k] /\ \A j \in DOMAIN g : g[j] \in Int
  BY FS_Interval
<1>2. [j \in DOMAIN g \ {k} |-> g[j]] = e
  <2>1. DOMAIN g \ {k} = a..k - 1
    OBVIOUS
  <2> QED BY <2>1
<1>3. a = k => DOMAIN e = {}
  OBVIOUS
<1> HIDE DEF g, e
<1>4. SumFunction(g) = f[k] + SumFunction(e)
  BY <1>1, <1>2, SumSplit
<1>5. a = k => SumFunction(e) = 0
  BY <1>3, SumOfNothing
<1>6. f[k] \in Int
  OBVIOUS
<1> QED BY <1>4, <1>5, <1>6 DEF g, e

(* totalLatency, summed hop by hop and set back at every placement node, is at
   each hop the sum of the delays of its haul so far. *)
LEMMA LatencySoFar ==
  ASSUME NEW c, NEW d, DUAt(c, d), NEW h \in 1..Len(c.path) - 1,
         \A k \in 1..Len(c.path) - 1 : Delay(LinkOf(c, k)) \in Int
  PROVE  TotalLatency(c, h) = SumFunction([k \in FirstHop(d, h)..h |-> Delay(LinkOf(c, k))])
<1> DEFINE n == Len(c.path) - 1
           delay == [k \in 1..n |-> Delay(LinkOf(c, k))]
           soFar(k) == SumFunction([j \in FirstHop(d, k)..k |-> delay[j]])
           sums == [k \in 1..h |-> soFar(k)]
           Rec(t) == t = [k \in 1..h |->
                            Delay(LinkOf(c, k)) +
                              IF c.path[k] \in PlacementNodes(c) THEN 0 ELSE t[k - 1]]
<1>1. /\ n \in Nat /\ h \in 1..n /\ d \in 3..n
      /\ \A j, k \in 1..n + 1 : c.path[j] = c.path[k] => j = k
  BY DEF DUAt, P!IsRoute
<1>2. \A k \in 1..n : delay[k] = Delay(LinkOf(c, k)) /\ delay[k] \in Int
  OBVIOUS
<1>3. \A k \in 1..n : c.path[k] \in PlacementNodes(c) <=> k \in {1, 2, d}
  BY <1>1 DEF PlacementNodes, DUAt
<1> HIDE DEF delay, n
<1>4. ASSUME NEW k \in 1..n
      PROVE  soFar(k) = delay[k] + IF k \in {1, 2, d} THEN 0 ELSE soFar(k - 1)
  <2> DEFINE a == FirstHop(d, k)
  <2>1. /\ a \in Int /\ a <= k /\ k \in Int /\ \A j \in a..k : j \in 1..n
        /\ a = k <=> k \in {1, 2, d}
        /\ k \notin {1, 2, d} => FirstHop(d, k - 1) = a
    BY <1>1 DEF FirstHop
  <2>2. \A j \in a..k : delay[j] \in Int
    BY <1>2, <2>1
  <2> HIDE DEF a
  <2>3. /\ SumFunction([j \in a..k |-> delay[j]]) = delay[k] + SumFunction([j \in a..k - 1 |-> delay[j]])
        /\ a = k => SumFunction([j \in a..k |-> delay[j]]) = delay[k]
    BY <2>1, <2>2, SumUpTo
  <2>4. delay[k] + 0 = delay[k]
    BY <1>2
  <2>5. soFar(k) = SumFunction([j \in a..k |-> delay[j]])
    BY DEF a
  <2>6. CASE k \in {1, 2, d}
    BY <2>1, <2>3, <2>4, <2>5, <2>6
  <2>7. CASE k \notin {1, 2, d}
    <3>1. soFar(k - 1) = SumFunction([j \in a..k - 1 |-> delay[j]])
      BY <2>1, <2>7
    <3> QED BY <2>3, <2>5, <2>7, <3>1
  <2> QED BY <2>6, <2>7
<1>5. Rec(sums)
  <2> SUFFICES ASSUME NEW k \in 1..h
               PROVE  soFar(k) = Delay(LinkOf(c, k)) +
                        IF c.path[k] \in PlacementNodes(c) THEN 0 ELSE sums[k - 1]
    OBVIOUS
  <2>1. k \in 1..n /\ (k \notin {1, 2, d} => k - 1 \in 1..h)
    BY <1>1
  <2>2. k \notin {1, 2, d} => sums[k - 1] = soFar(k - 1)
    BY <2>1
  <2> HIDE DEF soFar, sums
  <2> QED BY <1>2, <1>3, <1>4, <2>1, <2>2
<1> HIDE DEF soFar, sums
<1>6. ASSUME NEW t, Rec(t) PROVE t[h] = sums[h]
  <2> DEFINE bad == {k \in 1..h : t[k] # sums[k]}
  <2>1. SUFFICES ASSUME bad # {} PROVE FALSE
    BY <1>1
  <2>2. PICK k \in bad : \A j \in bad : k <= j
    <3>1. bad \subseteq Nat
      BY <1>1
    <3> HIDE DEF bad
    <3> QED BY <2>1, <3>1, P!Least, SearchAssumption
  <2>3. k \in 1..n /\ (k \notin {1, 2, d} => k - 1 \in 1..h /\ k - 1 \notin bad)
    BY <1>1, <2>2
  <2>4. /\ t[k] = Delay(LinkOf(c, k)) + IF c.path[k] \in PlacementNodes(c) THEN 0 ELSE t[k - 1]
        /\ sums[k] = Delay(LinkOf(c, k)) + IF c.path[k] \in PlacementNodes(c) THEN 0 ELSE sums[k - 1]
    BY <1>5, <1>6, <2>2
  <2>5. k \notin {1, 2, d} => t[k - 1] = sums[k - 1]
    BY <2>3
  <2> QED BY <1>3, <2>2, <2>3, <2>4, <2>5
<1>7. TotalLatency(c, h) = (CHOOSE t : Rec(t))[h]
  BY DEF TotalLatency
<1> HIDE DEF Rec
<1>8. TotalLatency(c, h) = sums[h]
  BY <1>5, <1>6, <1>7
<1>9. sums[h] = soFar(h)
  BY <1>1 DEF sums
<1>10. soFar(h) = SumFunction([j \in FirstHop(d, h)..h |-> delay[j]])
  BY DEF soFar
<1>11. [j \in FirstHop(d, h)..h |-> delay[j]] = [j \in FirstHop(d, h)..h |-> Delay(LinkOf(c, j))]
  <2>1. \A j \in FirstHop(d, h)..h : j \in 1..n
    BY <1>1 DEF FirstHop
  <2> QED BY <1>2, <2>1
<1> QED BY <1>8, <1>9, <1>10, <1>11

-------------------------------------------------------------------------------
(* What ChainsKeepRequirements says of one chain. *)
Delays(r, x) ==
  SumFunction([h \in {g \in 1..Len(r.path) - 1 : HaulOf(r, g) = x} |-> Delay(LinkOf(r, h))])

Keeps(r) ==
  /\ P!IsRoute(r.path)
  /\ P!Last(r.path) = r.ruNode
  /\ r.cuNode = r.path[2]
  /\ Cardinality({root, r.cuNode, r.duNode, r.ruNode}) = 4
  /\ \A x \in 1..3 : Hauls[x].latency = 0 \/ Delays(r, x) <= Hauls[x].latency

(* Every chain with a DU has it further on its path than the CU, and no chain
   without one has been left behind. *)
ChainsInv ==
  /\ \A k \in DOMAIN rus :
       rus[k].duNode # NoNode => Keeps(rus[k]) /\ \E d \in Nat : DUAt(rus[k], d)
  /\ stage \in {"place", "search", "du", "cu", "links", "done"} =>
       \A k \in DOMAIN rus : k < i => rus[k].path = <<>> \/ rus[k].duNode # NoNode

(* What is claimed of every chain, in these terms. *)
LEMMA ChainsKept ==
  ChainsKeepRequirements <=> \A k \in DOMAIN rus : rus[k].duNode # NoNode => Keeps(rus[k])
<1>1. /\ \A p : Search!IsRoute(p) <=> P!IsRoute(p)
      /\ \A p : Last(p) = P!Last(p)
  BY DEF Search!IsRoute, P!IsRoute, Last, P!Last
<1> QED BY <1>1 DEF ChainsKeepRequirements, Keeps, Delays

(* Validate has seen that each haul is within its latency: at its last hop,
   totalLatency is the sum over all of it. *)
LEMMA AcceptedKeeps ==
  ASSUME IInv, Built, NEW c, NEW d, DUAt(c, d), NetworkValid(c), NEW x \in 1..3
  PROVE  Hauls[x].latency = 0 \/ Delays(c, x) <= Hauls[x].latency
<1> DEFINE n == Len(c.path) - 1
           last == IF x = 1 THEN 1 ELSE IF x = 2 THEN d - 1 ELSE n
<1>1. n \in Nat /\ d \in 3..n /\ P!IsRoute(c.path)
  BY DEF DUAt, P!IsRoute
<1>2. last \in 1..n /\ last \in 1..Len(c.path) - 1
  BY <1>1
<1>3. \A k \in 1..Len(c.path) - 1 : Delay(LinkOf(c, k)) \in Int
  <2>1. \A k \in 1..Len(c.path) - 1 : LinkOf(c, k) \in DOMAIN topology.link
    BY <1>1, HopsUseDifferentLinks DEF IInv
  <2>2. \A l \in DOMAIN topology.link : topology.link[l].delay \in Nat
    BY TopologyAssumption DEF IInv, TypeOK
  <2> QED BY <2>1, <2>2 DEF Delay
<1>4. \A h \in 1..n : HaulOf(c, h) = IF h >= d THEN 3 ELSE IF h >= 2 THEN 2 ELSE 1
  BY HaulOfHop
<1>5. {g \in 1..n : HaulOf(c, g) = x} = FirstHop(d, last)..last
  BY <1>1, <1>4 DEF FirstHop
<1>6. TotalLatency(c, last) = Delays(c, x)
  <2> HIDE DEF last
  <2>1. TotalLatency(c, last) = SumFunction([k \in FirstHop(d, last)..last |-> Delay(LinkOf(c, k))])
    BY <1>2, <1>3, LatencySoFar
  <2> QED BY <1>5, <2>1 DEF Delays
<1>7. Gets(c, last) = x
  <2>1. Gets(c, last) = IF last >= d THEN 3 ELSE IF last >= 2 THEN 2 ELSE 1
    <3> HIDE DEF last
    <3> QED BY <1>1, <1>2, GetsOfHop DEF DUAt
  <2> QED BY <1>1, <2>1
<1>8. \/ Requirement(c, last).latency = 0
      \/ TotalLatency(c, last) <= Requirement(c, last).latency
  BY <1>2 DEF NetworkValid
<1> HIDE DEF last
<1> QED BY <1>6, <1>7, <1>8 DEF Requirement

(* Writing the candidate to the RU gives it a chain that keeps them. *)
LEMMA AcceptedChains == RInv /\ ChainsInv /\ Accept => ChainsInv'
<1> SUFFICES ASSUME RInv, ChainsInv, Accept PROVE ChainsInv'
  OBVIOUS
<1>1. PICK c : Accepted(c)
  BY AcceptedCandidate DEF RInv
<1>2. /\ stage = "search" /\ stage' = "du" /\ i' = i /\ Built /\ IInv
      /\ i \in DOMAIN rus /\ DOMAIN rus' = DOMAIN rus
      /\ UNCHANGED <<topology, root, links>>
      /\ \A k \in DOMAIN rus : k # i => rus'[k] = rus[k]
      /\ rus'[i].ruNode = rus[i].ruNode /\ rus'[i].path = c.path
      /\ rus'[i].cuNode = c.cuNode /\ rus'[i].duNode = c.duNode
      /\ P!IsRoute(c.path) /\ c.path \in Seq(Nodes) /\ c.cuNode = c.path[2]
      /\ c.duNode = DUNodeOf(c.path) /\ P!Last(c.path) = rus[i].ruNode
      /\ NetworkValid(c)
  BY <1>1, AcceptedCandidate DEF RInv, Accepted
<1> DEFINE r == rus'[i]
<1>3. ASSUME r.duNode # NoNode
      PROVE  Keeps(r) /\ \E d \in Nat : DUAt(r, d)
  <2>1. PICK d \in 3..Len(c.path) - 1 : c.duNode = c.path[d]
    BY <1>2, <1>3, DUFound
  <2>2. d \in Nat /\ DUAt(c, d) /\ DUAt(r, d)
    BY <1>2, <2>1 DEF DUAt
  <2>3. \A x \in 1..3 : Hauls[x].latency = 0 \/ Delays(c, x) <= Hauls[x].latency
    BY <1>2, <2>2, AcceptedKeeps
  <2>4. \A x : Delays(r, x) = Delays(c, x)
    <3>1. \A g : HaulOf(r, g) = HaulOf(c, g) /\ LinkOf(r, g) = LinkOf(c, g)
      BY <1>2 DEF HaulOf, LinkOf
    <3> QED BY <1>2, <3>1 DEF Delays
  <2>5. P!IsRoute(r.path) /\ P!Last(r.path) = r.ruNode /\ r.cuNode = r.path[2]
    BY <1>2
  <2> HIDE DEF r
  <2>6. Cardinality({root, r.cuNode, r.duNode, r.ruNode}) = 4
    BY <2>2, <2>5, FourNodes
  <2> QED BY <2>2, <2>3, <2>4, <2>5, <2>6 DEF Keeps
<1>4. ASSUME NEW k \in DOMAIN rus
      PROVE  /\ Keeps(rus'[k]) => Keeps(rus[k])'
             /\ \A d : DUAt(rus'[k], d) => DUAt(rus[k], d)'
  <2>1. P!IsRoute(rus'[k].path) => P!IsRoute(rus[k].path)'
    BY <1>2 DEF P!IsRoute
  <2>2. \A x : Delays(rus[k], x)' = Delays(rus'[k], x)
    BY <1>2 DEF Delays, Delay, LinkOf
  <2> QED BY <1>2, <2>1, <2>2 DEF Keeps, DUAt
<1>6. ASSUME NEW k \in DOMAIN rus, rus'[k].duNode # NoNode
      PROVE  Keeps(rus[k])' /\ \E d \in Nat : DUAt(rus[k], d)'
  <2>1. CASE k = i
    BY <1>2, <1>3, <1>4, <1>6, <2>1
  <2>2. CASE k # i
    <3>1. Keeps(rus[k]) /\ \E d \in Nat : DUAt(rus[k], d)
      BY <1>2, <1>6, <2>2 DEF ChainsInv
    <3> QED BY <1>2, <1>4, <2>2, <3>1
  <2> QED BY <2>1, <2>2
<1>7. \A k \in DOMAIN rus : k < i => rus'[k].path = <<>> \/ rus'[k].duNode # NoNode
  <2>1. i \in Nat /\ DOMAIN rus \subseteq Nat
    BY <1>2, Counted
  <2> QED BY <1>2, <2>1 DEF ChainsInv
<1> QED BY <1>2, <1>6, <1>7 DEF ChainsInv

(* The search leaves all but its own variables alone. *)
LEMMA SearchKeeps ==
  SearchStep => UNCHANGED <<topology, nodeList, rus, stage, i, hop, memory, cpu, bandwidth, root, links>>
<1>1. (Search!Dequeue \/ \E n \in Nodes : Search!Explore(n)) => UNCHANGED <<root, links>>
  BY DEF Search!Dequeue, Search!Explore
<1> QED BY <1>1 DEF SearchStep, input, left

(* Every step keeps the chains. *)
LEMMA ChainsNext == RInv /\ ChainsInv /\ [Next]_vars => ChainsInv'
<1> SUFFICES ASSUME RInv, ChainsInv, [Next]_vars PROVE ChainsInv'
  OBVIOUS
<1>1. IInv /\ UnplacedInv /\ DUInv
  BY DEF RInv
<1>2. DOMAIN rus = 1..Len(rus) /\ Len(rus) \in Nat /\ i \in Nat
  BY <1>1, Counted
<1>3. CASE NewPlacementBFS
  <2>1. stage = "new" /\ stage' = "rus" /\ rus' = rus
    BY <1>3 DEF NewPlacementBFS
  <2>2. \A k \in DOMAIN rus : rus[k].duNode = NoNode
    BY <1>1, <2>1 DEF UnplacedInv, Unplaced
  <2> QED BY <2>1, <2>2 DEF ChainsInv
<1>4. CASE Accept
  BY <1>4, AcceptedChains
<1>5. CASE ~NewPlacementBFS /\ ~Accept
  <2> DEFINE placing == {"place", "search", "du", "cu", "links", "done"}
  <2>1. /\ UNCHANGED <<topology, rus, root, links>>
        /\ stage' \in placing =>
             \/ stage \in placing /\ i' = i
             \/ i' = 1
             \/ stage = "search" /\ i' = i + 1
             \/ stage = "links" /\ i' = i + 1
    BY <1>5, SearchKeeps
       DEF Next, vars, input, left, graph, NewPlacementPanics, AllocateRU, AllocateRUPanics,
                RUsAllocated, FindPaths, FindPathsPanics, ValidatePanics, Reject, Validating,
                AllocateDU, AllocateDUPanics, AllocateCU, AllocateLink, Placed, Panic, AllocateOn
  <2>2. ASSUME NEW k \in DOMAIN rus, rus[k].duNode # NoNode
        PROVE  Keeps(rus[k])' /\ \E d \in Nat : DUAt(rus[k], d)'
    <3>1. Keeps(rus[k]) /\ \E d \in Nat : DUAt(rus[k], d)
      BY <2>2 DEF ChainsInv
    <3>2. P!IsRoute(rus[k].path)' = P!IsRoute(rus[k].path)
      BY <2>1 DEF P!IsRoute
    <3>3. \A x : Delays(rus[k], x)' = Delays(rus[k], x)
      BY <2>1 DEF Delays, Delay, LinkOf
    <3> QED BY <2>1, <3>1, <3>2, <3>3 DEF Keeps, DUAt
  <2>3. stage \in placing => \A k \in DOMAIN rus : k < i => rus[k].path = <<>> \/ rus[k].duNode # NoNode
    BY DEF ChainsInv
  <2>4. ASSUME stage' \in placing, NEW k \in DOMAIN rus, k < i'
        PROVE  rus[k].path = <<>> \/ rus[k].duNode # NoNode
    <3>1. CASE stage \in placing /\ i' = i
      BY <2>3, <2>4, <3>1
    <3>2. CASE i' = 1
      BY <1>2, <2>4, <3>2
    <3>3. CASE stage = "search" /\ i' = i + 1
      <4>1. k < i \/ k = i
        BY <1>2, <2>4, <3>3
      <4>2. k = i => rus[k].path = <<>>
        BY <1>1, <3>3 DEF UnplacedInv, Unplaced
      <4> QED BY <2>3, <3>3, <4>1, <4>2
    <3>4. CASE stage = "links" /\ i' = i + 1
      <4>1. k < i \/ k = i
        BY <1>2, <2>4, <3>4
      <4>2. k = i => rus[k].duNode # NoNode
        BY <1>1, <3>4, NoNodeAssumption DEF DUInv
      <4> QED BY <2>3, <3>4, <4>1, <4>2
    <3> QED BY <2>1, <2>4, <3>1, <3>2, <3>3, <3>4
  <2> QED BY <2>1, <2>2, <2>4 DEF ChainsInv
<1> QED BY <1>3, <1>4, <1>5

(* The invariant holds initially. *)
LEMMA ChainsInit == Init => ChainsInv
BY DEF Init, ChainsInv

(* On every topology and with every requirement, each chain that has a DU runs
   from the core over the CU and then the DU to the RU, and each of its hauls
   keeps its latency end to end. *)
THEOREM ChainsInTime == Spec => []ChainsKeepRequirements
<1>1. RInv /\ ChainsInv => ChainsKeepRequirements
  BY ChainsKept DEF ChainsInv
<1> QED BY <1>1, RInit, RNext, ChainsInit, ChainsNext, PTL DEF Spec

-------------------------------------------------------------------------------
(* A sum of zeros is zero. *)
LEMMA SumOfZeros ==
  ASSUME NEW f, IsFiniteSet(DOMAIN f), \A x \in DOMAIN f : f[x] = 0
  PROVE  SumFunction(f) = 0
<1> DEFINE S == DOMAIN f
           A == {T \in SUBSET S : Sums(f, S)[T] = 0}
<1>1. ASSUME NEW T \in SUBSET S,
             \A U \in SUBSET T : Cardinality(U) < Cardinality(T) => U \in A
      PROVE  T \in A
  <2>1. CASE T = {}
    BY <2>1, SumsExist
  <2>2. CASE T # {}
    <3> DEFINE x == Pick(T)
    <3>1. x \in T
      BY <2>2 DEF Pick
    <3>2. Sums(f, S)[T] = f[x] + Sums(f, S)[T \ {x}]
      BY <2>2, SumsExist
    <3> HIDE DEF x
    <3>3. T \ {x} \in A
      BY <1>1, <3>1, Smaller
    <3> QED BY <3>1, <3>2, <3>3
  <2> QED BY <2>1, <2>2
<1> HIDE DEF A
<1>2. SUBSET S \subseteq A
  BY <1>1, SmallestSubset
<1>3. Sums(f, S)[S] = 0
  BY <1>2 DEF A
<1> QED BY <1>3, SumIs DEF SumFunction

(* The sum of one term is this term. *)
LEMMA SumOfOne ==
  ASSUME NEW f, NEW x, DOMAIN f = {x}, f[x] \in Int
  PROVE  SumFunction(f) = f[x]
<1> DEFINE e == [y \in DOMAIN f \ {x} |-> f[y]]
<1>1. IsFiniteSet(DOMAIN f) /\ x \in DOMAIN f /\ \A y \in DOMAIN f : f[y] \in Int
  BY FS_Singleton
<1>2. DOMAIN e = {}
  OBVIOUS
<1>3. SumFunction(f) = f[x] + SumFunction(e)
  BY <1>1, SumSplit
<1> HIDE DEF e
<1>4. SumFunction(e) = 0
  BY <1>2, SumOfNothing
<1> QED BY <1>3, <1>4

-------------------------------------------------------------------------------
(* What a link has left, with what the proof that a step keeps it needs. *)
LinkInv == RInv /\ StartInv /\ ChainsInv /\ LinkAccounting

Placing == stage \in {"place", "search", "du", "cu", "links", "done"}

(* The hops of chain k that link l has been charged for, and what for. *)
HopsOn(l, k) == {g \in ChargedHops(k) : LinkOf(rus[k], g) = l}

BandwidthOf(k, h) == Hauls[HaulOf(rus[k], h)].bandwidth

(* The accounts of the links in these terms. *)
LEMMA LinkAccounts ==
  /\ LinkAccounting <=>
       (Placing => \A l \in DOMAIN bandwidth :
          bandwidth[l] = topology.link[l].capacity - SumFunction([k \in DOMAIN rus |-> ChargedTo(l, k)]))
  /\ \A l, k : ChargedTo(l, k) = SumFunction([h \in HopsOn(l, k) |-> BandwidthOf(k, h)])
BY DEF LinkAccounting, InStep, Placing, ChargedTo, HopsOn, BandwidthOf

(* A hop that has been charged is one of a chain with a DU, so its bandwidth is
   a number. *)
LEMMA ChargedHopsTyped ==
  ASSUME RInv, ChainsInv, Placing, NEW k \in DOMAIN rus
  PROVE  /\ IsFiniteSet(ChargedHops(k))
         /\ \A h \in ChargedHops(k) : BandwidthOf(k, h) \in Int
<1>1. rus[k].path \in Seq(Nodes) /\ Len(rus[k].path) \in Nat
  <2>1. rus[k] \in RUType
    BY NamedNode DEF RInv
  <2> QED BY <2>1 DEF RUType
<1>2. IsFiniteSet(ChargedHops(k))
  <2>1. IsFiniteSet(1..Len(rus[k].path) - 1) /\ ChargedHops(k) \subseteq 1..Len(rus[k].path) - 1
    BY <1>1, FS_Interval DEF ChargedHops
  <2> QED BY <2>1, FS_Subset
<1>3. ASSUME NEW h \in ChargedHops(k) PROVE BandwidthOf(k, h) \in Int
  <2>1. h \in 1..Len(rus[k].path) - 1 /\ rus[k].path # <<>>
    BY <1>1 DEF ChargedHops
  <2>2. rus[k].duNode # NoNode
    <3>1. CASE k < i
      BY <2>1, <3>1 DEF ChainsInv, Placing
    <3>2. CASE k = i /\ stage = "links"
      BY <3>2, NoNodeAssumption DEF RInv, DUInv
    <3> QED BY <3>1, <3>2 DEF ChargedHops
  <2>3. PICK d \in Nat : DUAt(rus[k], d)
    BY <2>2 DEF ChainsInv
  <2>4. HaulOf(rus[k], h) \in 1..3
    BY <2>1, <2>3, HaulOfHop
  <2>5. Hauls[HaulOf(rus[k], h)] \in [bandwidth : Nat, latency : Nat]
    <3> DEFINE S == [bandwidth : Nat, latency : Nat]
               x == HaulOf(rus[k], h)
    <3>1. Hauls \in Seq(S) /\ Len(Hauls) = 3 /\ x \in 1..3
      BY <2>4, HaulAssumption
    <3> HIDE DEF S, x
    <3>2. Hauls[x] \in S
      BY <3>1
    <3> QED BY <3>2 DEF S, x
  <2> QED BY <2>5 DEF BandwidthOf
<1> QED BY <1>2, <1>3

(* So is what a chain has been charged for. *)
LEMMA ChargedTyped ==
  ASSUME RInv, ChainsInv, Placing, NEW k \in DOMAIN rus, NEW l
  PROVE  ChargedTo(l, k) \in Int
<1> DEFINE f == [h \in HopsOn(l, k) |-> BandwidthOf(k, h)]
<1>1. IsFiniteSet(HopsOn(l, k))
  BY ChargedHopsTyped, FS_Subset DEF HopsOn
<1>2. \A h \in HopsOn(l, k) : f[h] \in Int
  BY ChargedHopsTyped DEF HopsOn
<1>3. DOMAIN f = HopsOn(l, k)
  OBVIOUS
<1> HIDE DEF f
<1>4. SumFunction(f) \in Int
  BY <1>1, <1>2, <1>3, SumTyped
<1> QED BY <1>4, LinkAccounts DEF f

(* No hops, no charge. *)
LEMMA NoneCharged ==
  ASSUME NEW k, ChargedHops(k) = {}, NEW l
  PROVE  ChargedTo(l, k) = 0
<1>1. HopsOn(l, k) = {}
  BY DEF HopsOn
<1> QED BY <1>1, SumOfNothing, LinkAccounts

(* A step that charges the chains for nothing more keeps the accounts. *)
LEMMA ChargedAgain ==
  ASSUME LinkAccounting, Placing, UNCHANGED <<topology, bandwidth>>, DOMAIN rus' = DOMAIN rus,
         \A k \in DOMAIN rus : \A l : ChargedTo(l, k)' = ChargedTo(l, k)
  PROVE  LinkAccounting'
<1> SUFFICES ASSUME NEW l \in DOMAIN bandwidth
             PROVE  bandwidth[l] = topology.link[l].capacity -
                      SumFunction([k \in DOMAIN rus' |-> ChargedTo(l, k)'])
  BY DEF LinkAccounting
<1>1. [k \in DOMAIN rus' |-> ChargedTo(l, k)'] = [k \in DOMAIN rus |-> ChargedTo(l, k)]
  OBVIOUS
<1>2. bandwidth[l] = topology.link[l].capacity - SumFunction([k \in DOMAIN rus |-> ChargedTo(l, k)])
  BY LinkAccounts
<1> QED BY <1>1, <1>2

(* The loop over the RUs starts with nothing charged. *)
LEMMA FirstAccounts == LinkInv /\ RUsAllocated => LinkAccounting'
<1> SUFFICES ASSUME LinkInv, RUsAllocated PROVE LinkAccounting'
  OBVIOUS
<1>1. IInv /\ StartInv
  BY DEF LinkInv, RInv
<1>2. /\ stage = "rus" /\ stage' = "place" /\ i' = 1
      /\ UNCHANGED <<topology, rus, bandwidth>>
  BY DEF RUsAllocated, input, left
<1>3. DOMAIN rus = 1..Len(rus) /\ IsFiniteSet(DOMAIN rus)
  BY <1>1, Counted
<1>4. \A k \in DOMAIN rus : ChargedHops(k)' = {}
  BY <1>2, <1>3 DEF ChargedHops
<1> SUFFICES ASSUME NEW l \in DOMAIN bandwidth
             PROVE  bandwidth[l] = topology.link[l].capacity -
                      SumFunction([k \in DOMAIN rus' |-> ChargedTo(l, k)'])
  BY <1>2 DEF LinkAccounting
<1>5. \A k \in DOMAIN rus : ChargedTo(l, k)' = 0
  <2> SUFFICES ASSUME NEW k \in DOMAIN rus PROVE ChargedTo(l, k)' = 0
    OBVIOUS
  <2>1. HopsOn(l, k)' = {}
    BY <1>4 DEF HopsOn
  <2>2. ChargedTo(l, k)' = SumFunction([h \in HopsOn(l, k)' |-> BandwidthOf(k, h)'])
    BY DEF ChargedTo, HopsOn, BandwidthOf
  <2> QED BY <2>1, <2>2, SumOfNothing
<1> DEFINE f == [k \in DOMAIN rus' |-> ChargedTo(l, k)']
<1>6. DOMAIN f = DOMAIN rus /\ \A k \in DOMAIN f : f[k] = 0
  BY <1>2, <1>5
<1> HIDE DEF f
<1>7. SumFunction(f) = 0
  BY <1>3, <1>6, SumOfZeros
<1>8. bandwidth[l] = topology.link[l].capacity /\ topology.link[l].capacity \in Nat
  <2>1. l \in DOMAIN topology.link
    BY <1>1, <1>2 DEF IInv, TypeOK, Built
  <2> QED BY <1>1, <1>2, <2>1, TopologyAssumption DEF StartInv, IInv, TypeOK
<1> QED BY <1>7, <1>8 DEF f

(* Charging one hop of the chain at hand to its link. *)
LEMMA HopAccounts == LinkInv /\ AllocateLink /\ stage' # "allocError" => LinkAccounting'
<1> SUFFICES ASSUME LinkInv, AllocateLink, stage' # "allocError", NEW n, n = i
             PROVE  LinkAccounting'
  OBVIOUS
<1> DEFINE c == rus[n]
           l0 == LinkOf(c, hop)
           q == Requirement(c, hop).bandwidth
<1>1. RInv /\ IInv /\ ChainsInv /\ LinkAccounting
  BY DEF LinkInv, RInv
<1>2. /\ stage = "links" /\ Built /\ Placing
      /\ bandwidth' = [bandwidth EXCEPT ![l0] = bandwidth[l0] - q]
      /\ hop' = hop + 1
      /\ UNCHANGED <<topology, rus, root, links>>
      /\ \/ stage' = "place" /\ i' = i + 1 /\ hop + 1 = Len(c.path)
         \/ stage' = "links" /\ i' = i
  BY DEF AllocateLink, input, graph, Built, Placing
<1>3. /\ n \in DOMAIN rus /\ n \in Nat /\ DOMAIN rus = 1..Len(rus) /\ Len(rus) \in Nat
      /\ IsFiniteSet(DOMAIN rus)
      /\ P!IsRoute(c.path) /\ c.cuNode = c.path[2] /\ hop \in 1..Len(c.path) - 1
      /\ bandwidth \in [DOMAIN topology.link -> Int]
  <2>1. /\ i \in DOMAIN rus /\ P!IsRoute(rus[i].path) /\ rus[i].cuNode = rus[i].path[2]
        /\ hop \in 1..Len(rus[i].path) - 1
    BY <1>1, <1>2 DEF IInv, ChainInv
  <2>2. bandwidth \in [DOMAIN topology.link -> Int]
    BY <1>1, <1>2 DEF IInv, TypeOK
  <2>3. DOMAIN rus = 1..Len(rus) /\ Len(rus) \in Nat /\ IsFiniteSet(DOMAIN rus)
    BY <1>1, Counted
  <2> QED BY <2>1, <2>2, <2>3
<1>4. PICK d \in 3..Len(c.path) - 1 : c.duNode = c.path[d]
  BY <1>1, <1>2 DEF RInv, DUInv
<1>5. Len(c.path) \in Nat /\ DUAt(c, d)
  BY <1>3, <1>4 DEF DUAt, P!IsRoute
<1>6. q = BandwidthOf(n, hop) /\ q \in Nat
  <2>1. Gets(c, hop) = HaulOf(c, hop)
    BY <1>3, <1>4, <1>5, GetsOfHop, HaulOfHop
  <2>2. hop \in 1..Len(c.path)
    BY <1>3, <1>5
  <2> QED BY <1>3, <2>1, <2>2, GetsBound DEF Requirement, BandwidthOf
<1>7. /\ l0 \in DOMAIN topology.link
      /\ \A j \in 1..Len(c.path) - 1 : j # hop => LinkOf(c, j) # l0
  BY <1>1, <1>2, <1>3, HopsUseDifferentLinks DEF IInv
<1> HIDE DEF q, l0
<1>8. /\ hop \notin ChargedHops(n)
      /\ ChargedHops(n)' = ChargedHops(n) \cup {hop}
      /\ \A k \in DOMAIN rus : k # n => ChargedHops(k)' = ChargedHops(k)
  BY <1>2, <1>3, <1>5 DEF ChargedHops
<1>9. ASSUME NEW l
      PROVE  /\ \A k \in DOMAIN rus : k # n => ChargedTo(l, k)' = ChargedTo(l, k)
             /\ ChargedTo(l, n)' = ChargedTo(l, n) + IF l = l0 THEN q ELSE 0
  <2>0. \A k \in DOMAIN rus :
          ChargedTo(l, k)' = SumFunction([h \in HopsOn(l, k)' |-> BandwidthOf(k, h)])
    BY <1>2 DEF ChargedTo, HopsOn, BandwidthOf
  <2>1. \A k \in DOMAIN rus :
          ChargedTo(l, k) = SumFunction([h \in HopsOn(l, k) |-> BandwidthOf(k, h)])
    BY LinkAccounts
  <2>2. ASSUME NEW k \in DOMAIN rus, k # n PROVE ChargedTo(l, k)' = ChargedTo(l, k)
    <3>1. HopsOn(l, k)' = HopsOn(l, k)
      BY <1>2, <1>8, <2>2 DEF HopsOn, LinkOf
    <3> QED BY <2>0, <2>1, <3>1
  <2>3. HopsOn(l, n)' = {g \in ChargedHops(n) \cup {hop} : LinkOf(c, g) = l}
    BY <1>2, <1>3, <1>8 DEF HopsOn, LinkOf
  <2>4. CASE l # l0
    <3>1. HopsOn(l, n)' = HopsOn(l, n)
      BY <2>3, <2>4 DEF HopsOn, l0
    <3>2. ChargedTo(l, n) \in Int
      BY <1>1, <1>2, <1>3, ChargedTyped
    <3>3. ChargedTo(l, n)' = ChargedTo(l, n)
      BY <1>3, <2>0, <2>1, <3>1
    <3> QED BY <2>2, <2>4, <3>2, <3>3
  <2>5. CASE l = l0
    <3>1. ChargedHops(n) \subseteq 1..Len(c.path) - 1
      BY DEF ChargedHops
    <3>2. HopsOn(l, n) = {} /\ HopsOn(l, n)' = {hop}
      BY <1>7, <1>8, <2>3, <2>5, <3>1 DEF HopsOn, l0
    <3>3. ChargedTo(l, n) = 0
      BY <1>3, <2>1, <3>2, SumOfNothing
    <3> DEFINE f == [h \in {hop} |-> BandwidthOf(n, h)]
    <3>4. DOMAIN f = {hop} /\ f[hop] = q
      BY <1>6
    <3>5. ChargedTo(l, n)' = SumFunction(f)
      BY <1>3, <2>0, <3>2
    <3> HIDE DEF f
    <3>6. SumFunction(f) = q
      BY <1>6, <3>4, SumOfOne
    <3> QED BY <1>6, <2>2, <2>5, <3>3, <3>5, <3>6
  <2> QED BY <2>4, <2>5
<1> SUFFICES ASSUME NEW l \in DOMAIN bandwidth
             PROVE  bandwidth'[l] = topology.link[l].capacity -
                      SumFunction([k \in DOMAIN rus' |-> ChargedTo(l, k)'])
  BY <1>2, <1>3 DEF LinkAccounting
<1> DEFINE f == [k \in DOMAIN rus |-> ChargedTo(l, k)]
           g == [k \in DOMAIN rus' |-> ChargedTo(l, k)']
           v == IF l = l0 THEN q ELSE 0
<1>10. /\ DOMAIN f = DOMAIN rus /\ DOMAIN g = DOMAIN f
       /\ \A k \in DOMAIN f : f[k] \in Int
       /\ v \in Int /\ g[n] = f[n] + v /\ \A k \in DOMAIN f : k # n => g[k] = f[k]
  <2>1. DOMAIN rus' = DOMAIN rus /\ v \in Int
    BY <1>2, <1>6
  <2>2. \A k \in DOMAIN rus : ChargedTo(l, k) \in Int
    BY <1>1, <1>2, ChargedTyped
  <2>3. ChargedTo(l, n)' = ChargedTo(l, n) + v
    BY <1>9
  <2>4. \A k \in DOMAIN rus : k # n => ChargedTo(l, k)' = ChargedTo(l, k)
    BY <1>9
  <2> HIDE DEF v
  <2> QED BY <1>3, <2>1, <2>2, <2>3, <2>4
<1>11. bandwidth[l] = topology.link[l].capacity - SumFunction(f)
  BY <1>1, <1>2, LinkAccounts
<1>12. bandwidth'[l] = bandwidth[l] - v /\ topology.link[l].capacity \in Nat
  BY <1>1, <1>2, <1>3, <1>6, <1>7, TopologyAssumption DEF IInv, TypeOK
<1> HIDE DEF f, g, v
<1>13. SumFunction(g) = SumFunction(f) + v /\ SumFunction(f) \in Int
  BY <1>3, <1>10, SumGrows, SumTyped
<1> QED BY <1>10, <1>11, <1>12, <1>13 DEF g

(* A chain is charged for no hop before the walk over its links starts, and a
   rejected RU has none. *)
LEMMA OtherAccounts ==
  ASSUME LinkInv, Placing, Placing', UNCHANGED <<topology, bandwidth, links>>,
         DOMAIN rus' = DOMAIN rus, \A k \in DOMAIN rus : k # i => rus'[k] = rus[k],
         \/ stage' = "du" /\ stage = "search" /\ i' = i
         \/ stage' = "place" /\ stage = "search" /\ i' = i + 1 /\ rus' = rus
         \/ stage' = "links" /\ stage = "cu" /\ i' = i /\ rus' = rus /\ hop' = hop
         \/ stage' # "links" /\ stage # "links" /\ i' = i /\ rus' = rus
  PROVE  LinkAccounting'
<1>1. IInv /\ StartInv /\ UnplacedInv /\ LinkAccounting
  BY DEF LinkInv, RInv
<1>2. DOMAIN rus = 1..Len(rus) /\ Len(rus) \in Nat /\ i \in Nat
  BY <1>1, Counted
<1>3. ASSUME NEW k \in DOMAIN rus
      PROVE  /\ ChargedHops(k)' = ChargedHops(k)
             /\ rus'[k] = rus[k] \/ ChargedHops(k) = {}
  <2>1. CASE stage' = "du" /\ stage = "search" /\ i' = i
    <3>1. CASE k < i
      BY <1>2, <2>1, <3>1 DEF ChargedHops
    <3>2. CASE ~(k < i)
      BY <1>2, <2>1, <3>2 DEF ChargedHops
    <3> QED BY <3>1, <3>2
  <2>2. CASE stage' = "place" /\ stage = "search" /\ i' = i + 1 /\ rus' = rus
    <3>1. k = i => rus[k].path = <<>>
      BY <1>1, <2>2 DEF UnplacedInv, Unplaced
    <3>2. k = i => ChargedHops(k) = {} /\ ChargedHops(k)' = {}
      BY <1>2, <2>2, <3>1 DEF ChargedHops
    <3>3. k # i => ChargedHops(k)' = ChargedHops(k)
      BY <1>2, <2>2 DEF ChargedHops
    <3> QED BY <2>2, <3>2, <3>3
  <2>3. CASE stage' = "links" /\ stage = "cu" /\ i' = i /\ rus' = rus /\ hop' = hop
    <3>1. hop = 1
      BY <1>1, <2>3 DEF StartInv
    <3> QED BY <1>2, <2>3, <3>1 DEF ChargedHops
  <2>4. CASE stage' # "links" /\ stage # "links" /\ i' = i /\ rus' = rus
    BY <2>4 DEF ChargedHops
  <2> QED BY <2>1, <2>2, <2>3, <2>4
<1>4. ASSUME NEW k \in DOMAIN rus, NEW l PROVE ChargedTo(l, k)' = ChargedTo(l, k)
  <2>1. HopsOn(l, k)' = HopsOn(l, k)
    BY <1>3 DEF HopsOn, LinkOf
  <2>2. HopsOn(l, k) = {} \/ \A h : BandwidthOf(k, h)' = BandwidthOf(k, h)
    BY <1>3 DEF HopsOn, BandwidthOf
  <2>3. ChargedTo(l, k)' = SumFunction([h \in HopsOn(l, k)' |-> BandwidthOf(k, h)'])
    BY DEF ChargedTo, HopsOn, BandwidthOf
  <2>4. ChargedTo(l, k) = SumFunction([h \in HopsOn(l, k) |-> BandwidthOf(k, h)])
    BY LinkAccounts
  <2>5. [h \in HopsOn(l, k)' |-> BandwidthOf(k, h)'] = [h \in HopsOn(l, k) |-> BandwidthOf(k, h)]
    BY <2>1, <2>2
  <2> QED BY <2>3, <2>4, <2>5
<1> QED BY <1>1, <1>4, ChargedAgain

(* Every step keeps the accounts of the links. *)
LEMMA LinkNext == LinkInv /\ [Next]_vars => LinkInv'
<1> SUFFICES ASSUME LinkInv, [Next]_vars PROVE LinkAccounting'
  BY RNext, StartNext, ChainsNext DEF LinkInv
<1>0. LinkAccounting' \/ Placing'
  BY DEF LinkAccounting, Placing, InStep
<1> SUFFICES ASSUME Placing' PROVE LinkAccounting'
  BY <1>0
<1>1. CASE RUsAllocated
  BY <1>1, FirstAccounts
<1>2. CASE AllocateLink
  <2>1. stage' # "allocError"
    BY DEF Placing
  <2> QED BY <1>2, <2>1, HopAccounts
<1>3. CASE Accept
  <2>1. /\ stage = "search" /\ stage' = "du" /\ UNCHANGED <<topology, bandwidth, links, i>>
        /\ DOMAIN rus' = DOMAIN rus /\ \A k \in DOMAIN rus : k # i => rus'[k] = rus[k]
    BY <1>3, AcceptedCandidate DEF LinkInv, RInv, Accepted
  <2>2. Placing
    BY <2>1 DEF Placing
  <2> QED BY <2>1, <2>2, OtherAccounts
<1>4. CASE FindPaths \/ SearchStep \/ Reject \/ Placed \/ AllocateDU \/ AllocateCU
  <2>1. /\ UNCHANGED <<topology, bandwidth, links, rus>>
        /\ \/ stage = "search" /\ stage' = "place" /\ i' = i + 1
           \/ stage = "cu" /\ stage' = "links" /\ i' = i /\ hop' = hop
           \/ stage # "links" /\ stage' # "links" /\ i' = i
        /\ Placing
    <3>1. CASE FindPaths \/ Reject \/ Placed
      BY <3>1 DEF FindPaths, Reject, Validating, Placed, input, left, graph, Placing
    <3>2. CASE SearchStep
      BY <3>2, SearchKeeps DEF SearchStep, Placing
    <3>3. CASE AllocateDU \/ AllocateCU
      BY <3>3 DEF AllocateDU, AllocateCU, AllocateOn, input, graph, Placing
    <3> QED BY <1>4, <3>1, <3>2, <3>3
  <2> QED BY <2>1, OtherAccounts
<1>5. CASE \/ NewPlacementBFS \/ NewPlacementPanics \/ AllocateRU \/ AllocateRUPanics \/ FindPathsPanics
           \/ ValidatePanics \/ AllocateDUPanics
  BY <1>5 DEF NewPlacementBFS, NewPlacementPanics, AllocateRU, AllocateRUPanics, FindPathsPanics,
              ValidatePanics, AllocateDUPanics, Panic, AllocateOn, Placing
<1>6. CASE UNCHANGED vars
  <2>1. UNCHANGED <<topology, bandwidth, links, rus, stage, i, hop>>
    BY <1>6 DEF vars, input, left, graph
  <2>2. Placing /\ LinkAccounting
    BY <2>1 DEF Placing, LinkInv
  <2>3. \A k \in DOMAIN rus : \A l : ChargedTo(l, k)' = ChargedTo(l, k)
    BY <2>1 DEF ChargedTo, ChargedHops, LinkOf
  <2> QED BY <2>1, <2>2, <2>3, ChargedAgain
<1> QED BY <1>1, <1>2, <1>3, <1>4, <1>5, <1>6 DEF Next

(* The invariant holds initially. *)
LEMMA LinkInit == Init => LinkInv
BY RInit, ChainsInit DEF Init, LinkInv, StartInv, LinkAccounting, InStep, Built

(* On every topology, cluster, list of RUs and requirements: between any two
   steps of the charging, every link is at its capacity less exactly what the
   hops charged so far need. *)
THEOREM LinksBalance == Spec => []LinkAccounting
<1>1. LinkInv => LinkAccounting
  BY DEF LinkInv
<1> QED BY <1>1, LinkInit, LinkNext, PTL DEF Spec
===============================================================================
