-------------------------- MODULE SplitsPlacerProofs --------------------------
(***************************************************************************)
(* Proofs about SplitsPlacer, for any number of RUs, any results of Place, *)
(* and any number of failed calls, restarts and writes by others.          *)
(***************************************************************************)
EXTENDS SplitsPlacer, FiniteSetTheorems, TLAPS

(* A version is written once: who holds the current version holds what the
   server has. *)
VersionInv ==
  /\ cache.rv <= placer.rv
  /\ cache.rv = placer.rv => cache = placer
  /\ obj.rv <= placer.rv
  /\ pc # "idle" /\ obj.rv = placer.rv => placer.state = "New"
  /\ pc = "finish" /\ obj.rv = placer.rv => placer.rus = obj.rus

(* syncSplits has seen to the Split of every RU it has passed. *)
SyncedInv ==
  \A r \in RUs :
    /\ \/ pc = "splits" /\ r < k
       \/ pc \in {"update", "finish"}
    /\ obj.rus[r] # NoPosition
    => SplitName[r] \in DOMAIN splits

(* After place, the count in the object in hand is that of its positions. *)
CountInv ==
  topologyConfig /\ pc \in {"splits", "update", "finish"} => obj.allocated = Allocated(obj.rus)

IInv ==
  /\ TypeOK /\ VersionInv /\ SyncedInv /\ CountInv
  /\ FinishedHasSplits /\ FinishedCountsRUs

-------------------------------------------------------------------------------
(* The count of RUs with a position is between none and all. *)
LEMMA AllocatedType ==
  ASSUME NEW rus
  PROVE  Allocated(rus) \in 0..Len(SplitName)
<1> DEFINE S == {r \in RUs : rus[r] # NoPosition}
<1>1. RUs = 1..Len(SplitName) /\ Len(SplitName) \in Nat
  BY RUsAssumption DEF RUs
<1>2. IsFiniteSet(RUs) /\ Cardinality(RUs) = Len(SplitName)
  <2> DEFINE n == Len(SplitName)
  <2> HIDE DEF n
  <2>1. n \in Nat
    BY <1>1 DEF n
  <2>2. IsFiniteSet(1..n) /\ Cardinality(1..n) = IF 1 > n THEN 0 ELSE n - 1 + 1
    BY <2>1, FS_Interval
  <2>3. IsFiniteSet(1..n) /\ Cardinality(1..n) = n
    BY <2>1, <2>2
  <2> QED BY <1>1, <2>3 DEF n
<1>3. IsFiniteSet(S) /\ Cardinality(S) <= Cardinality(RUs)
  BY <1>2, FS_Subset
<1>4. Cardinality(S) \in Nat
  BY <1>3, FS_CardinalityType
<1> QED BY <1>1, <1>2, <1>3, <1>4 DEF Allocated

(* Creating a Split adds its name to the names there are. *)
LEMMA CreatedSplit ==
  SplitCreated => /\ DOMAIN splits' = DOMAIN splits \cup {SplitName[k]}
                  /\ splits'[SplitName[k]] = obj.rus[k]
                  /\ \A name \in DOMAIN splits : splits'[name] = splits[name]
BY DEF SplitCreated

(* Writing a field of an object leaves an object. *)
LEMMA WrittenObject ==
  ASSUME NEW o \in Object
  PROVE  /\ [o EXCEPT !.rv = @ + 1] \in Object
         /\ \A rv \in Nat : [o EXCEPT !.rv = rv] \in Object
         /\ \A rus \in RUsType : [o EXCEPT !.rv = @ + 1, !.rus = rus] \in Object
         /\ \A rus : [o EXCEPT !.allocated = Allocated(rus)] \in Object
         /\ \A rus \in RUsType : [o EXCEPT !.rus = rus, !.allocated = Allocated(rus)] \in Object
         /\ \A a \in 0..Len(SplitName), state \in {"New", "Finished", "Error"} :
              [o EXCEPT !.rv = @ + 1, !.allocated = a, !.state = state] \in Object
         /\ \A retrigger \in BOOLEAN : [o EXCEPT !.rv = @ + 1, !.retrigger = retrigger] \in Object
         /\ o.rv \in Nat /\ o.rus \in RUsType /\ o.allocated \in 0..Len(SplitName)
<1> DEFINE L == 0..Len(SplitName)
<1>1. \A rus : Allocated(rus) \in L
  BY AllocatedType
<1>2. Object = [rv : Nat, rus : RUsType, retrigger : BOOLEAN,
                state : {"New", "Finished", "Error"}, allocated : L]
  BY DEF Object
<1> HIDE DEF L
<1>3. o.rv \in Nat /\ o.rus \in RUsType /\ o.allocated \in L
  BY <1>2
<1>4. [o EXCEPT !.rv = @ + 1] \in Object /\ \A rv \in Nat : [o EXCEPT !.rv = rv] \in Object
  BY <1>2
<1>5. \A rus \in RUsType : [o EXCEPT !.rv = @ + 1, !.rus = rus] \in Object
  <2>1. \A v \in Nat, rus \in RUsType : [o EXCEPT !.rv = v, !.rus = rus] \in Object
    BY <1>2
  <2>2. o.rv + 1 \in Nat
    BY <1>3
  <2> QED BY <2>1, <2>2
<1>6. \A rus : [o EXCEPT !.allocated = Allocated(rus)] \in Object
  BY <1>1, <1>2
<1>7. \A rus \in RUsType : [o EXCEPT !.rus = rus, !.allocated = Allocated(rus)] \in Object
  BY <1>1, <1>2
<1>8. \A a \in L, state \in {"New", "Finished", "Error"} :
        [o EXCEPT !.rv = @ + 1, !.allocated = a, !.state = state] \in Object
  <2>1. \A v \in Nat, a \in L, state \in {"New", "Finished", "Error"} :
          [o EXCEPT !.rv = v, !.allocated = a, !.state = state] \in Object
    BY <1>2
  <2>2. o.rv + 1 \in Nat
    BY <1>3
  <2> QED BY <2>1, <2>2
<1>9. \A retrigger \in BOOLEAN : [o EXCEPT !.rv = @ + 1, !.retrigger = retrigger] \in Object
  <2>1. \A v \in Nat, retrigger \in BOOLEAN : [o EXCEPT !.rv = v, !.retrigger = retrigger] \in Object
    BY <1>2
  <2>2. o.rv + 1 \in Nat
    BY <1>3
  <2> QED BY <2>1, <2>2
<1> QED BY <1>3, <1>4, <1>5, <1>6, <1>7, <1>8, <1>9 DEF L

-------------------------------------------------------------------------------
(* The types hold initially and after every step. *)
LEMMA TypeInit == Init => TypeOK
<1> SUFFICES ASSUME Init PROVE TypeOK
  OBVIOUS
<1>1. Len(SplitName) \in Nat
  BY RUsAssumption
<1>2. placer \in Object
  <2>1. PICK rus \in InitialRUs :
          placer = [rv |-> 1, rus |-> rus, retrigger |-> FALSE, state |-> "New", allocated |-> 0]
    BY DEF Init
  <2>2. rus \in RUsType /\ 0 \in 0..Len(SplitName)
    BY <1>1, RUsAssumption
  <2> QED BY <2>1, <2>2 DEF Object
<1>3. 1 \in 1..Len(SplitName) + 1
  BY <1>1
<1>4. 0 \in 0..MaxFaults /\ 0 \in 0..MaxCrashes /\ 0 \in 0..MaxEdits
  BY BoundAssumption
<1> QED BY <1>2, <1>3, <1>4 DEF Init, TypeOK

(* See above. *)
LEMMA TypeNext == TypeOK /\ [Next]_vars => TypeOK'
<1> SUFFICES ASSUME TypeOK, [Next]_vars PROVE TypeOK'
  OBVIOUS
<1> USE DEF TypeOK, input
<1>1. RUs = 1..Len(SplitName) /\ Len(SplitName) \in Nat /\ \A r \in RUs : SplitName[r] \in Names
  BY RUsAssumption DEF RUs
<1>2. CASE GetObject
  BY <1>2 DEF GetObject, server, caches, bounds
<1>3. CASE SkipTopology
  BY <1>1, <1>3 DEF SkipTopology, server, caches, bounds
<1>4. CASE Place
  <2>1. PICK outcome \in outcomes :
          LET rus == [r \in RUs |-> IF outcome[r] = NoPosition THEN obj.rus[r] ELSE outcome[r]]
          IN  obj' = [obj EXCEPT !.rus = rus, !.allocated = Allocated(rus)]
    BY <1>4 DEF Place
  <2> DEFINE rus == [r \in RUs |-> IF outcome[r] = NoPosition THEN obj.rus[r] ELSE outcome[r]]
  <2>2. rus \in RUsType
    BY RUsAssumption DEF RUsType, Object
  <2>3. obj' = [obj EXCEPT !.rus = rus, !.allocated = Allocated(rus)]
    BY <2>1
  <2> HIDE DEF rus
  <2>4. obj' \in Object
    BY <2>2, <2>3, WrittenObject
  <2> QED BY <1>1, <1>4, <2>4 DEF Place, server, caches, bounds
<1>5. CASE TopologyFails
  <2>1. obj' \in Object
    BY <1>5, WrittenObject DEF TopologyFails
  <2> QED BY <1>5, <2>1 DEF TopologyFails, server, caches, bounds
<1>6. CASE SkipSplit
  BY <1>1, <1>6 DEF SkipSplit, server, caches, bounds
<1>7. ASSUME SplitCreated, Missing
      PROVE  /\ DOMAIN splits' \subseteq Names
             /\ \A name \in DOMAIN splits' : splits'[name] \in Positions
             /\ cachedSplits \subseteq DOMAIN splits'
  <2>1. k \in RUs /\ obj.rus[k] \in Positions
    BY <1>7 DEF Missing, Object, RUsType
  <2> QED BY <1>1, <1>7, <2>1, CreatedSplit
<1>8. CASE CreateSplit
  BY <1>1, <1>7, <1>8 DEF CreateSplit, Missing, caches, bounds
<1>9. CASE SplitAlreadyExists
  BY <1>9 DEF SplitAlreadyExists, server, caches, bounds
<1>10. CASE CreateFails
  BY <1>7, <1>10, BoundAssumption DEF CreateFails, Fault, caches
<1>11. CASE SplitsSynced
  BY <1>11 DEF SplitsSynced, server, caches, bounds
<1>12. SpecWritten => placer' \in Object
  BY WrittenObject DEF SpecWritten
<1>13. CASE Update
  <2>1. obj' \in Object
    BY <1>12, <1>13 DEF Update, Object
  <2> QED BY <1>12, <1>13, <2>1 DEF Update, caches, bounds
<1>14. CASE UpdateFails
  BY <1>12, <1>14, BoundAssumption DEF UpdateFails, Fault, Return, caches
<1>15. CASE UpdateStatus
  <2>1. placer' \in Object
    BY <1>15, WrittenObject DEF UpdateStatus
  <2> QED BY <1>15, <2>1 DEF UpdateStatus, Return, caches, bounds
<1>16. CASE UpdateStatusFails
  BY <1>16, BoundAssumption DEF UpdateStatusFails, Fault, Return, server, caches
<1>17. CASE SyncCache \/ SyncSplitCache \/ Resync
  BY <1>17 DEF SyncCache, SyncSplitCache, Resync, server, caches, bounds
<1>18. CASE Restart
  BY <1>18, BoundAssumption DEF Restart, server
<1>19. CASE Edit
  <2>1. placer' \in Object
    BY <1>19, WrittenObject DEF Edit
  <2> QED BY <1>19, <2>1, BoundAssumption DEF Edit, caches
<1>20. CASE UNCHANGED vars
  BY <1>20 DEF vars, server, caches, bounds
<1> QED BY <1>2, <1>3, <1>4, <1>5, <1>6, <1>8, <1>9, <1>10, <1>11, <1>13, <1>14, <1>15, <1>16,
           <1>17, <1>18, <1>19, <1>20 DEF Next, Reconcile

-------------------------------------------------------------------------------
(* Who holds the current version holds what the server has. *)
LEMMA VersionNext == TypeOK /\ VersionInv /\ [Next]_vars => VersionInv'
<1> SUFFICES ASSUME TypeOK, VersionInv, [Next]_vars PROVE VersionInv'
  OBVIOUS
<1>1. placer \in Object /\ cache \in Object /\ obj \in Object
  BY DEF TypeOK
<1>2. placer.rv \in Nat /\ cache.rv \in Nat /\ obj.rv \in Nat
  BY <1>1 DEF Object
<1>0. /\ cache.rv <= placer.rv
      /\ cache.rv = placer.rv => cache = placer
      /\ obj.rv <= placer.rv
      /\ pc # "idle" /\ obj.rv = placer.rv => placer.state = "New"
      /\ pc = "finish" /\ obj.rv = placer.rv => placer.rus = obj.rus
  BY DEF VersionInv
<1> USE <1>0 DEF VersionInv
<1>3. CASE GetObject
  BY <1>2, <1>3 DEF GetObject, server, caches
<1>4. CASE SkipTopology \/ SkipSplit \/ SplitAlreadyExists \/ SplitsSynced
  <2>1. UNCHANGED <<placer, cache, obj>> /\ pc # "idle" /\ pc' # "finish"
    BY <1>4 DEF SkipTopology, SkipSplit, SplitAlreadyExists, Missing, SplitsSynced, server, caches
  <2> QED BY <1>2, <2>1
<1>5. CASE Place \/ TopologyFails
  <2>1. obj'.rv = obj.rv
    <3>1. CASE Place
      BY <1>1, <3>1 DEF Place, Object
    <3>2. CASE TopologyFails
      BY <1>1, <3>2 DEF TopologyFails, Object
    <3> QED BY <1>5, <3>1, <3>2
  <2> QED BY <1>2, <1>5, <2>1 DEF Place, TopologyFails, server, caches
<1>6. CASE CreateSplit \/ CreateFails
  BY <1>2, <1>6 DEF CreateSplit, CreateFails, Missing, caches
<1>7. SpecWritten =>
        /\ placer'.state = placer.state /\ placer'.rus = obj.rus
        /\ placer' = placer \/ placer'.rv = placer.rv + 1
  BY <1>1 DEF SpecWritten, Object
<1>8. CASE Update
  <2>1. obj'.rv = placer'.rv /\ obj'.rus = obj.rus
    BY <1>1, <1>8 DEF Update, Object
  <2>2. /\ pc = "update" /\ obj.rv = placer.rv /\ cache' = cache
        /\ placer'.state = placer.state /\ placer'.rus = obj.rus
        /\ placer' = placer \/ placer'.rv = placer.rv + 1
    BY <1>7, <1>8 DEF Update, Conflict, caches
  <2> QED BY <1>2, <2>1, <2>2
<1>9. CASE UpdateFails
  <2>1. /\ pc' = "idle" /\ obj' = obj /\ cache' = cache
        /\ placer' = placer \/ placer'.rv = placer.rv + 1
    BY <1>7, <1>9 DEF UpdateFails, Return, caches
  <2> QED BY <1>2, <2>1
<1>10. CASE UpdateStatus \/ Edit
  <2>1. placer'.rv = placer.rv + 1
    BY <1>1, <1>10 DEF UpdateStatus, Edit, Object
  <2>2. obj' = obj /\ cache' = cache
    BY <1>10 DEF UpdateStatus, Edit, caches
  <2> QED BY <1>2, <2>1, <2>2
<1>11. CASE UpdateStatusFails
  BY <1>2, <1>11 DEF UpdateStatusFails, Return, server, caches
<1>12. CASE SyncCache \/ SyncSplitCache \/ Resync \/ Restart
  <2>1. /\ placer' = placer /\ obj' = obj /\ pc' \in {pc, "idle"}
        /\ cache' = cache \/ cache' = placer
    BY <1>12 DEF SyncCache, SyncSplitCache, Resync, Restart, server, caches
  <2> QED BY <1>2, <2>1
<1>13. CASE UNCHANGED vars
  BY <1>13 DEF vars, server, caches
<1> QED BY <1>3, <1>4, <1>5, <1>6, <1>8, <1>9, <1>10, <1>11, <1>12, <1>13 DEF Next, Reconcile

(* Splits are only ever added. *)
LEMMA SplitsStay == [Next]_vars => DOMAIN splits \subseteq DOMAIN splits'
<1> SUFFICES ASSUME [Next]_vars PROVE DOMAIN splits \subseteq DOMAIN splits'
  OBVIOUS
<1>1. SplitCreated => DOMAIN splits \subseteq DOMAIN splits'
  BY CreatedSplit
<1> QED BY <1>1 DEF Next, Reconcile, GetObject, SkipTopology, Place, TopologyFails, SkipSplit,
            CreateSplit, SplitAlreadyExists, CreateFails, SplitsSynced, Update, UpdateFails,
            UpdateStatus, UpdateStatusFails, SyncCache, SyncSplitCache, Resync, Restart, Edit,
            vars, server

(* syncSplits passes an RU only once its Split is there. *)
LEMMA SyncedNext == TypeOK /\ SyncedInv /\ [Next]_vars => SyncedInv'
<1> SUFFICES ASSUME TypeOK, SyncedInv, [Next]_vars,
                    NEW r \in RUs,
                    (pc' = "splits" /\ r < k') \/ pc' \in {"update", "finish"},
                    obj'.rus[r] # NoPosition
             PROVE  SplitName[r] \in DOMAIN splits'
  BY DEF SyncedInv
<1>1. /\ RUs = 1..Len(SplitName) /\ Len(SplitName) \in Nat
      /\ k \in 1..Len(SplitName) + 1
      /\ obj \in Object
      /\ cachedSplits \subseteq DOMAIN splits
  BY RUsAssumption DEF TypeOK, RUs
<1>2. SUFFICES SplitName[r] \in DOMAIN splits \/ SplitName[r] \in DOMAIN splits'
  BY SplitsStay
<1>3. ASSUME UNCHANGED <<pc, k, obj>> PROVE SplitName[r] \in DOMAIN splits
  BY <1>3 DEF SyncedInv
<1>4. CASE SkipTopology \/ Place
  <2>1. k' = 1 /\ pc' = "splits"
    BY <1>4 DEF SkipTopology, Place
  <2> QED BY <1>1, <2>1
<1>5. CASE SkipSplit
  <2>1. r < k \/ r = k
    BY <1>1, <1>5 DEF SkipSplit
  <2> QED BY <1>1, <1>5, <2>1 DEF SkipSplit, SyncedInv
<1>6. CASE CreateSplit
  <2>1. r < k \/ r = k
    BY <1>1, <1>6 DEF CreateSplit, Missing
  <2>2. r = k => SplitName[r] \in DOMAIN splits'
    BY <1>6, CreatedSplit DEF CreateSplit
  <2> QED BY <1>6, <2>1, <2>2 DEF CreateSplit, Missing, SyncedInv
<1>7. CASE SplitsSynced
  <2>1. r < k
    BY <1>1, <1>7 DEF SplitsSynced
  <2> QED BY <1>7, <2>1 DEF SplitsSynced, SyncedInv
<1>8. CASE Update
  <2>1. obj'.rus = obj.rus
    BY <1>1, <1>8 DEF Update, Object
  <2> QED BY <1>8, <2>1 DEF Update, SyncedInv
<1>9. CASE GetObject \/ TopologyFails \/ SplitAlreadyExists \/ CreateFails \/ UpdateFails
           \/ UpdateStatus \/ UpdateStatusFails \/ Restart
  BY <1>9 DEF GetObject, TopologyFails, SplitAlreadyExists, CreateFails, UpdateFails,
              UpdateStatus, UpdateStatusFails, Restart, Return
<1>10. CASE SyncCache \/ SyncSplitCache \/ Resync \/ Edit \/ UNCHANGED vars
  BY <1>3, <1>10 DEF SyncCache, SyncSplitCache, Resync, Edit, vars
<1> QED BY <1>4, <1>5, <1>6, <1>7, <1>8, <1>9, <1>10 DEF Next, Reconcile

(* The state is written once: a step that writes the object from the current
   version finds the state empty. *)
LEMMA StateStays ==
  TypeOK /\ VersionInv /\ [Next]_vars /\ placer.state # "New" =>
    /\ placer'.state = placer.state
    /\ placer'.rus = placer.rus
    /\ placer'.allocated = placer.allocated
<1> SUFFICES ASSUME TypeOK, VersionInv, [Next]_vars, placer.state # "New"
             PROVE  /\ placer'.state = placer.state
                    /\ placer'.rus = placer.rus
                    /\ placer'.allocated = placer.allocated
  OBVIOUS
<1>1. placer \in Object
  BY DEF TypeOK
<1>2. CASE Update \/ UpdateStatus
  BY <1>2 DEF Update, UpdateStatus, Conflict, VersionInv
<1>3. CASE UpdateFails
  BY <1>3 DEF UpdateFails, Conflict, VersionInv
<1>4. CASE Edit
  BY <1>1, <1>4 DEF Edit, Object
<1> QED BY <1>2, <1>3, <1>4 DEF Next, Reconcile, GetObject, SkipTopology, Place, TopologyFails,
           SkipSplit, CreateSplit, SplitAlreadyExists, CreateFails, SplitsSynced,
           UpdateStatusFails, SyncCache, SyncSplitCache, Resync, Restart, vars, server

(* The state Finished is only given to a spec whose Splits are all there. *)
LEMMA FinishedNext == IInv /\ [Next]_vars => FinishedHasSplits'
<1> SUFFICES ASSUME IInv, [Next]_vars, placer'.state = "Finished",
                    NEW r \in RUs, placer'.rus[r] # NoPosition
             PROVE  SplitName[r] \in DOMAIN splits'
  BY DEF FinishedHasSplits
<1>1. placer \in Object
  BY DEF IInv, TypeOK
<1>2. CASE placer.state # "New"
  BY <1>2, StateStays, SplitsStay DEF IInv, FinishedHasSplits
<1>3. CASE placer.state = "New"
  <2>1. placer'.state = placer.state \/ UpdateStatus
    BY <1>1 DEF Next, Reconcile, GetObject, SkipTopology, Place, TopologyFails, SkipSplit,
       CreateSplit, SplitAlreadyExists, CreateFails, SplitsSynced, Update, UpdateFails,
       UpdateStatusFails, SyncCache, SyncSplitCache, Resync, Restart, Edit, vars, server,
       SpecWritten, Object
  <2>2. UpdateStatus
    BY <1>3, <2>1
  <2>3. pc = "finish" /\ placer'.rus = placer.rus /\ obj.rv = placer.rv /\ splits' = splits
    BY <1>1, <2>2 DEF UpdateStatus, Conflict, Object
  <2> QED BY <2>3 DEF IInv, VersionInv, SyncedInv
<1> QED BY <1>2, <1>3

(* Between place and the status update nothing touches the positions or the
   count in the object in hand: Update writes the spec and reads the version. *)
LEMMA CountNext == TypeOK /\ CountInv /\ [Next]_vars => CountInv'
<1> SUFFICES ASSUME TypeOK, CountInv, [Next]_vars,
                    topologyConfig', pc' \in {"splits", "update", "finish"}
             PROVE  obj'.allocated = Allocated(obj'.rus)
  BY DEF CountInv, Allocated
<1>1. obj \in Object /\ topologyConfig
  BY DEF TypeOK, Next, Reconcile, GetObject, SkipTopology, Place, TopologyFails, SkipSplit,
         CreateSplit, SplitAlreadyExists, CreateFails, SplitsSynced, Update, UpdateFails,
         UpdateStatus, UpdateStatusFails, SyncCache, SyncSplitCache, Resync, Restart, Edit, vars, input
<1>2. CASE Place
  <2>1. PICK outcome \in outcomes :
          LET rus == [r \in RUs |-> IF outcome[r] = NoPosition THEN obj.rus[r] ELSE outcome[r]]
          IN  obj' = [obj EXCEPT !.rus = rus, !.allocated = Allocated(rus)]
    BY <1>2 DEF Place
  <2> DEFINE rus == [r \in RUs |-> IF outcome[r] = NoPosition THEN obj.rus[r] ELSE outcome[r]]
  <2>2. obj' = [obj EXCEPT !.rus = rus, !.allocated = Allocated(rus)]
    BY <2>1
  <2> HIDE DEF rus
  <2>3. obj'.rus = rus /\ obj'.allocated = Allocated(rus)
    BY <1>1, <2>2 DEF Object
  <2> QED BY <2>3
<1>3. CASE Update
  <2>1. obj'.rus = obj.rus /\ obj'.allocated = obj.allocated
    BY <1>1, <1>3 DEF Update, Object
  <2> QED BY <1>1, <1>3, <2>1 DEF Update, CountInv
<1>4. CASE SkipSplit \/ CreateSplit \/ SplitsSynced \/ SyncCache \/ SyncSplitCache \/ Edit
           \/ UNCHANGED vars
  <2>1. obj' = obj /\ pc \in {"splits", "update", "finish"}
    BY <1>4 DEF SkipSplit, CreateSplit, Missing, SplitsSynced, SyncCache, SyncSplitCache, Edit, vars
  <2> QED BY <1>1, <2>1 DEF CountInv
<1>5. CASE GetObject \/ SkipTopology \/ TopologyFails \/ SplitAlreadyExists \/ CreateFails
           \/ UpdateFails \/ UpdateStatus \/ UpdateStatusFails \/ Resync \/ Restart
  BY <1>1, <1>5 DEF GetObject, SkipTopology, TopologyFails, SplitAlreadyExists, CreateFails,
                    UpdateFails, UpdateStatus, UpdateStatusFails, Resync, Restart, Return
<1> QED BY <1>2, <1>3, <1>4, <1>5 DEF Next, Reconcile

(* The state Finished is only given together with the count of the positions
   that the spec has, and neither changes afterwards. *)
LEMMA CountsNext == IInv /\ [Next]_vars => FinishedCountsRUs'
<1> SUFFICES ASSUME IInv, [Next]_vars, placer'.state = "Finished", topologyConfig'
             PROVE  placer'.allocated = Allocated(placer'.rus)
  BY DEF FinishedCountsRUs, Allocated
<1>1. placer \in Object /\ topologyConfig
  BY DEF IInv, TypeOK, Next, Reconcile, GetObject, SkipTopology, Place, TopologyFails, SkipSplit,
         CreateSplit, SplitAlreadyExists, CreateFails, SplitsSynced, Update, UpdateFails,
         UpdateStatus, UpdateStatusFails, SyncCache, SyncSplitCache, Resync, Restart, Edit, vars, input
<1>2. CASE placer.state # "New"
  BY <1>1, <1>2, StateStays DEF IInv, FinishedCountsRUs
<1>3. CASE placer.state = "New"
  <2>1. UpdateStatus
    <3>1. placer'.state = placer.state \/ UpdateStatus
      BY <1>1 DEF Next, Reconcile, GetObject, SkipTopology, Place, TopologyFails, SkipSplit,
         CreateSplit, SplitAlreadyExists, CreateFails, SplitsSynced, Update, UpdateFails,
         UpdateStatusFails, SyncCache, SyncSplitCache, Resync, Restart, Edit, vars, server,
         SpecWritten, Object
    <3> QED BY <1>3, <3>1
  <2>2. /\ pc = "finish" /\ obj.rv = placer.rv
        /\ placer'.rus = placer.rus /\ placer'.allocated = obj.allocated
    BY <1>1, <2>1 DEF UpdateStatus, Conflict, Object
  <2> QED BY <1>1, <2>2 DEF IInv, VersionInv, CountInv
<1> QED BY <1>2, <1>3

-------------------------------------------------------------------------------
(* The parts are inductive together. *)
LEMMA Inductive == (Init => IInv) /\ (IInv /\ [Next]_vars => IInv')
<1>1. Init => IInv
  <2> SUFFICES ASSUME Init PROVE IInv
    OBVIOUS
  <2>1. TypeOK
    BY TypeInit
  <2>2. placer.rv = 1 /\ placer.state = "New" /\ cache = placer /\ obj = placer /\ pc = "idle"
    <3>1. PICK rus \in InitialRUs :
            placer = [rv |-> 1, rus |-> rus, retrigger |-> FALSE, state |-> "New", allocated |-> 0]
      BY DEF Init
    <3> QED BY <3>1 DEF Init
  <2>3. placer.rv <= placer.rv
    BY <2>2
  <2>4. VersionInv
    BY <2>2, <2>3 DEF VersionInv
  <2> QED BY <2>1, <2>2, <2>4 DEF IInv, SyncedInv, CountInv, FinishedHasSplits, FinishedCountsRUs
<1>2. IInv /\ [Next]_vars => IInv'
  BY TypeNext, VersionNext, SyncedNext, CountNext, FinishedNext, CountsNext DEF IInv
<1> QED BY <1>1, <1>2

(* The types hold for any number of RUs, faults, restarts and edits. *)
THEOREM TypeCorrect == Spec => []TypeOK
<1>1. IInv => TypeOK
  BY DEF IInv
<1> QED BY <1>1, Inductive, PTL DEF Spec

(* Whatever fails and however stale the caches, an object that says Finished
   has a Split for every RU with a position. *)
THEOREM FinishedIsComplete == Spec => []FinishedHasSplits
<1>1. IInv => FinishedHasSplits
  BY DEF IInv
<1> QED BY <1>1, Inductive, PTL DEF Spec

(* An object that says Finished counts the RUs its spec gives a position, though
   spec and status are written by two calls and either may fail. *)
THEOREM FinishedIsCounted == Spec => []FinishedCountsRUs
<1>1. IInv => FinishedCountsRUs
  BY DEF IInv
<1> QED BY <1>1, Inductive, PTL DEF Spec

(* What an earlier run reported is never touched by one made from a stale copy:
   neither the state nor the positions nor the count. *)
THEOREM ReportsStand == Spec => StaleRunsKeepReport
<1> DEFINE Kept == placer.state # "New" /\ obj.state = "New" =>
                     /\ placer'.state = placer.state
                     /\ placer'.rus = placer.rus
                     /\ placer'.allocated = placer.allocated
<1>1. IInv /\ [Next]_vars => [Kept]_vars
  BY StateStays DEF IInv
<1> QED BY <1>1, Inductive, PTL DEF Spec, StaleRunsKeepReport

-------------------------------------------------------------------------------
(* Where one and the same outcome o of Place leads from the positions the
   object was created with, however often the run is repeated. *)
Goal(start, o) ==
  IF topologyConfig
  THEN [r \in RUs |-> IF o[r] = NoPosition THEN start[r] ELSE o[r]]
  ELSE start

(* The server, the cache and the object in hand have the first positions or
   the last, and the Splits are those of the last. *)
OnTheWay(start, goal) ==
  /\ placer.rus \in {start, goal} /\ cache.rus \in {start, goal} /\ obj.rus \in {start, goal}
  /\ pc \in {"splits", "update", "finish"} => obj.rus = goal
  /\ placer.state = "Finished" => placer.rus = goal
  /\ \A r \in RUs : SplitName[r] \in DOMAIN splits =>
       goal[r] # NoPosition /\ splits[SplitName[r]] = goal[r]

GoalInv(o) == \E start \in InitialRUs : OnTheWay(start, Goal(start, o))

MatchInv == \A o : outcomes = {o} => GoalInv(o)

(* Placing again changes nothing. *)
LEMMA PlacedAgain ==
  ASSUME NEW start \in InitialRUs, NEW o, topologyConfig, Place, outcomes = {o},
         TypeOK, obj.rus \in {start, Goal(start, o)}
  PROVE  obj'.rus = Goal(start, o)
<1> DEFINE rus == [r \in RUs |-> IF o[r] = NoPosition THEN obj.rus[r] ELSE o[r]]
<1>1. obj' = [obj EXCEPT !.rus = rus, !.allocated = Allocated(rus)]
  BY DEF Place
<1>2. rus = Goal(start, o)
  BY RUsAssumption DEF Goal, RUsType, TypeOK
<1> HIDE DEF rus
<1>3. obj'.rus = rus
  BY <1>1 DEF TypeOK, Object
<1> QED BY <1>2, <1>3

(* With one outcome of Place, and names that are told apart, every step stays
   on the way to the same positions. *)
LEMMA GoalNext ==
  ASSUME NEW o, outcomes = {o}, \A q, r \in RUs : SplitName[q] = SplitName[r] => q = r,
         IInv, GoalInv(o), [Next]_vars
  PROVE  GoalInv(o)'
<1>1. PICK start \in InitialRUs : OnTheWay(start, Goal(start, o))
  BY DEF GoalInv
<1> DEFINE goal == Goal(start, o)
<1>2. topologyConfig' = topologyConfig
  BY DEF Next, Reconcile, GetObject, SkipTopology, Place, TopologyFails, SkipSplit,
         CreateSplit, SplitAlreadyExists, CreateFails, SplitsSynced, Update, UpdateFails,
         UpdateStatus, UpdateStatusFails, SyncCache, SyncSplitCache, Resync, Restart, Edit, vars, input
<1>3. SUFFICES OnTheWay(start, goal)'
  <2>1. Goal(start, o)' = goal
    BY <1>2 DEF Goal
  <2> QED BY <1>3, <2>1 DEF GoalInv
<1>4. placer \in Object /\ cache \in Object /\ obj \in Object
  BY DEF IInv, TypeOK
<1>5. goal' = goal
  BY <1>2 DEF Goal
<1>6. ~topologyConfig => goal = start
  BY DEF Goal
<1> HIDE DEF goal
<1>7. /\ placer.rus \in {start, goal} /\ cache.rus \in {start, goal} /\ obj.rus \in {start, goal}
      /\ pc \in {"splits", "update", "finish"} => obj.rus = goal
      /\ placer.state = "Finished" => placer.rus = goal
      /\ \A r \in RUs : SplitName[r] \in DOMAIN splits =>
           goal[r] # NoPosition /\ splits[SplitName[r]] = goal[r]
  BY <1>1 DEF OnTheWay, goal
<1>8. /\ placer'.rus \in {start, goal} /\ cache'.rus \in {start, goal} /\ obj'.rus \in {start, goal}
      /\ pc' \in {"splits", "update", "finish"} => obj'.rus = goal
  <2>1. SpecWritten => placer'.rus \in {placer.rus, obj.rus}
    BY <1>4 DEF SpecWritten, Object
  <2>2. CASE Place
    <3>1. obj'.rus = goal
      BY <1>7, <2>2, PlacedAgain DEF goal, IInv, Place
    <3> QED BY <1>7, <2>2, <3>1 DEF Place, server, caches
  <2>3. CASE SkipTopology
    BY <1>6, <1>7, <2>3 DEF SkipTopology, server, caches
  <2>4. CASE TopologyFails
    <3>1. obj'.rus = obj.rus
      BY <1>4, <2>4 DEF TopologyFails, Object
    <3> QED BY <1>7, <2>4, <3>1 DEF TopologyFails, server, caches
  <2>5. CASE Update
    <3>1. obj'.rus = obj.rus
      BY <1>4, <2>5 DEF Update, Object
    <3> QED BY <1>7, <2>1, <2>5, <3>1 DEF Update, caches
  <2>6. CASE UpdateFails
    BY <1>7, <2>1, <2>6 DEF UpdateFails, Return, caches
  <2>7. CASE UpdateStatus \/ Edit
    <3>1. placer'.rus = placer.rus
      BY <1>4, <2>7 DEF UpdateStatus, Edit, Object
    <3> QED BY <1>7, <2>7, <3>1 DEF UpdateStatus, Edit, Return, caches
  <2>8. CASE GetObject \/ SkipSplit \/ CreateSplit \/ SplitAlreadyExists \/ CreateFails
             \/ SplitsSynced \/ UpdateStatusFails
    BY <1>7, <2>8 DEF GetObject, SkipSplit, CreateSplit, SplitAlreadyExists, CreateFails,
       SplitsSynced, UpdateStatusFails, Missing, Return, server, caches
  <2>9. CASE SyncCache \/ SyncSplitCache \/ Resync \/ Restart \/ UNCHANGED vars
    BY <1>7, <2>9 DEF SyncCache, SyncSplitCache, Resync, Restart, vars, server, caches
  <2> QED BY <2>2, <2>3, <2>4, <2>5, <2>6, <2>7, <2>8, <2>9 DEF Next, Reconcile
<1>9. placer'.state = "Finished" => placer'.rus = goal
  <2>1. SUFFICES ASSUME placer'.state = "Finished" PROVE placer'.rus = goal
    OBVIOUS
  <2>2. CASE placer.state = "New"
    <3>1. placer'.state = placer.state \/ UpdateStatus
      BY <1>4 DEF Next, Reconcile, GetObject, SkipTopology, Place, TopologyFails, SkipSplit,
         CreateSplit, SplitAlreadyExists, CreateFails, SplitsSynced, Update, UpdateFails,
         UpdateStatusFails, SyncCache, SyncSplitCache, Resync, Restart, Edit, vars, server,
         SpecWritten, Object
    <3>2. UpdateStatus
      BY <2>1, <2>2, <3>1
    <3>3. pc = "finish" /\ obj.rv = placer.rv /\ placer'.rus = placer.rus
      BY <1>4, <2>1, <3>2 DEF UpdateStatus, Conflict, Object
    <3> QED BY <1>7, <3>3 DEF IInv, VersionInv
  <2>3. CASE placer.state # "New"
    BY <1>7, <2>1, <2>3, StateStays DEF IInv
  <2> QED BY <2>2, <2>3
<1>10. ASSUME NEW r \in RUs, SplitName[r] \in DOMAIN splits'
       PROVE  goal[r] # NoPosition /\ splits'[SplitName[r]] = goal[r]
  <2>1. CASE splits' = splits
    BY <1>7, <1>10, <2>1
  <2>2. CASE Missing /\ SplitCreated
    <3>1. pc = "splits" /\ k \in RUs /\ obj.rus[k] # NoPosition /\ obj.rus = goal
      BY <1>7, <2>2 DEF Missing
    <3>2. CASE r = k
      BY <2>2, <3>1, <3>2, CreatedSplit
    <3>3. CASE r # k
      <4>1. SplitName[r] # SplitName[k]
        BY <3>1, <3>3
      <4>2. SplitName[r] \in DOMAIN splits /\ splits'[SplitName[r]] = splits[SplitName[r]]
        BY <1>10, <2>2, <4>1, CreatedSplit
      <4> QED BY <1>7, <4>2
    <3> QED BY <3>2, <3>3
  <2>3. CASE CreateSplit \/ CreateFails
    BY <2>1, <2>2, <2>3 DEF CreateSplit, CreateFails
  <2>4. splits' = splits \/ CreateSplit \/ CreateFails
    BY DEF Next, Reconcile, GetObject, SkipTopology, Place, TopologyFails, SkipSplit,
       SplitAlreadyExists, SplitsSynced, Update, UpdateFails, UpdateStatus, UpdateStatusFails,
       SyncCache, SyncSplitCache, Resync, Restart, Edit, vars, server
  <2> QED BY <2>1, <2>3, <2>4
<1> QED BY <1>5, <1>8, <1>9, <1>10 DEF OnTheWay

(* What Place may come to is settled by its input. *)
LEMMA OutcomesStay == [Next]_vars => outcomes' = outcomes
BY DEF Next, Reconcile, GetObject, SkipTopology, Place, TopologyFails, SkipSplit,
       CreateSplit, SplitAlreadyExists, CreateFails, SplitsSynced, Update, UpdateFails,
       UpdateStatus, UpdateStatusFails, SyncCache, SyncSplitCache, Resync, Restart, Edit,
       vars, input

(* For RUs with Splits of different names: when Place can come to one result
   only, the Splits of an object that says Finished are those of its positions,
   each on the nodes given there.  That Place may come to another result when
   the run is repeated is the one way to get them out of step (the run
   placer_stale_rerun shows that way). *)
THEOREM OnePlacementMatches ==
  ASSUME \A q, r \in RUs : SplitName[q] = SplitName[r] => q = r
  PROVE  Spec => []SplitsMatchOnePlacement
<1>1. Init => MatchInv
  <2> SUFFICES ASSUME Init, NEW o, outcomes = {o} PROVE GoalInv(o)
    BY DEF MatchInv
  <2>1. PICK rus \in InitialRUs :
          placer = [rv |-> 1, rus |-> rus, retrigger |-> FALSE, state |-> "New", allocated |-> 0]
    BY DEF Init
  <2>2. OnTheWay(rus, Goal(rus, o))
    BY <2>1 DEF Init, OnTheWay
  <2> QED BY <2>2 DEF GoalInv
<1>2. IInv /\ MatchInv /\ [Next]_vars => MatchInv'
  <2> SUFFICES ASSUME IInv, MatchInv, [Next]_vars, NEW o, outcomes' = {o} PROVE GoalInv(o)'
    BY DEF MatchInv
  <2>1. outcomes = {o}
    BY OutcomesStay
  <2>2. GoalInv(o)
    BY <2>1 DEF MatchInv
  <2> QED BY <2>1, <2>2, GoalNext
<1>3. IInv /\ MatchInv => SplitsMatchOnePlacement
  <2> SUFFICES ASSUME IInv, MatchInv, NEW o, outcomes = {o} PROVE SplitsMatchPositions
    BY DEF SplitsMatchOnePlacement
  <2> QED BY DEF IInv, MatchInv, GoalInv, OnTheWay, FinishedHasSplits, SplitsMatchPositions
<1> QED BY <1>1, <1>2, <1>3, Inductive, PTL DEF Spec
===============================================================================
