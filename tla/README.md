# A model of the oai-k8s operator

oai-k8s deploys disaggregated 4G base stations on Kubernetes. A `SplitsPlacer`
lists radio units (RUs) on nodes of a transport network; for each the operator
chooses a node for the central unit (CU), one for the distributed unit (DU) and
a path from the core to the RU, and creates a `Split`. A second reconciler makes
each `Split` real: config maps, Deployments, status. The TLA+ modules here model
that operator, TLC checks them on small instances, and TLAPS proves their type
invariants, safety properties and refinement for instances of any size.

## The system

| part | source | state it keeps | operations |
|---|---|---|---|
| path search | `algorithm/placement.go` `findPathsTo` | queue of paths, visited nodes, paths found | outer loop, inner loop over a node's Links |
| resources | `utils/types.go`, `utils/k8s_getters.go` | available memory and CPU of a node, bandwidth of a link | `HasResources`, `AllocateResources`, `HasBandwidth`, `NodeListToMap` |
| placement run | `algorithm/placement.go`, `algorithm/dsg8.go` | the graph with its resources, `spec.RUs` being filled in | `NewPlacementBFS`, `Place`, `Validate`, `validateNetwork`, `AllocateResources` |
| SplitsPlacer reconciler | `splitsplacer_controller.go` | none of its own: the `SplitsPlacer`, the `Split`s, caches, work queue | `Reconcile`, `syncTopology`, `place`, `syncSplits`, `updateStatus` |
| Split reconciler | `split_controller.go` | none of its own: the `Split`, config maps, Deployments, pods | `Reconcile`, `syncConfigMaps`, `syncDeployments`, `syncStatus` |
| replacer | `replacer/cmd/main.go` | the values read so far | polls the values file until it is complete, then fills in the template |
| manager | `operator/main.go` | leader lease, caches | starts the two reconcilers with one worker each |
| test harness | `tests/` | files of measurements | creates objects, waits for pods, counts hops |

How they interact: the SplitsPlacer reconciler calls the placement run on a
topology read from a config map and on the listed nodes; the run calls the path
search. The reconcilers meet only at the API server, through `Split` objects:
the one creates them, the other follows them. What they make carries the uid of
its owner, by which the garbage collector removes it, but they look it up by
name. The Split reconciler and the replacer meet through the values config map
mounted into each pod. All reads of
the manager come from caches that lag; all writes are checked against the
version they were made from.

What is hard here: Go ranges over maps in random order (Links, positions,
pieces, topology), so two runs on the same input may differ; a check is made
before and apart from the allocation it is for; an allocation subtracts first
and does not give back; a queue blocks when empty; runs are repeated after
errors, restarts and stale reads; spec and status are two writes; pods come and
go between the reads that put a config map together; an object found by name may
belong to one of that name that has been deleted; a config map outlives the pods
whose addresses it holds. `PROJECT.json` lists these
hazards with their lines and the properties that would catch them.

What makes each part correct:

- path search: it ends; it returns routes to the node; no shortest one is lost.
- placement run: nothing is overbooked; what is subtracted is what the chains
  need; a chain keeps its hauls' requirements; only an RU that cannot be served
  is left out; the run returns.
- SplitsPlacer reconciler: `Finished` means the Splits are there and
  `allocatedRUs` is right; no run made from an old copy undoes what a later one
  reported; there is a state in the end.
- Split reconciler: no pod waits for a config map that does not come; in the end
  values and status are those of the running pods, unless a failed pod stays
  listed beside its successor.
- both together: a Split is served whatever was there under its name before, and
  nothing is left of one that is gone.
- replacer: it ends, and configures a piece with the addresses of the pods there
  are.

## Modules

| module | models | composes |
|---|---|---|
| `PathSearch` | `findPathsTo`: `StartSearch`, `Dequeue` (outer loop), `Explore(n)` (inner loop, for any neighbour next) | |
| `Resources` | the resource tests, with rounding, and `NodeListToMap` | |
| `Placement` | one placement run | `PathSearch` by `INSTANCE`, `Resources` |
| `SplitsPlacer` | `Reconcile` of one SplitsPlacer, API server, caches, queue | |
| `SplitController` | `Reconcile` of one Split, API server, pods | |
| `Reservation` | abstract: every RU gets a chain, taken whole and fitting, or none | `Resources` |
| `PlacementRefinement` | the mapping under which a placement run is a `Reservation` | `Placement`; `Reservation` by `INSTANCE ... WITH` |
| `Replacer` | the replacers of the three pods, the kubelet's mounts | `SplitController` |
| `Lifecycle` | both `Reconcile`s, owners, deletion, garbage collector, for one name | |
| `PathSearchProofs`, `SplitsPlacerProofs`, `SplitControllerProofs`, `LifecycleProofs` | theorems about the module of the name | that module |
| `PlacementProofs` | theorems about one placement run | `Placement`; `PathSearchProofs` by `INSTANCE` |
| `PlacementAccountingProofs` | what nodes, links and hauls add up to | `PlacementProofs` |
| `PlacementRefinementProofs` | the refinement | `PlacementRefinement`, `PlacementProofs` |
| `ReplacerProofs` | theorems about the replacers | `Replacer`, `SplitControllerProofs` |
| `MCPathSearch`, `MCPlacement`, `MCSplitsPlacer`, `MCSplitController`, `MCReplacer`, `MCLifecycle` | instances for TLC | |

Operators named as a mutant in their comment are not part of the model: each is
a plausible mistake in the definition that follows it, and shows that the
property listed with it in `PROJECT.json` can fail.

### PathSearch

`root`, `links` are the graph; `links[n]` is `nodes[n].Links`. `queue`,
`visited`, `pathsToNode`, `path` are the variables of the function and `pending`
is what its inner loop has still to range over. A node is marked visited when it
is dequeued, so a path can reach a node twice over; this is why the properties
speak of all shortest paths, and of paths one hop longer. `cachePaths` is never
written, so the lookup in it is left out.

### Placement

`stage` says where the run is; `memory`, `cpu` and `bandwidth` are what is left
of nodes and links; `rus` is `spec.RUs`. Node resources are those of the node
listed last, for every node: `NodeListToMap` stores the address of the loop
variable, and go 1.13/1.14 has one such variable per loop. The loop over RUs is
`FindPaths`, `SearchStep` (steps of `PathSearch`), then `Accept` or `Reject`.
`Accept` picks any valid candidate, since `positions` is a map. Then come
`AllocateDU`, `AllocateCU` and one `AllocateLink` for each hop. Each panic of the
code is an action to the stage "panic", a Get on the empty queue leads to
"blocked". A run may really stop there or at its end, so deadlock is not checked.

`Value` is `Quantity.Value`: CPU is in thousandths and is compared after
rounding away from zero. Bandwidth and delay are integers where the code has
`float32`: rounding of float additions is not modelled.

### Reservation and PlacementRefinement

`Reservation` is what a caller of `Place` may rely on, in six actions: `HostRU`
charges the node an RU is on; `Reserve` gives the RU whose turn it is a chain, of
which the action says nothing but that it crosses no link twice, and takes CU, DU
and all its links from what is left in one step, in which everything fits;
`Reject` takes nothing. The code checks in `Validate` and takes later, node by
node and hop by hop. The mapping therefore counts what the chain at hand has
still to take (`NodeDue`, `LinkDue`) as taken already: `Accept` is `Reserve`, and
`AllocateDU`, `AllocateCU` and every `AllocateLink` are stutters. A panic or the
end is `Stop`. An allocation error or the blocking queue is mapped to a phase that
`Reservation` does not have: a run that got there would not implement it.

### SplitsPlacer

`placer` is the object at the server with its version, `cache` what the manager
reads, `obj` the copy that Reconcile works on. A write made from another version
than the server's is refused. `Update` writes the spec, `UpdateStatus` the
status, as the CRD has a status subresource; the answer to `Update` gives `obj`
its new version. What `Place` may return depends on the topology and the RUs, which
do not change: `outcomes`, one of the sets in `Outcomes`; which results they
are is the business of `Placement`. An RU that `Place` rejects keeps the position
it had. Calls fail before or after they reach the server (`MaxFaults`), the
manager restarts (`MaxCrashes`), others write the object (`MaxEdits`): they set
or clear `retrigger`, the field `Retrigger` of the spec, which no code reads.

An allocation error half-way through `place` is left out of `TopologyFails`,
because `NeverOverbooked` proves that there is none once the RUs are charged.

### SplitController

A step of the worker is a call to the API server or a list from the cache:
`GetSplit`, `SyncTemplates` for the template config maps, then for every piece in
any order `GetValues`, one `ReadAddress` for each pod its values name, and
`WriteValues`; then `SkipDeployment` or `CreateDeployment`; then `ReadStatus` for
CU, DU and RU and `UpdateStatus`. Between any two of them pods are created, start
with an address of their node, fail, stay listed for a while and are removed.
There is no queue: Reconcile asks to be called again after every success and
every error, so it is always enabled when idle.

`pods` is what the cache of pods shows; the pods do not depend on the worker
other than through objects, so their own lead over the cache need not be
modelled. The caches of config maps, Deployments and Splits are not variables: a
read that is behind makes the following create or update fail, which is one of
the `MaxFaults` failures. `content` holds the values a piece gets; `CoreIP`, which
is copied, is left out.

### Replacer

`mounted[c]` is the values file as the pod of piece `c` sees it, `config[c]` what
the replacer has written. `getCUContent`, `getDUContent` and `getRUContent` are
loops over one read of the file; a turn that leaves a value empty changes
nothing, so only the last turn is an action: `Replace`, with `replacer`, which
writes the configuration. The kubelet mounts the values when it starts the
container (`StartContainer`, which is `StartPod` of `SplitController`), brings
the file up to date as a whole some time after each change (`RefreshMount`), and
starts a container again, in the same pod (`RestartContainer`). All other steps
are those of `SplitController`. Fields keep the value of an earlier turn, but the
file has all of them in every version, so a turn gives them all anew.

### Lifecycle

Objects of one name follow one another: `placer` and `split` hold the uid of the
one there is, `owner` that of the Split each Deployment or config map was made
for. What matters of the two `Reconcile`s is kept: a SplitsPlacer with a state is
left alone; `SyncSplits` is content with a Split of the name whosever it is;
`GetValues`, `UpdateValues` and `SyncDeployment` find objects by name, `Created`
makes the Split in hand the owner, an update leaves the owner as it is; a write
to something collected meanwhile is refused. `CollectSplit` and `Collect` remove
what has lost its owner at any moment between these steps. `queued` is the
Split's key: set by a new Split and by every return but that of a Split not
found. Addresses, pods and versions are in the other modules; of the content only
`coreIP`, the one part copied from the Split, is kept.

## Runs

| run | instance | what it shows |
|---|---|---|
| `path_search` | all graphs over 5 nodes; up to renaming, the core is the first and the target it or the second | the search ends; routes only, all shortest, at most a hop longer, none twice |
| `placement` | five nodes: a diamond of two routes with scarce links, a line with parallel links, topologies with no core, two cores or a dangling link; node lists with too little, just too little and ample CPU, or lacking a node; up to three RUs | accounting, no overbooking, requirements, return; an RU is passed over only when no shortest path can carry it at that step; a run implements `Reservation` |
| `placement_crash` | an RU on any node | violated: `Place` panics near the core |
| `placement_own_node` | two RUs, a poor CU node listed before a rich one | violated: the CU's node cannot run it |
| `placer` | two RUs, inputs with four results of `Place` and with one, 2 failing calls, 1 restart, 1 foreign write | what `Finished` promises; stale runs leave a report alone; a state in the end; with one result Splits match positions however often the run is repeated |
| `placer_retrigger` | one result of `Place`, 1 foreign write, no failures | violated: setting `Retrigger` places nothing |
| `placer_stale_rerun` | two results of `Place`, no failures | violated: a stale second run adds a Split |
| `split` | a new Split and 1 failing call; or a running one with 1 pod that fails and 1 restart, or with 1 Deployment removed and 1 edit | config before Deployments; values and status follow the pods, once no failed pod is listed beside its successor |
| `replacer` | the pods of a new Split on three nodes, 1 container started again | every replacer ends, with the addresses of the pods there are |
| `replacer_successor` | three configured pods, 1 fails | violated: its successor takes the failed pod's address for its own |
| `lifecycle` | 2 SplitsPlacers and 2 Splits of a name, 2 steps of users on Splits, 1 run cut short; CU and RU | a Split is served, nothing else is left |
| `placer_recreated` | 2 SplitsPlacers of a name, nothing fails | violated: Finished, and the Split is collected |

Why the bounds are enough. Five nodes are enough for two routes that differ
in length and meet before the target, which is where late marking matters; they
also are core, CU, DU, RU and an alternative to one of them. Two RUs compete for a node or
a link, a third comes after a rejection. With two RUs a run of `syncSplits` can
fail between them; two failures let a retry fail as well, on the other write.
In `SplitController` the three pieces are those of the code; a node has one
address more than pods so that a new pod can get another one, or the same. More
failures repeat what one does, since nothing but the objects survives Reconcile.
New and running Splits are initial states of one run, and each kind of trouble
meets the state it is about: after `UpdateStatus` a Split that came up is one of
the running ones. In the `replacer` run nothing fails, as its invariant requires;
`replacer_successor` shows what happens otherwise. In `Lifecycle` two of each name
are a predecessor and a successor; pieces do not depend on one another there, so
the CU, whose values hold the CoreIP, and one other stand for all.

Fairness. `PathSearch` and `Placement` are sequential calls: they take a step
while there is one. In `SplitsPlacer` the one worker is fair, and so are the
watches and the informer's resync, by which an object left without a state is
looked at again. In `SplitController` the worker is fair because
every return asks for another call (`RequeueAfter` or an error). The cluster is
fair in creating and starting the pods of a Deployment, and not in removing failed
ones: a ReplicaSet leaves an evicted pod where it is, and the pods of a lost node
may stay listed too. While a failed pod is listed beside its successor, `getPod`
returns an error and ends every run (`split_controller.go:470-472`): values and
status stay what they were, for ever if nobody removes the pod. `ValuesFollowPods`
and `StatusFollowsPods` therefore say what happens if from some time on no piece
has two pods listed (`OnePodListed`): then the reconciler recovers, from
whatever moment it was cut off at.
In `Replacer` each running replacer is
fair, and so is the kubelet in starting pods and in bringing each mount up to date.
In `Lifecycle` the garbage collector gets to every object it may remove, and both
workers run; that an unfinished SplitsPlacer is looked at again is the informer's
resync, as in `SplitsPlacer`. No failure, restart, edit, creation or deletion is fair. `PlacerSettles` holds for inputs on which
`Place` does not panic for ever; restarts are bounded.

## Proofs

Every type invariant and every safety invariant or action property of a passing
run is a theorem, and so is the refinement. Assumptions are those the modules
make of their constants: a finite set of nodes, no core node outside the
topology, natural requirements and capacities, well-typed inputs. The two
theorems that assume more say so below.

**Path search** (`PathSearchProofs`).

- `RoutesFound`: every path found is a route to the node. In the invariant
  `IInv` every path on the queue, and the current one, is a route, all its nodes
  have been visited, the last one of a queued path apart, and the neighbours
  pending are linked to the end of the current path. So a neighbour that is not
  visited is not on the path it extends.
- `ShortestFound`, `NearlyShortestOnly`: completeness, although nodes are marked
  late and Links come in any order. `BreadthInv` adds that paths leave the queue
  in the order of their lengths, of which it holds two at most (`OrderInv`); that
  what has been visited is no further away than the current path is long
  (`VisitedInv`); that each shortest route is being followed by a path on the
  queue or by the current one, or has been followed to its end (`CoverInv`); that
  nothing queued or found is more than a hop too long (`NearInv`); and that no
  path is queued twice, since what is still to be prolonged has not been
  (`DistinctInv`).

**Placement run** (`PlacementProofs`, `PlacementAccountingProofs`,
`PlacementRefinementProofs`).

- `NeverOverbooked`, `NeverWaits`. `NoOverbooking` is not inductive: one needs
  that while a chain is being charged, what `Validate` saw of the hops not charged
  yet (`ChainInv`) and of the DU and the CU (`HostInv`) still holds. Charging one
  leaves the others alone because the path is a route, which `SearchInv` takes
  over from `PathSearchProofs`, and because different hops of a route use
  different links (`GraphInv`). That a strict comparison of rounded values implies
  that the exact subtraction stays above zero is a lemma about `Value`.
  `NeverWaits` follows from the path passing each of core, CU and DU once.
- `RejectedForCause`: at the step that passes over an RU no shortest path to it
  is valid. The search has found them all (`ShortestFound`) and the loop over
  `positions` has tried what was found. This is said of the step. At the end of
  the run it may be false: a later chain can take the resources of a DU node,
  `NetworkValid` then puts the DU further along the path, and a haul that was
  too slow with the first choice fits with the second. An example has seven nodes.
- `NodesBalance`: a node is charged once for each RU, DU and CU on it. The
  proof needs where a run starts from (`StartInv`), that RUs still to come have no
  chain (`UnplacedInv`) and that a charged DU is on the path (`DUInv`).
- `LinksBalance`: a link has its capacity less what the charged hops need. Each
  step adds one hop of a chain to one link, and different hops of a route use
  different links; so of all sums one changes, by one term.
- `ChainsInTime`: each haul of a placed chain keeps its latency. `validateNetwork`
  starts a new sum at every placement node, and the proof goes along the path hop
  by hop: the running sum is that of the delays of the haul so far.
- `PlacementReserves`: a run implements `Reservation`, step by step. `Accept` is
  `Reserve`, in which everything fits because `Validate` has just seen that it
  does and due and left are told apart by `ChainInv`; every charging step moves an
  amount from due to charged and is a stutter; the loop over RUs that charges
  their nodes is `HostRU`; no step reaches an allocation error or a blocked queue.

Sums are the library's `SumFunction`, a fold. What the proofs need of it (a sum
splits at any element; equal terms, equal sums; it is bounded by a bound on its
parts) is proved from its recursion by taking a smallest subset for which a
statement fails, as induction over operators is not available.

**SplitsPlacer reconciler** (`SplitsPlacerProofs`), for any number of RUs,
failures, restarts and writes.

- `FinishedIsComplete`, `ReportsStand`: `VersionInv` says that a version is
  written once, so who holds the current version holds the current object, and
  that a run in progress on it started from an empty state; so a run that still
  holds an empty state when the server has another one is refused every write.
  `SyncedInv` says that the RUs `syncSplits` has passed have Splits.
- `FinishedIsCounted`: spec and status are two writes, yet `Finished` goes with
  the right count. `CountInv`: the object in hand counts its own RUs from `Place`
  on, and a status is only accepted on the version its spec was written with.
- `OnePlacementMatches`: where `Place` can come to one result only, Splits match
  positions, assuming that RUs have Splits of different names. The positions of
  server, cache and object in hand are the first ones or the last ones, and
  Splits are made from the last ones only. That there is one result is the point,
  and part of the property: without it the run `placer_stale_rerun` is the
  counterexample. It is so where there is no choice between paths.

**Split reconciler and replacer** (`SplitControllerProofs`, `ReplacerProofs`), for
any nodes and addresses and any bounds.

- `DeployedConfigured`: that a Deployment has its config maps needs what the
  run that creates it has done before: `SyncedInv` says that from the loop over
  the values on all templates are there, and the values of every piece the loop
  neither has still to visit nor is at. No step removes a config map
  (`ConfigKept`), so a Deployment keeps them.
- `ConfigsNamePods`: a configuration has the addresses of the pods there are,
  assuming that no pod fails and no Deployment is removed. Calls may fail, manager
  and containers restart and the Split be edited any number of times. An address
  read is right and stays right, since a piece has one pod and a pod keeps its
  address (`PodsInv`); so it is right in the content being put together, in the
  config map, in the mounted file and in the configuration (`AddressesInv`). With
  a pod that fails it is false, as `replacer_successor` shows.

**Types** are `TypeCorrect` in five of the modules and `PodTypesCorrect` in
`ReplacerProofs`. The types say something of the state where it can go wrong:
a configuration lacks none of its addresses (`PodTypeOK`), a run has a Split in
hand that there has been (`Lifecycle`).

Model-checked only is liveness: `SearchTerminates`, `PlaceReturns`,
`PlacerSettles`, `ValuesFollowPods`, `StatusFollowsPods`, `AllConfigured`,
`SplitIsServed` and `NothingLeft`. It rests on fairness, whose `ENABLED` the
proof system does not handle. The six properties that the code violates are
checked by TLC to be so.

## Where code and documentation disagree

The six violated runs, each with its line in `PROJECT.json` under "findings":
`Place` panics on RUs near the core; the resources checked are those of the node
listed last; a stale second run adds Splits; a pod that replaces a failed one
configures itself with the failed one's address; a SplitsPlacer created again
before the old one's Split is collected says Finished and loses the Split; the
field `Retrigger`, documented as "Retrigger placement", is read by nothing, and an
object with a state is never placed again.

## Not modelled

The manager's wiring and leader election (one replica; its start and stop are the
`Restart` actions), scheme registration and generated deep copies, manifests,
events, logs, the wording of errors, images, ports and resource limits of pods,
the Python test harness, which drives a cluster and measures it, and
`float32` rounding. Resources of one placement run are not shared with the next:
the code reads what a node can allocate, never what earlier runs gave away. `Placement`
starts from RUs without positions. A run repeated because the spec was written
and the status was not starts with positions, and an RU it rejects keeps a chain
for which it charges nothing; `SplitsPlacer` keeps that position too (`Place`), but
has no resources, so that what such a chain does to the others is not covered. A
CoreIP left empty is an input with which the CU's replacer never ends.

## Plan

1. The safety that `SplitIsServed` and `NothingLeft` rest on, as invariants of
   `Lifecycle` of their own: what a run in progress may still do to objects of an
   earlier owner, checked and proved.
2. The hazards of `PROJECT.json` without a property: two SplitsPlacers on the same
   nodes, and an edit of the Split's nodes, if the repository comes to say what
   should happen.
3. `RejectedForCause` and `ChainsInTime` with `float32` sums in place of integers.
