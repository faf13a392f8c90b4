-------------------------- MODULE PlacementRefinement -------------------------
(***************************************************************************)
(* Placement keeps the promise of Reservation: an RU's chain counts as     *)
(* reserved once Validate has accepted it, and what is still to be charged *)
(* for it counts as charged.                                               *)
(***************************************************************************)
EXTENDS Placement

Charging == stage \in {"du", "cu", "links"} /\ rus[i].duNode # NoNode

(* What the chain being charged has still to take. *)
NodeDue(n) ==
  IF ~Charging THEN 0
  ELSE (IF n = rus[i].duNode /\ stage = "du" THEN 1 ELSE 0) +
       (IF n = rus[i].cuNode /\ stage \in {"du", "cu"} THEN 1 ELSE 0)

HopsDue == IF Charging THEN hop..Len(rus[i].path) - 1 ELSE {}

LinkDue(l) ==
  IF \E h \in HopsDue : LinkOf(rus[i], h) = l
  THEN Requirement(rus[i], CHOOSE h \in HopsDue : LinkOf(rus[i], h) = l).bandwidth
  ELSE 0

(* An RU has a chain once it is accepted, but not a candidate without a node for
   its DU, on which AllocateDU panics. *)
NoChain == [ruNode |-> NoNode, cuNode |-> NoNode, duNode |-> NoNode, path |-> <<>>]

Hosts == [k \in DOMAIN rus |-> rus[k].ruNode]
MemoryPromised == [n \in DOMAIN memory |-> memory[n] - NodeDue(n) * ReqMemory]
CPUPromised == [n \in DOMAIN cpu |-> cpu[n] - NodeDue(n) * ReqCPU]
BandwidthPromised == [l \in DOMAIN bandwidth |-> bandwidth[l] - LinkDue(l)]
Chains == [k \in DOMAIN rus |-> IF rus[k].duNode # NoNode THEN rus[k] ELSE NoChain]
Turn == IF Charging THEN i + 1 ELSE i
Phase == CASE stage = "new" -> "new"
           [] stage = "rus" -> "hosting"
           [] stage \in {"place", "search", "du", "cu", "links"} -> "placing"
           [] stage \in {"done", "ruError", "panic"} -> "over"
           [] stage \in {"allocError", "blocked"} -> "stuck"

Promise == INSTANCE Reservation WITH
  hosts <- Hosts, memory <- MemoryPromised, cpu <- CPUPromised,
  bandwidth <- BandwidthPromised, chains <- Chains, turn <- Turn, phase <- Phase

(* Charging a chain takes several steps at several nodes and links, after a
   check that was made before the first of them.  All the same a chain is
   reserved as if in one step, fits when it is, and no run stops with part of
   one charged (dsg8.go:30-83, 130-148; placement.go:86-111). *)
ImplementsReservation == Promise!Spec
===============================================================================
