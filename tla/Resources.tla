------------------------------ MODULE Resources -------------------------------
(***************************************************************************)
(* The resource arithmetic of controllers/utils: what a node's resources   *)
(* are, when they suffice, and which node of the cluster they are read     *)
(* from.  CPU is counted in thousandths of a core, memory in bytes; the    *)
(* kubernetes Quantity keeps both exactly.                                 *)
(***************************************************************************)
EXTENDS Integers, Sequences

(* Quantity.Value of a quantity held in thousandths: the integer of units,
   rounded away from zero. *)
Value(q) == IF q >= 0 THEN (q + 999) \div 1000 ELSE -((999 - q) \div 1000)

(* Mutant: as much as the request is enough. *)
HasResourcesLoosely(memory, cpu, reqMemory, reqCPU) ==
  memory >= reqMemory /\ Value(cpu) >= Value(reqCPU)

(* Node.HasResources.  Strictly more than the request must be left, compared
   after rounding: with 150m requested, a node needs more than 1000m. *)
HasResources(memory, cpu, reqMemory, reqCPU) ==
  memory > reqMemory /\ Value(cpu) > Value(reqCPU)

(* The test Node.AllocateResources makes after it has subtracted. *)
Overdrawn(memory, cpu) == Value(cpu) < 0 \/ memory < 0

(* NodeListToMap.  The map holds the address of the loop variable, which after
   the loop is the last item of the list: every listed name maps to the last
   node listed. *)
NodeListToMap(list) ==
  [name \in {list[k].name : k \in DOMAIN list} |-> list[Len(list)]]

(* What the function is for: every name maps to its own node. *)
NodeListToOwnMap(list) ==
  [name \in {list[k].name : k \in DOMAIN list} |->
     list[CHOOSE k \in DOMAIN list : list[k].name = name]]
===============================================================================
