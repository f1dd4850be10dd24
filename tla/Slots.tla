-------------------------------- MODULE Slots --------------------------------
(***************************************************************************)
(* What the slots of a workload promise whoever runs under them: callers   *)
(* come in one at a time and only while fewer than Limit are inside, and   *)
(* they go out in any number and order.  WorkloadLimiter implements this   *)
(* specification with its semaphores; the provider calls and the child     *)
(* runs presume no more of their slots than it says.                       *)
(***************************************************************************)
EXTENDS Naturals, FiniteSets

CONSTANTS
  Callers,  \* those that ask for a slot
  Limit     \* number of slots

VARIABLE
  inside    \* the callers that hold a slot

Init == inside = {}

ComeIn(c) ==
  /\ c \notin inside /\ Cardinality(inside) < Limit
  /\ inside' = inside \union {c}

GoOut == inside' \in SUBSET inside

Next == GoOut \/ \E c \in Callers : ComeIn(c)

Spec == Init /\ [][Next]_inside
=============================================================================
