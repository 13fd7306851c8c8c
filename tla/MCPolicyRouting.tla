-------------------------- MODULE MCPolicyRouting --------------------------
(* Instances of PolicyRouting for TLC. *)
EXTENDS PolicyRouting

(* Every flow goes to the same destination, in and out of the sets. *)
MCFlowDst == [f \in Flows |-> CHOOSE d \in Dests : TRUE]
=============================================================================
