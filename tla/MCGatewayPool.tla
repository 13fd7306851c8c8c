--------------------------- MODULE MCGatewayPool ---------------------------
(* Instances of GatewayPool for TLC. *)
EXTENDS GatewayPool
=============================================================================
