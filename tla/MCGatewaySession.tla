-------------------------- MODULE MCGatewaySession --------------------------
(* Instances of GatewaySession for TLC. *)
EXTENDS GatewaySession
=============================================================================
