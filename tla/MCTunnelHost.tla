---------------------------- MODULE MCTunnelHost ----------------------------
(* Instances of TunnelHost for TLC. *)
EXTENDS TunnelHost
=============================================================================
