--------------------------- MODULE MCConnManager ---------------------------
(* Instances of ConnManager for TLC. *)
EXTENDS ConnManager
=============================================================================
