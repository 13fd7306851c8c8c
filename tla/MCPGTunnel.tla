----------------------------- MODULE MCPGTunnel -----------------------------
(* An instance of PGTunnel for TLC. *)
EXTENDS PGTunnel

(* Multiplexer frames whose content looks like a PostgreSQL message. *)
MCChunks == {<<"v2">>, <<"v2", "w">>}
=============================================================================
