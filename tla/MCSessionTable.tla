--------------------------- MODULE MCSessionTable ---------------------------
(* Instances of SessionTable for TLC. *)
EXTENDS SessionTable

(* Asked for: anything, a host and the broadcast address, which is refused *)
(* as the network, the server and every outside address are.              *)
MCPreferred == {Unspecified, 2, Size - 1}

=============================================================================
