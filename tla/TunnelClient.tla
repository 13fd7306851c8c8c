---------------------------- MODULE TunnelClient ----------------------------
(***************************************************************************)
(* The command line client (cmd/client/main.go): runConnect from start to  *)
(* end, and requestIPAssignment.  The connection manager is modelled in    *)
(* ConnManager; here a connection attempt succeeds while the server        *)
(* answers, and a session lasts until its reader or writer ends it.        *)
(***************************************************************************)
EXTENDS HostRoutes

CONSTANTS
    Addresses,    \* the tunnel addresses the server may assign
    NoAddress     \* none assigned yet

VARIABLES
    cpc,          \* where runConnect is
    addr,         \* the address the device is bound to
    sig           \* a signal waits in the channel

clientVars == <<cpc, addr, sig>>

ClientInit == cpc = "off" /\ addr = NoAddress /\ sig = FALSE

(* fatal: os.Exit, so no deferred call runs; a kill does the same. *)
ClientEnds ==
    /\ ProcessEnds
    /\ cpc' = "off" /\ addr' = NoAddress /\ sig' = FALSE
    /\ UNCHANGED <<os, up>>

ClientGoto(l) == cpc' = l

ClientStart ==
    /\ prog = "none"
    /\ prog' = "client"
    /\ \E otherVPN \in BOOLEAN : CleanupStaleRoutes(otherVPN)
    /\ ClientGoto("connect")
    /\ UNCHANGED <<os, up, dev, addr, sig>>

ClientConnect ==
    /\ cpc = "connect" /\ up
    /\ ClientGoto("assign")
    /\ UNCHANGED <<hostVars, addr, sig>>

(* The first address request. *)
ClientAssign ==
    /\ cpc = "assign" /\ up
    /\ addr' \in Addresses
    /\ ClientGoto("tun")
    /\ UNCHANGED <<hostVars, sig>>

ClientTUN ==
    /\ cpc = "tun"
    /\ dev' = TRUE
    /\ BeginSetup
    /\ ClientGoto("setup")
    /\ UNCHANGED <<os, up, prog, addr, sig>>

ClientRouted ==
    /\ cpc = "setup" /\ Finished("setup")
    /\ EndJob
    /\ ClientGoto("session")
    /\ UNCHANGED <<os, up, prog, dev, addr, sig>>

(* From here on a signal is queued, and looked at only between the start   *)
(* and the end of a session; before, it ends the process.                  *)
ClientSignal ==
    /\ cpc \in {"session", "redial", "reassign"}
    /\ sig' = TRUE
    /\ UNCHANGED <<hostVars, cpc, addr>>

(* The reader or the writer of the session returns: done is closed, the    *)
(* connection closed and the writer waited for.                            *)
ClientSessionLost ==
    /\ cpc = "session"
    /\ ClientGoto("redial")
    /\ UNCHANGED <<hostVars, addr, sig>>

ClientReconnect ==
    /\ cpc = "redial" /\ up
    /\ ClientGoto("reassign")
    /\ UNCHANGED <<hostVars, addr, sig>>

(* The server gives the device's address again. *)
ClientReassign ==
    /\ cpc = "reassign" /\ up
    /\ ClientGoto("session")
    /\ UNCHANGED <<hostVars, addr, sig>>

(* It gives another one: the client ends so that it is started afresh. *)
ClientReassignOther ==
    /\ cpc = "reassign" /\ up
    /\ Addresses # {addr}
    /\ ClientEnds

(* The first connection, an address request, the device or the routes      *)
(* fail.                                                                   *)
ClientFatal ==
    /\ \/ cpc \in {"connect", "assign", "tun", "reassign"}
       \/ cpc = "setup" /\ Finished("undo")
    /\ ClientEnds

ClientShutdown ==
    /\ cpc = "session" /\ sig
    /\ BeginCleanup
    /\ ClientGoto("cleanup")
    /\ UNCHANGED <<os, up, prog, dev, addr, sig>>

(* The routes are removed; the device and the connection are closed. *)
ClientDone ==
    /\ cpc = "cleanup" /\ Finished("cleanup")
    /\ ClientEnds

ClientKilled == prog = "client" /\ ClientEnds

ClientStep ==
    \/ ClientStart \/ ClientConnect \/ ClientAssign \/ ClientTUN \/ ClientRouted
    \/ ClientSignal \/ ClientSessionLost \/ ClientReconnect
    \/ ClientReassign \/ ClientReassignOther
    \/ ClientFatal \/ ClientShutdown \/ ClientDone \/ ClientKilled

(* The types; the client has a device exactly from its creation to the     *)
(* end of the process.                                                     *)
ClientTypeOK ==
    /\ cpc \in {"off", "connect", "assign", "tun", "setup", "session", "redial", "reassign",
                "cleanup"}
    /\ addr \in Addresses \cup {NoAddress}
    /\ sig \in BOOLEAN
    /\ cpc # "off" <=> prog = "client"
    /\ cpc # "off" => (dev <=> cpc \in {"setup", "session", "redial", "reassign", "cleanup"})
=============================================================================
