----------------------------- MODULE TunnelHost -----------------------------
(***************************************************************************)
(* One machine on which the command line client and the tray application   *)
(* are run, one after the other, in any order and any number of times:     *)
(* what one leaves in the routing table the next one finds.                *)
(***************************************************************************)
EXTENDS TunnelClient, TunnelTray

vars == <<hostVars, clientVars, trayVars>>

Init == HostInit /\ ClientInit /\ TrayInit

(* The next command of SetupRoutes or of the cleanup, for either program. *)
RouteCommand ==
    /\ Run \/ RunFails
    /\ UNCHANGED <<os, up, prog, dev, clientVars, trayVars>>

Network ==
    /\ up' = ~up
    /\ UNCHANGED <<os, prog, routeVars, dev, clientVars, trayVars>>

Next ==
    \/ ClientStep /\ UNCHANGED trayVars
    \/ TrayStep /\ UNCHANGED clientVars
    \/ RouteCommand
    \/ Network

Spec == Init /\ [][Next]_vars

(* Goroutines that can run do; while the server answers again and again a  *)
(* reconnect succeeds in the end.  Nothing obliges a user to click, a      *)
(* session to be lost or a program to be started or killed.                *)
Tray(A) == A /\ UNCHANGED clientVars

Fairness ==
    /\ WF_vars(RouteCommand)
    /\ WF_vars(Tray(Disconnect)) /\ WF_vars(Tray(SendDisconnecting)) /\ WF_vars(Tray(CloseStop))
    /\ WF_vars(Tray(Recheck)) /\ WF_vars(Tray(Drain))
    /\ WF_vars(Tray(RunConnect)) /\ WF_vars(Tray(RunCheck)) /\ WF_vars(Tray(RunTUN))
    /\ WF_vars(Tray(RunRouted)) /\ WF_vars(Tray(RunSendConnected)) /\ WF_vars(Tray(RunSetupFails))
    /\ WF_vars(Tray(RunStopped)) /\ WF_vars(Tray(RunNotStopped)) /\ SF_vars(Tray(RunReconnect))
    /\ WF_vars(Tray(RunCleaned)) /\ WF_vars(Tray(RunFinish)) /\ WF_vars(Tray(LateReport))

FairSpec == Spec /\ Fairness

---------------------------------------------------------------------------
(* Properties *)

(* The types of the parts, and when the tunnel device exists: every error  *)
(* path, cleanup and kill takes it away, and nothing else does.            *)
TypeOK == HostTypeOK /\ ClientTypeOK /\ TrayTypeOK

(* The connection to the server never runs into the tunnel it carries: as  *)
(* long as one of the routes through the device that this run added is     *)
(* there, so is the server's own route, at every command of setup and      *)
(* cleanup.  (Undoing a failed setup is left out: see UndoCmds.)           *)
NoLoop ==
    job # "undo" /\ dev /\ own \cap table \cap Halves # {} => "server" \in table

(* The tray's stopCh is closed at most once: a second close would panic.   *)
(* The state that guards Disconnect is overwritten by the run goroutine.   *)
NoDoubleClose == stop <= 1

(* A tray whose shutdown goes on to Disconnect, with the tunnel up or      *)
(* still being set up, ends only when the routes its run added are gone,   *)
(* wherever the run goroutine is then.  (Not so when a Disconnected of an  *)
(* earlier run is still on its way, which is taken for this run's, and     *)
(* when Disconnect is not called: the tunnel is being taken down already,  *)
(* or comes up between the two readings of the state.)                     *)
QuitCleans ==
    [][prog = "tray" /\ prog' = "none" /\ clean' =>
          own \cap table' \cap {"server", "low", "high"} = {}]_vars

(* Quitting the tray ends, once the wait for the tunnel has begun, even if *)
(* the tunnel goroutine is reconnecting and does not look at stopCh, if    *)
(* only the server answers again and again.                                *)
QuitEnds == []<>up => (ui = "drain" ~> ui = "off")

(* "On Linux, stale routes are cleaned up via netlink in SetupRoutes": no  *)
(* start finds the server's route of an earlier one in its way.            *)
StaleRoutesCleaned == ~(job = "setup" /\ Exists /\ Head(cmds) = Add("server"))
=============================================================================
