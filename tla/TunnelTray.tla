----------------------------- MODULE TunnelTray -----------------------------
(***************************************************************************)
(* The tray application: the TunnelController (cmd/tray/tunnel.go), whose  *)
(* run goroutine keeps the tunnel, and the goroutine of onReady            *)
(* (cmd/tray/main.go), which reacts to the menu, to signals and to the     *)
(* states the controller reports on stateCh.                               *)
(***************************************************************************)
EXTENDS HostRoutes, Naturals, SequencesExt

CONSTANTS
    StateCap,     \* the capacity of stateCh
    MaxLate,      \* bound: finished run goroutines that have yet to report
    MaxUnread     \* bound: reported states not shown when the user clicks

ASSUME TrayAssumption == StateCap \in Nat /\ MaxLate \in Nat /\ MaxUnread \in Nat

VARIABLES
    ui,           \* where the goroutine of onReady is
    quitting,     \* it is in gracefulShutdown
    state,        \* TunnelController.state
    stateCh,      \* TunnelController.stateCh
    stop,         \* how often the current stopCh has been closed
    rpc,          \* where the run goroutine is
    late,         \* goroutines that have set Disconnected and not sent it yet
    clean         \* gracefulShutdown called Disconnect, and no Disconnected of
                  \* an earlier run was waiting in stateCh or yet to be sent

trayVars == <<ui, quitting, state, stateCh, stop, rpc, late, clean>>

TrayInit ==
    /\ ui = "off" /\ quitting = FALSE
    /\ state = "Disconnected" /\ stateCh = <<>> /\ stop = 0
    /\ rpc = "off" /\ late = 0 /\ clean = FALSE

(* The process ends; clean is kept for the properties. *)
TrayEnds ==
    /\ ProcessEnds
    /\ ui' = "off" /\ quitting' = FALSE
    /\ state' = "Disconnected" /\ stateCh' = <<>> /\ stop' = 0
    /\ rpc' = "off" /\ late' = 0
    /\ UNCHANGED <<os, up>>

TrayStart ==
    /\ prog = "none"
    /\ prog' = "tray"
    /\ ui' = "menu" /\ clean' = FALSE
    /\ UNCHANGED <<os, up, table, dev, own, job, cmds, quitting, state, stateCh, stop, rpc, late>>

---------------------------------------------------------------------------
(* The goroutine of onReady *)

uiOnly == <<hostVars, rpc, late, clean>>

(* Mutant: a click disconnects while connecting too, as the menu says. *)
ToggleAlways ==
    /\ ui = "menu"
    /\ Len(stateCh) <= MaxUnread
    /\ ui' = IF state = "Disconnected" THEN "connect"
             ELSE IF state \in {"Connected", "Connecting"} THEN "disconnect" ELSE "menu"
    /\ UNCHANGED <<uiOnly, quitting, state, stateCh, stop>>

(* A click on the toggle. *)
Toggle ==
    /\ ui = "menu"
    /\ Len(stateCh) <= MaxUnread
    /\ \/ state = "Disconnected" /\ ui' = "connect"
       \/ state = "Connected" /\ ui' = "disconnect"
    /\ UNCHANGED <<uiOnly, quitting, state, stateCh, stop>>

(* A reported state is shown. *)
ShowState ==
    /\ ui = "menu"
    /\ stateCh # <<>>
    /\ stateCh' = Tail(stateCh)
    /\ UNCHANGED <<uiOnly, ui, quitting, state, stop>>

(* Controller.Connect: refused unless disconnected ... *)
Connect ==
    /\ ui = "connect"
    /\ IF state # "Disconnected"
       THEN ui' = "menu" /\ UNCHANGED <<state, stop>>
       ELSE ui' = "sendConnecting" /\ state' = "Connecting" /\ stop' = 0
    /\ UNCHANGED <<uiOnly, quitting, stateCh>>

(* ... else reported, waiting for room, and the tunnel started. *)
StartRun ==
    /\ ui = "sendConnecting"
    /\ Len(stateCh) < StateCap
    /\ stateCh' = Append(stateCh, "Connecting")
    /\ rpc' = "connect"
    /\ ui' = "menu"
    /\ UNCHANGED <<hostVars, late, clean, quitting, state, stop>>

Return == ui' = IF quitting THEN "drain" ELSE "menu"

(* Controller.Disconnect *)
Disconnect ==
    /\ ui = "disconnect"
    /\ IF state \in {"Connected", "Connecting"}
       THEN ui' = "sendDisconnecting" /\ state' = "Disconnecting"
       ELSE Return /\ UNCHANGED state
    /\ UNCHANGED <<uiOnly, quitting, stateCh, stop>>

SendDisconnecting ==
    /\ ui = "sendDisconnecting"
    /\ Len(stateCh) < StateCap
    /\ stateCh' = Append(stateCh, "Disconnecting")
    /\ ui' = "closeStop"
    /\ UNCHANGED <<uiOnly, quitting, state, stop>>

CloseStop ==
    /\ ui = "closeStop"
    /\ stop' = stop + 1
    /\ Return
    /\ UNCHANGED <<uiOnly, quitting, state, stateCh>>

ShutdownDisconnects ==
    /\ ui' = "disconnect"
    /\ clean' = (~Contains(stateCh, "Disconnected") /\ late = 0)

(* A signal or Quit: gracefulShutdown waits only for a tunnel that is up   *)
(* or being set up.  It asks for the state twice, locking each time:       *)
(* first whether it is Connected ...                                       *)
Quit ==
    /\ ui = "menu"
    /\ quitting' = TRUE
    /\ IF state = "Connected" THEN ShutdownDisconnects
                              ELSE ui' = "recheck" /\ clean' = FALSE
    /\ UNCHANGED <<hostVars, state, stateCh, stop, rpc, late>>

(* ... then whether it is Connecting, which it may no longer be.  If not,  *)
(* the program quits at once, whatever the run goroutine is doing.         *)
Recheck ==
    /\ ui = "recheck"
    /\ IF state = "Connecting"
       THEN ShutdownDisconnects /\ UNCHANGED <<hostVars, quitting, state, stateCh, stop, rpc, late>>
       ELSE TrayEnds /\ clean' = FALSE

(* Mutant: the first state reported is taken for the last. *)
DrainOne ==
    /\ ui = "drain"
    /\ stateCh # <<>>
    /\ IF Head(stateCh) # "Connected" THEN TrayEnds /\ UNCHANGED clean
       ELSE /\ stateCh' = Tail(stateCh)
            /\ UNCHANGED <<uiOnly, ui, quitting, state, stop>>

(* It reads the reported states up to a Disconnected, and quits. *)
Drain ==
    /\ ui = "drain"
    /\ stateCh # <<>>
    /\ IF Head(stateCh) = "Disconnected" THEN TrayEnds /\ UNCHANGED clean
       ELSE /\ stateCh' = Tail(stateCh)
            /\ UNCHANGED <<uiOnly, ui, quitting, state, stop>>

---------------------------------------------------------------------------
(* The run goroutine *)

runOnly == <<ui, quitting, stop, clean>>
noReport == <<state, stateCh, late>>

RunGoto(l) == rpc' = l

(* The second half of setState: the state is dropped if there is no room. *)
Reported(s) == IF Len(stateCh) < StateCap THEN Append(stateCh, s) ELSE stateCh

(* ConnManager.Connect *)
RunConnect ==
    /\ rpc = "connect"
    /\ \/ up /\ RunGoto("check")
       \/ RunGoto("finish")
    /\ UNCHANGED <<hostVars, runOnly, noReport>>

(* Stopped during connect? *)
RunCheck ==
    /\ rpc = "check"
    /\ RunGoto(IF stop > 0 THEN "finish" ELSE "tun")
    /\ UNCHANGED <<hostVars, runOnly, noReport>>

RunTUN ==
    /\ rpc = "tun"
    /\ \/ dev' = TRUE /\ BeginSetup /\ RunGoto("setup")
       \/ RunGoto("finish") /\ UNCHANGED <<dev, routeVars>>
    /\ UNCHANGED <<os, up, prog, runOnly, noReport>>

(* setState(Connected), whatever the state has become; in two steps. *)
RunRouted ==
    /\ rpc = "setup" /\ Finished("setup")
    /\ EndJob
    /\ state' = "Connected"
    /\ RunGoto("sendConnected")
    /\ UNCHANGED <<os, up, prog, dev, runOnly, stateCh, late>>

RunSendConnected ==
    /\ rpc = "sendConnected"
    /\ stateCh' = Reported("Connected")
    /\ RunGoto("session")
    /\ UNCHANGED <<hostVars, runOnly, state, late>>

(* Mutant: the error path does not close the device. *)
RunSetupFailsKeepsTUN ==
    /\ rpc = "setup" /\ Finished("undo")
    /\ job' = "idle"
    /\ RunGoto("finish")
    /\ UNCHANGED <<os, up, prog, table, dev, own, cmds, runOnly, noReport>>

(* The routes could not be set up: the device and the connection are       *)
(* closed.                                                                 *)
RunSetupFails ==
    /\ rpc = "setup" /\ Finished("undo")
    /\ DeviceGone
    /\ job' = "idle"
    /\ RunGoto("finish")
    /\ UNCHANGED <<os, up, prog, own, cmds, runOnly, noReport>>

(* The session's reader or writer returns; the connection is closed and    *)
(* the writer waited for.                                                  *)
RunSessionLost ==
    /\ rpc = "session"
    /\ RunGoto("lost")
    /\ UNCHANGED <<hostVars, runOnly, noReport>>

(* stopCh is looked at in a session and between two, not during Reconnect. *)
RunStopped ==
    /\ rpc \in {"session", "lost"}
    /\ stop > 0
    /\ BeginCleanup
    /\ RunGoto("cleanup")
    /\ UNCHANGED <<os, up, prog, dev, runOnly, noReport>>

RunNotStopped ==
    /\ rpc = "lost"
    /\ stop = 0
    /\ RunGoto("redial")
    /\ UNCHANGED <<hostVars, runOnly, noReport>>

RunReconnect ==
    /\ rpc = "redial" /\ up
    /\ RunGoto("session")
    /\ UNCHANGED <<hostVars, runOnly, noReport>>

(* The deferred calls: the routes are gone, the device is closed ... *)
RunCleaned ==
    /\ rpc = "cleanup" /\ Finished("cleanup")
    /\ DeviceGone
    /\ job' = "idle"
    /\ RunGoto("finish")
    /\ UNCHANGED <<os, up, prog, own, cmds, runOnly, noReport>>

(* Mutant: the last state is set and not reported. *)
RunFinishSilently ==
    /\ rpc = "finish"
    /\ state' = "Disconnected"
    /\ RunGoto("off")
    /\ UNCHANGED <<hostVars, runOnly, stateCh, late>>

(* ... and setState(Disconnected) ends it, again in two steps: a new run   *)
(* may have been started when the state is sent.                           *)
RunFinish ==
    /\ rpc = "finish"
    /\ late < MaxLate
    /\ state' = "Disconnected"
    /\ late' = late + 1
    /\ RunGoto("off")
    /\ UNCHANGED <<hostVars, runOnly, stateCh>>

LateReport ==
    /\ late > 0
    /\ stateCh' = Reported("Disconnected")
    /\ late' = late - 1
    /\ UNCHANGED <<hostVars, runOnly, state, rpc>>

TrayKilled == prog = "tray" /\ TrayEnds /\ clean' = FALSE

TrayStep ==
    \/ TrayStart \/ Toggle \/ ShowState \/ Connect \/ StartRun
    \/ Disconnect \/ SendDisconnecting \/ CloseStop \/ Quit \/ Recheck \/ Drain
    \/ RunConnect \/ RunCheck \/ RunTUN \/ RunRouted \/ RunSendConnected \/ RunSetupFails
    \/ RunSessionLost \/ RunStopped \/ RunNotStopped \/ RunReconnect
    \/ RunCleaned \/ RunFinish \/ LateReport \/ TrayKilled

States == {"Disconnected", "Connecting", "Connected", "Disconnecting"}

(* The types; the tray has a device exactly while its run goroutine is     *)
(* between creating and closing one.                                       *)
TrayTypeOK ==
    /\ ui \in {"off", "menu", "connect", "sendConnecting", "disconnect", "sendDisconnecting",
               "closeStop", "recheck", "drain"}
    /\ quitting \in BOOLEAN
    /\ state \in States
    /\ stateCh \in Seq(States) /\ Len(stateCh) <= StateCap
    /\ stop \in Nat
    /\ rpc \in {"off", "connect", "check", "tun", "setup", "sendConnected", "session", "lost",
                "redial", "cleanup", "finish"}
    /\ late \in 0..MaxLate
    /\ clean \in BOOLEAN
    /\ ui # "off" <=> prog = "tray"
    /\ rpc # "off" => prog = "tray"
    /\ ui # "off" => (dev <=> rpc \in {"setup", "sendConnected", "session", "lost", "redial", "cleanup"})
=============================================================================
