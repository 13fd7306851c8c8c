-------------------------- MODULE TunnelHostProofs --------------------------
(***************************************************************************)
(* Proofs about TunnelHost: the types of its parts, that the tray's stopCh *)
(* is closed at most once, that the connection to the server never runs    *)
(* into its own tunnel, and that quitting removes the routes.              *)
(***************************************************************************)
EXTENDS TunnelHost, TLAPS

(* A command that removes something. *)
Removal == [op : {"del"}, r : Routes]

(* At most one program runs, and the commands under way belong to the      *)
(* place where it waits for them.                                          *)
Placed ==
    /\ job = "idle" => cmds = <<>>
    /\ job \in {"setup", "undo"} => cpc = "setup" \/ rpc = "setup"
    /\ job = "cleanup" => cpc = "cleanup" \/ rpc = "cleanup"
    /\ job \in {"undo", "cleanup"} => cmds \in Seq(Removal)

(* There is a run goroutine exactly from StartRun to RunFinish: the next   *)
(* one is started only when the state shows that there is none.            *)
OneRun ==
    /\ rpc = "off" <=> state = "Disconnected" \/ ui = "sendConnecting"
    /\ ui = "sendConnecting" => state = "Connecting"

(* Where the run goroutine will not set the state to Connected again. *)
Serving == {"sendConnected", "session", "lost", "redial"}
Ending == {"cleanup", "finish", "off"}
Settled == rpc \in Serving \cup Ending
Downward == state \in {"Disconnecting", "Disconnected"}

(* stopCh is closed at most once.  A click gets to Disconnect only with    *)
(* the tunnel up, after which nothing but a new Connect leaves             *)
(* Disconnecting for anything but Disconnected.  Quitting may overtake the *)
(* connection attempt, which then overwrites the state, but it never       *)
(* returns to the menu.                                                    *)
StopOnce ==
    /\ stop \in {0, 1} /\ (ui \in {"off", "sendConnecting"} => stop = 0)
    /\ quitting => ui \in {"recheck", "disconnect", "sendDisconnecting", "closeStop", "drain"}
    /\ ui \in {"recheck", "drain"} => quitting
    /\ state = "Connected" /\ stop = 0 => rpc \in Serving
    /\ stop > 0 /\ ui \in {"menu", "connect", "recheck", "disconnect"} => Settled /\ Downward
    /\ ui \in {"disconnect", "sendDisconnecting", "closeStop"} /\ ~quitting => Settled
    /\ ui \in {"sendDisconnecting", "closeStop"} => stop = 0 /\ (quitting \/ Downward)

AddHalves == {Add("low"), Add("high")}

(* Whatever is still to come in SetupRoutes, a route through the tunnel is *)
(* added only behind the server's, which is not removed any more.          *)
SetupOrder ==
    /\ own \cap Halves # {} =>
          "server" \in table /\ \A j \in 1..Len(cmds) : cmds[j] # Del("server")
    /\ \A i, j \in 1..Len(cmds) :
          i < j /\ cmds[i] \in AddHalves \cup {Add("server")} => cmds[j] # Del("server")
    /\ \A j \in 1..Len(cmds) : cmds[j] \in AddHalves =>
          \/ \E i \in 1..Len(cmds) : i < j /\ cmds[i] = Add("server")
          \/ "server" \in table /\ \A i \in 1..Len(cmds) : cmds[i] # Del("server")

(* What is still to come in the cleanup removes the halves before the      *)
(* server's route.                                                         *)
CleanupOrder ==
    \A j \in 1..Len(cmds) : cmds[j] = Del("server") =>
        \A r \in Halves \cap table : \E i \in 1..Len(cmds) : i < j /\ cmds[i] = Del(r)

RoutesInOrder ==
    /\ job = "setup" => SetupOrder
    /\ job = "cleanup" => CleanupOrder
    /\ NoLoop

TunnelRoutes == {"server", "low", "high"}

(* The routes SetupRoutes adds from r on: those before are the ones it     *)
(* undoes when r fails.                                                    *)
From(r) == IF r = "server" THEN TunnelRoutes ELSE IF r = "low" THEN Halves ELSE {"high"}

AddOrder ==
    \A r \in TunnelRoutes : \A j \in 1..Len(cmds) : cmds[j] = Add(r) =>
        /\ own \cap From(r) = {}
        /\ \A i \in 1..Len(cmds) : \A q \in From(r) : i < j => cmds[i] # Add(q)

(* What this run added and is still there will be removed. *)
Doomed == \A r \in TunnelRoutes \cap own \cap table : \E i \in 1..Len(cmds) : cmds[i] = Del(r)

(* No tunnel is up and no command under way. *)
Idle == {"off", "connect", "check", "tun", "finish"}

OwnGone == own \cap table \cap TunnelRoutes = {}

(* The routes a run of the tray added are gone when the run is over, by    *)
(* its cleanup or by what a failed SetupRoutes undoes.                     *)
OwnRemoved ==
    /\ job = "setup" => AddOrder
    /\ job \in {"undo", "cleanup"} => Doomed
    /\ prog # "client" /\ rpc \in Idle => OwnGone

(* A tray that has called Disconnect to quit has nothing to show for the   *)
(* end of the run goroutine before that end.                               *)
Quits ==
    clean /\ quitting /\ (late > 0 \/ Contains(stateCh, "Disconnected")) => rpc = "off"

---------------------------------------------------------------------------
(* Types *)

Cmd == [op : {"add", "del"}, r : Routes]

(* The functions' lists are lists of commands. *)
LEMMA ListsTyped ==
    /\ \A p : SetupCmds(p) \in Seq(Cmd)
    /\ \A r : UndoCmds(r) \in Seq(Cmd) /\ UndoCmds(r) \in Seq(Removal)
    /\ CleanupCmds \in Seq(Cmd) /\ CleanupCmds \in Seq(Removal)
<1>1. \A r \in Routes : Add(r) \in Cmd /\ Del(r) \in Cmd /\ Del(r) \in Removal
  BY DEF Add, Del, Cmd, Removal
<1>2. ASSUME NEW p PROVE SetupCmds(p) \in Seq(Cmd)
  BY <1>1 DEF SetupCmds, Routes
<1>3. ASSUME NEW r PROVE UndoCmds(r) \in Seq(Cmd) /\ UndoCmds(r) \in Seq(Removal)
  BY <1>1 DEF UndoCmds, Routes
<1>4. CleanupCmds \in Seq(Cmd)
  BY <1>1 DEF CleanupCmds, Routes
<1>5. CleanupCmds \in Seq(Removal)
  BY <1>1 DEF CleanupCmds, Routes
<1> QED
  BY <1>2, <1>3, <1>4, <1>5

(* What the steps of the route functions leave well typed. *)
RouteTypes ==
    /\ table \subseteq Routes /\ own \subseteq Routes
    /\ job \in {"idle", "setup", "undo", "cleanup"}
    /\ cmds \in Seq(Cmd)

RouteStep ==
    \/ BeginSetup \/ BeginCleanup \/ EndJob \/ Run \/ RunFails
    \/ \E otherVPN \in BOOLEAN : CleanupStaleRoutes(otherVPN)
    \/ ProcessEnds
    \/ DeviceGone /\ job' = "idle" /\ UNCHANGED <<own, cmds>>

LEMMA HeadAndTail ==
    ASSUME cmds \in Seq(Cmd), cmds # <<>>
    PROVE  /\ Head(cmds) \in Cmd /\ Tail(cmds) \in Seq(Cmd)
           /\ Head(cmds).op \in {"add", "del"} /\ Head(cmds).r \in Routes
<1>1. Head(cmds) \in Cmd /\ Tail(cmds) \in Seq(Cmd)
  OBVIOUS
<1> QED
  BY <1>1 DEF Cmd

LEMMA RoutesTyped == RouteTypes /\ (RouteStep \/ UNCHANGED routeVars) => RouteTypes'
<1> SUFFICES ASSUME RouteTypes, RouteStep \/ UNCHANGED routeVars PROVE RouteTypes'
  OBVIOUS
<1>1. CASE BeginSetup
  BY <1>1, ListsTyped DEF RouteTypes, BeginSetup
<1>2. CASE BeginCleanup
  BY <1>2, ListsTyped DEF RouteTypes, BeginCleanup
<1>3. CASE EndJob
  BY <1>3 DEF RouteTypes, EndJob
<1>4. CASE Run
  BY <1>4, HeadAndTail DEF RouteTypes, Run
<1>5. CASE RunFails
  BY <1>5, ListsTyped, HeadAndTail DEF RouteTypes, RunFails
<1>6. CASE \E otherVPN \in BOOLEAN : CleanupStaleRoutes(otherVPN)
  BY <1>6 DEF RouteTypes, CleanupStaleRoutes
<1>7. CASE ProcessEnds
  BY <1>7 DEF RouteTypes, ProcessEnds, DeviceGone
<1>8. CASE DeviceGone /\ job' = "idle" /\ UNCHANGED <<own, cmds>>
  BY <1>8 DEF RouteTypes, DeviceGone
<1>9. CASE UNCHANGED routeVars
  BY <1>9 DEF RouteTypes, routeVars
<1> QED
  BY <1>1, <1>2, <1>3, <1>4, <1>5, <1>6, <1>7, <1>8, <1>9 DEF RouteStep

LEMMA InitTyped == Init => TypeOK
<1> SUFFICES ASSUME Init PROVE TypeOK
  OBVIOUS
<1>1. up \in BOOLEAN /\ dev \in BOOLEAN /\ sig \in BOOLEAN /\ quitting \in BOOLEAN /\ clean \in BOOLEAN
  BY Zenon DEF Init, HostInit, ClientInit, TrayInit
<1>2. cmds \in Seq([op : {"add", "del"}, r : Routes]) /\ stateCh \in Seq(States)
  BY DEF Init, HostInit, TrayInit
<1>3. HostTypeOK
  BY <1>1, <1>2 DEF Init, HostInit, HostTypeOK
<1>4. ClientTypeOK
  BY <1>1 DEF Init, HostInit, ClientInit, ClientTypeOK
<1>5. Len(stateCh) <= StateCap /\ stop \in Nat /\ late \in 0..MaxLate
  BY TrayAssumption DEF Init, TrayInit
<1>6. TrayTypeOK
  BY <1>1, <1>2, <1>5 DEF Init, HostInit, TrayInit, TrayTypeOK, States
<1> QED
  BY <1>3, <1>4, <1>6 DEF TypeOK

(* Every step is one of the route functions', or leaves them alone. *)
LEMMA StepRoutes == [Next]_vars => RouteStep \/ UNCHANGED routeVars
<1>1. ClientStep => RouteStep \/ UNCHANGED routeVars
  BY Zenon DEF ClientStep, ClientStart, ClientConnect, ClientAssign, ClientTUN, ClientRouted,
     ClientSignal, ClientSessionLost, ClientReconnect, ClientReassign, ClientReassignOther,
     ClientFatal, ClientShutdown, ClientDone, ClientKilled, ClientEnds, RouteStep,
     hostVars, routeVars
<1>2. TrayStep => RouteStep \/ UNCHANGED routeVars
  BY Zenon DEF TrayStep, TrayStart, Toggle, ShowState, Connect, StartRun, Disconnect,
     SendDisconnecting, CloseStop, Quit, Recheck, ShutdownDisconnects, Drain, RunConnect,
     RunCheck, RunTUN, RunRouted,
     RunSendConnected, RunSetupFails, RunSessionLost, RunStopped, RunNotStopped, RunReconnect,
     RunCleaned, RunFinish, LateReport, TrayKilled, TrayEnds, RouteStep, uiOnly, hostVars, routeVars
<1>3. RouteCommand => RouteStep
  BY DEF RouteCommand, RouteStep
<1>4. Network \/ UNCHANGED vars => UNCHANGED routeVars
  BY DEF Network, vars, hostVars, routeVars
<1> QED
  BY <1>1, <1>2, <1>3, <1>4 DEF Next

LEMMA ClientTyped == TypeOK /\ ClientStep /\ UNCHANGED trayVars => TypeOK'
<1> SUFFICES ASSUME TypeOK, ClientStep, UNCHANGED trayVars PROVE TypeOK'
  OBVIOUS
<1> USE DEF ClientStep, ClientStart, ClientConnect, ClientAssign, ClientTUN, ClientRouted,
     ClientSignal, ClientSessionLost, ClientReconnect, ClientReassign, ClientReassignOther,
     ClientFatal, ClientShutdown, ClientDone, ClientKilled, ClientEnds, ClientGoto, hostVars
<1>1. RouteTypes'
  BY StepRoutes, RoutesTyped DEF Next, RouteTypes, TypeOK, HostTypeOK, Cmd
<1>2. os' \in Systems /\ up' \in BOOLEAN /\ dev' \in BOOLEAN /\ sig' \in BOOLEAN
  BY DEF TypeOK, HostTypeOK, ClientTypeOK, ProcessEnds, DeviceGone
<1>3. prog' \in {"none", "client", "tray"}
  BY DEF TypeOK, HostTypeOK, ProcessEnds
<1>4. addr' \in Addresses \cup {NoAddress}
  BY DEF TypeOK, ClientTypeOK
<1>5. cpc' \in {"off", "connect", "assign", "tun", "setup", "session", "redial", "reassign", "cleanup"}
  BY DEF TypeOK, ClientTypeOK
<1>6. /\ cpc' # "off" <=> prog' = "client"
      /\ ui' # "off" <=> prog' = "tray"
      /\ rpc' # "off" => prog' = "tray"
  BY DEF TypeOK, ClientTypeOK, TrayTypeOK, ProcessEnds, trayVars
<1>7. ui' = "off"
  BY <1>6 DEF TypeOK, ClientTypeOK, TrayTypeOK, trayVars
<1>8. prog' = "none" => ~dev'
  BY DEF TypeOK, ClientTypeOK, TrayTypeOK, ProcessEnds, DeviceGone
<1>9. cpc' # "off" => (dev' <=> cpc' \in {"setup", "session", "redial", "reassign", "cleanup"})
  BY DEF TypeOK, HostTypeOK, ClientTypeOK
<1> QED
  BY <1>1, <1>2, <1>3, <1>4, <1>5, <1>6, <1>7, <1>8, <1>9
     DEF TypeOK, HostTypeOK, ClientTypeOK, TrayTypeOK, RouteTypes, Cmd, trayVars

(* What happens to stateCh. *)
QueueStep ==
    \/ stateCh' = stateCh
    \/ stateCh' = <<>>
    \/ stateCh # <<>> /\ stateCh' = Tail(stateCh)
    \/ \E s \in States : Len(stateCh) < StateCap /\ stateCh' = Append(stateCh, s)

LEMMA QueueTyped ==
    ASSUME stateCh \in Seq(States), Len(stateCh) <= StateCap, QueueStep
    PROVE  stateCh' \in Seq(States) /\ Len(stateCh') <= StateCap
<1>1. CASE stateCh' = <<>>
  BY <1>1, TrayAssumption
<1>2. CASE stateCh # <<>> /\ stateCh' = Tail(stateCh)
  BY <1>2, TrayAssumption
<1>3. CASE \E s \in States : Len(stateCh) < StateCap /\ stateCh' = Append(stateCh, s)
  BY <1>3, TrayAssumption
<1> QED
  BY <1>1, <1>2, <1>3 DEF QueueStep

LEMMA TrayTyped == TypeOK /\ OneRun /\ TrayStep /\ UNCHANGED clientVars => TypeOK'
<1> SUFFICES ASSUME TypeOK, OneRun, TrayStep, UNCHANGED clientVars PROVE TypeOK'
  OBVIOUS
<1> USE DEF TrayStep, TrayStart, Toggle, ShowState, Connect, StartRun, Disconnect,
     SendDisconnecting, CloseStop, Quit, Recheck, ShutdownDisconnects, Drain, RunConnect,
     RunCheck, RunTUN, RunRouted,
     RunSendConnected, RunSetupFails, RunSessionLost, RunStopped, RunNotStopped, RunReconnect,
     RunCleaned, RunFinish, LateReport, TrayKilled, TrayEnds, Return, RunGoto,
     uiOnly, runOnly, noReport, hostVars
<1>1. RouteTypes'
  BY StepRoutes, RoutesTyped DEF Next, RouteTypes, TypeOK, HostTypeOK, Cmd
<1>2. os' \in Systems /\ up' \in BOOLEAN /\ dev' \in BOOLEAN
  BY DEF TypeOK, HostTypeOK, ProcessEnds, DeviceGone
<1>3. quitting' \in BOOLEAN /\ clean' \in BOOLEAN
  BY DEF TypeOK, TrayTypeOK
<1>4. ui' \in {"off", "menu", "connect", "sendConnecting", "disconnect", "sendDisconnecting",
               "closeStop", "recheck", "drain"}
  BY DEF TypeOK, TrayTypeOK
<1>5. rpc' \in {"off", "connect", "check", "tun", "setup", "sendConnected", "session", "lost",
                "redial", "cleanup", "finish"}
  BY DEF TypeOK, TrayTypeOK
<1>6. state' \in States /\ stop' \in Nat
  BY DEF TypeOK, TrayTypeOK, States
<1>7. stateCh' \in Seq(States) /\ Len(stateCh') <= StateCap
  <2>1. QueueStep
    BY DEF QueueStep, States, Reported
  <2> QED
    BY <2>1, QueueTyped DEF TypeOK, TrayTypeOK
<1>8. late' \in 0..MaxLate
  BY TrayAssumption DEF TypeOK, TrayTypeOK
<1>9. prog' \in {"none", "client", "tray"}
  BY DEF TypeOK, HostTypeOK, ProcessEnds
<1>10. /\ cpc' # "off" <=> prog' = "client"
       /\ ui' # "off" <=> prog' = "tray"
       /\ rpc' # "off" => prog' = "tray"
  BY DEF TypeOK, ClientTypeOK, TrayTypeOK, ProcessEnds, clientVars
<1>11. cpc' # "off" => (dev' <=> cpc' \in {"setup", "session", "redial", "reassign", "cleanup"})
  BY <1>10 DEF TypeOK, ClientTypeOK, TrayTypeOK, clientVars
<1>12. prog' = "none" => ~dev'
  BY DEF TypeOK, HostTypeOK, TrayTypeOK, ProcessEnds, DeviceGone
<1>13. ui' # "off" =>
          (dev' <=> rpc' \in {"setup", "sendConnected", "session", "lost", "redial", "cleanup"})
  BY DEF TypeOK, HostTypeOK, TrayTypeOK, DeviceGone, OneRun
<1> QED
  BY <1>1, <1>2, <1>3, <1>4, <1>5, <1>6, <1>7, <1>8, <1>9, <1>10, <1>11, <1>12, <1>13
     DEF TypeOK, HostTypeOK, ClientTypeOK, TrayTypeOK, RouteTypes, Cmd, clientVars

LEMMA StepTyped == TypeOK /\ OneRun /\ [Next]_vars => TypeOK'
<1> SUFFICES ASSUME TypeOK, OneRun, [Next]_vars PROVE TypeOK'
  OBVIOUS
<1>1. CASE RouteCommand
  <2>1. RouteTypes'
    BY <1>1, RoutesTyped DEF RouteCommand, RouteStep, RouteTypes, TypeOK, HostTypeOK, Cmd
  <2> QED
    BY <1>1, <2>1 DEF RouteCommand, RouteTypes, Cmd, TypeOK, HostTypeOK, ClientTypeOK, TrayTypeOK,
       clientVars, trayVars
<1>2. CASE Network
  BY <1>2 DEF Network, TypeOK, HostTypeOK, ClientTypeOK, TrayTypeOK, routeVars, clientVars, trayVars
<1>3. CASE UNCHANGED vars
  BY <1>3 DEF vars, TypeOK, HostTypeOK, ClientTypeOK, TrayTypeOK, hostVars, clientVars, trayVars
<1> QED
  BY <1>1, <1>2, <1>3, ClientTyped, TrayTyped DEF Next

LEMMA InitOneRun == Init => OneRun
  BY DEF Init, TrayInit, OneRun

LEMMA StepOneRun == TypeOK /\ OneRun /\ [Next]_vars => OneRun'
<1> SUFFICES ASSUME TypeOK, OneRun, [Next]_vars PROVE OneRun'
  OBVIOUS
<1>1. CASE UNCHANGED trayVars
  BY <1>1 DEF trayVars, OneRun
<1>2. CASE TrayStep
  BY <1>2 DEF TrayStep, TrayStart, Toggle, ShowState, Connect, StartRun, Disconnect,
     SendDisconnecting, CloseStop, Quit, Recheck, ShutdownDisconnects, Drain, RunConnect,
     RunCheck, RunTUN, RunRouted, RunSendConnected, RunSetupFails, RunSessionLost, RunStopped,
     RunNotStopped, RunReconnect, RunCleaned, RunFinish, LateReport, TrayKilled, TrayEnds, Return,
     RunGoto, uiOnly, runOnly, noReport, hostVars, OneRun, TypeOK, TrayTypeOK, States
<1> QED
  BY <1>1, <1>2 DEF Next, vars, RouteCommand, Network

(* The types of the host's routing state, of the client and of the tray    *)
(* hold in every run, on either system and for any capacity of stateCh: no *)
(* command list, place, report or counter leaves its range, each program   *)
(* runs exactly when it is not at its "off", and the tunnel device exists  *)
(* exactly between its creation and the cleanup or failure that closes it. *)
(* The last needs OneRun: a run begins only after the one before ended.    *)
THEOREM TypeCorrect == Spec => []TypeOK
<1> QED
  BY InitTyped, InitOneRun, StepTyped, StepOneRun, PTL DEF Spec

---------------------------------------------------------------------------
(* The tray's two goroutines *)

LEMMA InitStops == Init => OneRun /\ StopOnce
  BY InitOneRun DEF Init, TrayInit, StopOnce

LEMMA TrayStops == TypeOK /\ OneRun /\ StopOnce /\ TrayStep => StopOnce'
<1> SUFFICES ASSUME TypeOK, OneRun, StopOnce, TrayStep PROVE StopOnce'
  OBVIOUS
<1> USE DEF TrayStep, TrayStart, Toggle, ShowState, Connect, StartRun, Disconnect,
     SendDisconnecting, CloseStop, Quit, Recheck, ShutdownDisconnects, Drain, RunConnect,
     RunCheck, RunTUN, RunRouted,
     RunSendConnected, RunSetupFails, RunSessionLost, RunStopped, RunNotStopped, RunReconnect,
     RunCleaned, RunFinish, LateReport, TrayKilled, TrayEnds, Return, RunGoto,
     uiOnly, runOnly, noReport, hostVars, OneRun, StopOnce, Settled, Downward, Serving, Ending
<1>2. stop' \in {0, 1} /\ (ui' \in {"off", "sendConnecting"} => stop' = 0)
  OBVIOUS
<1>3. /\ quitting' => ui' \in {"recheck", "disconnect", "sendDisconnecting", "closeStop", "drain"}
      /\ ui' \in {"recheck", "drain"} => quitting'
  BY DEF TypeOK, TrayTypeOK
<1>4. state' = "Connected" /\ stop' = 0 => rpc' \in Serving
  BY DEF TypeOK, TrayTypeOK, States
<1>5. stop' > 0 /\ ui' \in {"menu", "connect", "recheck", "disconnect"} => Settled' /\ Downward'
  BY DEF TypeOK, TrayTypeOK, States
<1>6. ui' \in {"disconnect", "sendDisconnecting", "closeStop"} /\ ~quitting' => Settled'
  BY DEF TypeOK, TrayTypeOK, States
<1>7. ui' \in {"sendDisconnecting", "closeStop"} => stop' = 0 /\ (quitting' \/ Downward')
  BY DEF TypeOK, TrayTypeOK, States
<1> QED
  BY <1>2, <1>3, <1>4, <1>5, <1>6, <1>7

LEMMA StepStops == TypeOK /\ OneRun /\ StopOnce /\ [Next]_vars => OneRun' /\ StopOnce'
<1> SUFFICES ASSUME TypeOK, OneRun, StopOnce, [Next]_vars PROVE OneRun' /\ StopOnce'
  OBVIOUS
<1>1. CASE UNCHANGED trayVars
  BY <1>1, StepOneRun DEF trayVars, StopOnce, Settled, Downward
<1> QED
  BY <1>1, TrayStops, StepOneRun DEF Next, vars, RouteCommand, Network

(* The tray's stopCh is closed at most once in the life of a tunnel: by    *)
(* no order of clicks, of Quit and of what the run goroutine does to the   *)
(* shared state does Disconnect reach close(stopCh) twice.                 *)
THEOREM StopClosedOnce == Spec => []NoDoubleClose
<1>1. OneRun /\ StopOnce => NoDoubleClose
  BY DEF StopOnce, NoDoubleClose
<1> QED
  BY <1>1, TypeCorrect, InitStops, StepStops, PTL DEF Spec

---------------------------------------------------------------------------
(* Whose commands are under way *)

LEMMA InitPlaced == Init => Placed
  BY DEF Init, HostInit, ClientInit, TrayInit, Placed

LEMMA ClientPlaced == TypeOK /\ Placed /\ ClientStep /\ UNCHANGED trayVars => Placed'
<1> SUFFICES ASSUME TypeOK, Placed, ClientStep, UNCHANGED trayVars PROVE Placed'
  OBVIOUS
<1> USE DEF ClientStep, ClientStart, ClientConnect, ClientAssign, ClientTUN, ClientRouted,
     ClientSignal, ClientSessionLost, ClientReconnect, ClientReassign, ClientReassignOther,
     ClientFatal, ClientShutdown, ClientDone, ClientKilled, ClientEnds, ClientGoto, hostVars,
     ProcessEnds, DeviceGone, BeginSetup, BeginCleanup, EndJob, Finished, CleanupStaleRoutes,
     Placed, TypeOK, HostTypeOK, ClientTypeOK, TrayTypeOK, trayVars
<1>3. job' = "idle" => cmds' = <<>>
  OBVIOUS
<1>4. job' \in {"setup", "undo"} => cpc' = "setup" \/ rpc' = "setup"
  OBVIOUS
<1>5. job' = "cleanup" => cpc' = "cleanup" \/ rpc' = "cleanup"
  OBVIOUS
<1>6. job' \in {"undo", "cleanup"} => cmds' \in Seq(Removal)
  BY ListsTyped
<1> QED
  BY <1>3, <1>4, <1>5, <1>6

LEMMA TrayPlaced == TypeOK /\ OneRun /\ Placed /\ TrayStep /\ UNCHANGED clientVars => Placed'
<1> SUFFICES ASSUME TypeOK, OneRun, Placed, TrayStep, UNCHANGED clientVars PROVE Placed'
  OBVIOUS
<1> USE DEF TrayStep, TrayStart, Toggle, ShowState, Connect, StartRun, Disconnect,
     SendDisconnecting, CloseStop, Quit, Recheck, ShutdownDisconnects, Drain, RunConnect,
     RunCheck, RunTUN, RunRouted,
     RunSendConnected, RunSetupFails, RunSessionLost, RunStopped, RunNotStopped, RunReconnect,
     RunCleaned, RunFinish, LateReport, TrayKilled, TrayEnds, Return, RunGoto,
     uiOnly, runOnly, noReport, hostVars, routeVars,
     ProcessEnds, DeviceGone, BeginSetup, BeginCleanup, EndJob, Finished,
     Placed, OneRun, TypeOK, HostTypeOK, ClientTypeOK, TrayTypeOK, clientVars
<1>3. job' = "idle" => cmds' = <<>>
  OBVIOUS
<1>4. job' \in {"setup", "undo"} => cpc' = "setup" \/ rpc' = "setup"
  OBVIOUS
<1>5. job' = "cleanup" => cpc' = "cleanup" \/ rpc' = "cleanup"
  OBVIOUS
<1>6. job' \in {"undo", "cleanup"} => cmds' \in Seq(Removal)
  BY ListsTyped
<1> QED
  BY <1>3, <1>4, <1>5, <1>6

LEMMA StepPlaced == TypeOK /\ OneRun /\ Placed /\ [Next]_vars => Placed'
<1> SUFFICES ASSUME TypeOK, OneRun, Placed, [Next]_vars PROVE Placed'
  OBVIOUS
<1>1. CASE RouteCommand
  <2>1. UNCHANGED <<prog, dev, cpc, rpc>> /\ cmds # <<>> /\ (Run \/ RunFails)
    BY <1>1 DEF RouteCommand, Run, RunFails, clientVars, trayVars
  <2>2. job \in {"undo", "cleanup"} => Head(cmds).op = "del" /\ Tail(cmds) \in Seq(Removal)
    <3>1. job \in {"undo", "cleanup"} => Head(cmds) \in Removal /\ Tail(cmds) \in Seq(Removal)
      BY <2>1 DEF Placed
    <3> QED
      BY <3>1 DEF Removal
  <2> QED
    BY <2>1, <2>2, ListsTyped DEF Run, RunFails, Placed, TypeOK, HostTypeOK
<1>2. CASE Network
  BY <1>2 DEF Network, Placed, routeVars, clientVars, trayVars
<1>3. CASE UNCHANGED vars
  BY <1>3 DEF vars, Placed, hostVars, clientVars, trayVars
<1> QED
  BY <1>1, <1>2, <1>3, ClientPlaced, TrayPlaced DEF Next

---------------------------------------------------------------------------
(* The order of the commands *)

LEMMA Distinct ==
    /\ \A r, q : Add(r) # Del(q)
    /\ \A r, q : (Add(r) = Add(q) => r = q) /\ (Del(r) = Del(q) => r = q)
  BY DEF Add, Del

(* SetupRoutes, as it begins, is in order on both systems. *)
LEMMA SetupOrdered == TypeOK /\ BeginSetup => SetupOrder'
<1> SUFFICES ASSUME TypeOK, BeginSetup PROVE SetupOrder'
  OBVIOUS
<1>1. own' = {} /\ cmds' = SetupCmds(prog)
  BY DEF BeginSetup
<1>2. CASE os = "linux" /\ prog = "client"
  <2>1. /\ Len(cmds') = 5 /\ cmds'[1] = Add("server") /\ cmds'[2] = Add("bypass")
        /\ cmds'[3] = Add("low") /\ cmds'[4] = Add("high") /\ cmds'[5] = Add("v6")
    BY <1>1, <1>2 DEF SetupCmds
  <2> QED
    BY <1>1, <2>1, Distinct DEF SetupOrder, AddHalves
<1>3. CASE os = "linux" /\ prog # "client"
  <2>1. /\ Len(cmds') = 4 /\ cmds'[1] = Add("server")
        /\ cmds'[2] = Add("low") /\ cmds'[3] = Add("high") /\ cmds'[4] = Add("v6")
    BY <1>1, <1>3 DEF SetupCmds
  <2> QED
    BY <1>1, <2>1, Distinct DEF SetupOrder, AddHalves
<1>4. CASE os # "linux" /\ prog = "client"
  <2>1. /\ Len(cmds') = 12
        /\ cmds'[1] = Del("dns") /\ cmds'[2] = Add("dns") /\ cmds'[3] = Del("server")
        /\ cmds'[4] = Del("low") /\ cmds'[5] = Del("high") /\ cmds'[6] = Add("server")
        /\ cmds'[7] = Del("bypass") /\ cmds'[8] = Add("bypass") /\ cmds'[9] = Add("low")
        /\ cmds'[10] = Add("high") /\ cmds'[11] = Del("v6") /\ cmds'[12] = Add("v6")
    BY <1>1, <1>4 DEF SetupCmds
  <2> QED
    BY <1>1, <2>1, Distinct DEF SetupOrder, AddHalves
<1>5. CASE os # "linux" /\ prog # "client"
  <2>1. /\ Len(cmds') = 10
        /\ cmds'[1] = Del("dns") /\ cmds'[2] = Add("dns") /\ cmds'[3] = Del("server")
        /\ cmds'[4] = Del("low") /\ cmds'[5] = Del("high") /\ cmds'[6] = Add("server")
        /\ cmds'[7] = Add("low") /\ cmds'[8] = Add("high") /\ cmds'[9] = Del("v6")
        /\ cmds'[10] = Add("v6")
    BY <1>1, <1>5 DEF SetupCmds
  <2> QED
    BY <1>1, <2>1, Distinct DEF SetupOrder, AddHalves
<1> QED
  BY <1>2, <1>3, <1>4, <1>5

(* So is the cleanup function. *)
LEMMA CleanupOrdered ==
    BeginCleanup => /\ CleanupOrder'
                    /\ \A r \in TunnelRoutes : \E i \in 1..Len(cmds') : cmds'[i] = Del(r)
<1> SUFFICES ASSUME BeginCleanup
             PROVE  /\ CleanupOrder'
                    /\ \A r \in TunnelRoutes : \E i \in 1..Len(cmds') : cmds'[i] = Del(r)
  OBVIOUS
<1> DEFINE IfAdded(r) == IF r \in own THEN <<Del(r)>> ELSE <<>>
           a == IfAdded("v6")  b == IfAdded("bypass")  d == IfAdded("dns")
           k == Len(a)
<1>1. \A r \in Routes : Del(r) \in Cmd
  BY DEF Cmd, Del
<1>2. /\ Del("high") \in Cmd /\ Del("low") \in Cmd /\ Del("server") \in Cmd
      /\ a \in Seq(Cmd) /\ b \in Seq(Cmd) /\ d \in Seq(Cmd)
  BY <1>1 DEF Routes
<1>3. /\ \A i \in 1..Len(a) : a[i] # Del("server")
      /\ \A i \in 1..Len(b) : b[i] # Del("server")
      /\ \A i \in 1..Len(d) : d[i] # Del("server")
  BY Distinct
<1>4. cmds' = a \o <<Del("high"), Del("low"), Del("server")>> \o b \o d
  BY DEF BeginCleanup, CleanupCmds
<1> HIDE DEF IfAdded, a, b, d
<1>5. /\ k \in Nat /\ Len(cmds') \in Nat /\ k + 3 <= Len(cmds')
      /\ cmds'[k + 1] = Del("high") /\ cmds'[k + 2] = Del("low") /\ cmds'[k + 3] = Del("server")
  BY <1>2, <1>4
<1>6. \A j \in 1..Len(cmds') : cmds'[j] = Del("server") => j \in k + 1..k + 3
  BY <1>2, <1>3, <1>4
<1> HIDE DEF k
<1>7. CleanupOrder'
  BY <1>5, <1>6, Distinct DEF CleanupOrder, Halves
<1> QED
  BY <1>5, <1>7 DEF TunnelRoutes

(* What a step may do to the routes, and when. *)
HostStep ==
    \/ BeginSetup
    \/ BeginCleanup /\ job = "idle" /\ UNCHANGED dev
    \/ EndJob /\ job = "setup" /\ UNCHANGED dev
    \/ (Run \/ RunFails) /\ UNCHANGED dev
    \/ job' = "idle" /\ ~dev'
    \/ UNCHANGED <<routeVars, dev>>

LEMMA StepHost == TypeOK /\ Placed /\ [Next]_vars => HostStep
<1> SUFFICES ASSUME TypeOK, Placed, [Next]_vars PROVE HostStep
  OBVIOUS
<1> USE DEF HostStep, ProcessEnds, DeviceGone, Finished, hostVars, routeVars
<1>1. CASE ClientStep
  BY <1>1 DEF ClientStep, ClientStart, ClientConnect, ClientAssign, ClientTUN, ClientRouted,
     ClientSignal, ClientSessionLost, ClientReconnect, ClientReassign, ClientReassignOther,
     ClientFatal, ClientShutdown, ClientDone, ClientKilled, ClientEnds, CleanupStaleRoutes,
     Placed, TypeOK, HostTypeOK, ClientTypeOK, TrayTypeOK
<1>2. CASE TrayStep
  BY <1>2 DEF TrayStep, TrayStart, Toggle, ShowState, Connect, StartRun, Disconnect,
     SendDisconnecting, CloseStop, Quit, Recheck, ShutdownDisconnects, Drain, RunConnect,
     RunCheck, RunTUN, RunRouted,
     RunSendConnected, RunSetupFails, RunSessionLost, RunStopped, RunNotStopped, RunReconnect,
     RunCleaned, RunFinish, LateReport, TrayKilled, TrayEnds, uiOnly,
     Placed, TypeOK, HostTypeOK, ClientTypeOK, TrayTypeOK
<1>3. CASE RouteCommand \/ Network \/ UNCHANGED vars
  BY <1>3 DEF RouteCommand, Network, vars
<1> QED
  BY <1>1, <1>2, <1>3 DEF Next

(* One command leaves the rest of SetupRoutes in order. *)
LEMMA RunOrdered ==
    ASSUME TypeOK, job = "setup", SetupOrder, Run
    PROVE  SetupOrder' /\ (own' \cap Halves # {} => "server" \in table')
<1> DEFINE c == Head(cmds)
<1>1. cmds \in Seq(Cmd) /\ cmds # <<>> /\ c \in Cmd
  <2>1. cmds \in Seq(Cmd) /\ cmds # <<>>
    BY DEF Run, TypeOK, HostTypeOK, Cmd
  <2> QED
    BY <2>1, HeadAndTail
<1>2. /\ c = cmds[1] /\ Len(cmds) \in Nat /\ Len(cmds) > 0
      /\ Len(cmds') = Len(cmds) - 1
      /\ \A i \in 1..Len(cmds') : cmds'[i] = cmds[i + 1]
  BY <1>1 DEF Run
<1>3. /\ c = Add(c.r) \/ c = Del(c.r)
      /\ c = Add(c.r) => table' = table \cup {c.r} /\ own' = own \cup {c.r}
      /\ c = Del(c.r) => table' = table \ {c.r} /\ own' = own
  BY <1>1 DEF Run, Cmd, Add, Del
<1> HIDE DEF c
<1>4. c \in AddHalves => "server" \in table /\ \A j \in 1..Len(cmds) : cmds[j] # Del("server")
  BY <1>2 DEF SetupOrder
<1>5. own' \cap Halves # {} =>
          "server" \in table' /\ \A j \in 1..Len(cmds') : cmds'[j] # Del("server")
  BY <1>2, <1>3, <1>4, Distinct DEF SetupOrder, AddHalves, Halves
<1>6. ASSUME NEW i \in 1..Len(cmds'), NEW j \in 1..Len(cmds'),
             i < j, cmds'[i] \in AddHalves \cup {Add("server")}
      PROVE  cmds'[j] # Del("server")
  <2>1. /\ i + 1 \in 1..Len(cmds) /\ j + 1 \in 1..Len(cmds) /\ i + 1 < j + 1
        /\ cmds'[i] = cmds[i + 1] /\ cmds'[j] = cmds[j + 1]
    BY <1>2, <1>6
  <2> QED
    BY <1>6, <2>1 DEF SetupOrder
<1>7. ASSUME NEW j \in 1..Len(cmds'), cmds'[j] \in AddHalves
      PROVE  \/ \E i \in 1..Len(cmds') : i < j /\ cmds'[i] = Add("server")
             \/ "server" \in table' /\ \A i \in 1..Len(cmds') : cmds'[i] # Del("server")
  <2>1. CASE \E i \in 1..Len(cmds) : i < j + 1 /\ cmds[i] = Add("server")
    <3>1. PICK i \in 1..Len(cmds) : i < j + 1 /\ cmds[i] = Add("server")
      BY <2>1
    <3>2. CASE i = 1
      BY <1>2, <1>3, <3>1, <3>2, Distinct DEF SetupOrder
    <3>3. CASE i # 1
      <4>1. i - 1 \in 1..Len(cmds') /\ i - 1 < j /\ cmds'[i - 1] = Add("server")
        BY <1>2, <3>1, <3>3
      <4> QED
        BY <4>1
    <3> QED
      BY <3>2, <3>3
  <2>2. CASE "server" \in table /\ \A i \in 1..Len(cmds) : cmds[i] # Del("server")
    BY <1>2, <1>3, <2>2, Distinct
  <2> QED
    BY <1>2, <1>7, <2>1, <2>2 DEF SetupOrder
<1> QED
  BY <1>5, <1>6, <1>7 DEF SetupOrder, AddHalves

(* An optional command that fails does, too. *)
LEMMA FailureOrdered ==
    ASSUME TypeOK, job = "setup", SetupOrder, RunFails, job' = "setup"
    PROVE  SetupOrder'
<1>1. cmds \in Seq(Cmd) /\ cmds # <<>>
  BY DEF RunFails, TypeOK, HostTypeOK, Cmd
<1>2. Head(cmds).op = "add" /\ Optional(Head(cmds).r) /\ cmds' = Tail(cmds) /\ own' = own
  BY DEF RunFails
<1>3. /\ Len(cmds) \in Nat /\ Len(cmds) > 0 /\ Len(cmds') = Len(cmds) - 1
      /\ \A i \in 1..Len(cmds') : cmds'[i] = cmds[i + 1]
  BY <1>1, <1>2
<1>4. cmds[1] # Add("server") /\ ("server" \in table => "server" \in table')
  <2>1. cmds[1] = Head(cmds)
    BY <1>1
  <2> QED
    BY <1>2, <2>1 DEF RunFails, Optional, Add
<1>5. own' \cap Halves # {} =>
          "server" \in table' /\ \A j \in 1..Len(cmds') : cmds'[j] # Del("server")
  BY <1>2, <1>3, <1>4 DEF SetupOrder
<1>6. ASSUME NEW i \in 1..Len(cmds'), NEW j \in 1..Len(cmds'),
             i < j, cmds'[i] \in AddHalves \cup {Add("server")}
      PROVE  cmds'[j] # Del("server")
  <2>1. /\ i + 1 \in 1..Len(cmds) /\ j + 1 \in 1..Len(cmds) /\ i + 1 < j + 1
        /\ cmds'[i] = cmds[i + 1] /\ cmds'[j] = cmds[j + 1]
    BY <1>3, <1>6
  <2> QED
    BY <1>6, <2>1 DEF SetupOrder
<1>7. ASSUME NEW j \in 1..Len(cmds'), cmds'[j] \in AddHalves
      PROVE  \/ \E i \in 1..Len(cmds') : i < j /\ cmds'[i] = Add("server")
             \/ "server" \in table' /\ \A i \in 1..Len(cmds') : cmds'[i] # Del("server")
  <2>1. CASE \E i \in 1..Len(cmds) : i < j + 1 /\ cmds[i] = Add("server")
    <3>1. PICK i \in 1..Len(cmds) : i < j + 1 /\ cmds[i] = Add("server")
      BY <2>1
    <3>2. i - 1 \in 1..Len(cmds') /\ i - 1 < j /\ cmds'[i - 1] = Add("server")
      BY <1>3, <1>4, <3>1
    <3> QED
      BY <3>2
  <2>2. CASE "server" \in table /\ \A i \in 1..Len(cmds) : cmds[i] # Del("server")
    BY <1>3, <1>4, <2>2
  <2>3. j + 1 \in 1..Len(cmds) /\ cmds[j + 1] \in AddHalves
    BY <1>3, <1>7
  <2> QED
    BY <2>1, <2>2, <2>3 DEF SetupOrder
<1> QED
  BY <1>5, <1>6, <1>7 DEF SetupOrder, AddHalves

(* So does one command of the cleanup, and a half that is left has the     *)
(* server's route beside it.                                               *)
LEMMA RemovalOrdered ==
    ASSUME cmds \in Seq(Removal), CleanupOrder, Run
    PROVE  /\ CleanupOrder' /\ own' = own /\ table' \subseteq table
           /\ "server" \in table /\ "server" \notin table' => table' \cap Halves = {}
<1> DEFINE c == Head(cmds)
<1>1. cmds # <<>> /\ c \in Removal
  <2>1. cmds # <<>>
    BY DEF Run
  <2> QED
    BY <2>1
<1>2. /\ c = cmds[1] /\ Len(cmds) \in Nat /\ Len(cmds) > 0
      /\ Len(cmds') = Len(cmds) - 1
      /\ \A i \in 1..Len(cmds') : cmds'[i] = cmds[i + 1]
  BY <1>1 DEF Run
<1>3. c = Del(c.r) /\ table' = table \ {c.r} /\ own' = own
  BY <1>1 DEF Run, Removal, Del
<1> HIDE DEF c
<1>4. ASSUME NEW j \in 1..Len(cmds'), cmds'[j] = Del("server"), NEW r \in Halves \cap table'
      PROVE  \E i \in 1..Len(cmds') : i < j /\ cmds'[i] = Del(r)
  <2>1. PICK i \in 1..Len(cmds) : i < j + 1 /\ cmds[i] = Del(r)
    BY <1>2, <1>3, <1>4 DEF CleanupOrder
  <2>2. i # 1
    BY <1>2, <1>3, <1>4, <2>1, Distinct
  <2>3. i - 1 \in 1..Len(cmds') /\ i - 1 < j /\ cmds'[i - 1] = Del(r)
    BY <1>2, <2>1, <2>2
  <2> QED
    BY <2>3
<1>5. "server" \in table /\ "server" \notin table' => table' \cap Halves = {}
  BY <1>2, <1>3 DEF CleanupOrder
<1> QED
  BY <1>3, <1>4, <1>5 DEF CleanupOrder

LEMMA InitInOrder == Init => RoutesInOrder
  BY DEF Init, HostInit, RoutesInOrder, NoLoop

LEMMA StepInOrder == TypeOK /\ Placed /\ RoutesInOrder /\ [Next]_vars => RoutesInOrder'
<1> SUFFICES ASSUME TypeOK, Placed, RoutesInOrder, [Next]_vars PROVE RoutesInOrder'
  OBVIOUS
<1>1. CASE BeginSetup
  BY <1>1, SetupOrdered DEF BeginSetup, RoutesInOrder, NoLoop
<1>2. CASE BeginCleanup /\ job = "idle" /\ UNCHANGED dev
  BY <1>2, CleanupOrdered DEF BeginCleanup, RoutesInOrder, NoLoop
<1>3. CASE EndJob /\ job = "setup" /\ UNCHANGED dev
  BY <1>3 DEF EndJob, RoutesInOrder, NoLoop
<1>4. CASE Run /\ UNCHANGED dev
  <2>1. CASE job = "setup"
    BY <1>4, <2>1, RunOrdered DEF Run, RoutesInOrder, NoLoop
  <2>2. CASE job = "cleanup"
    BY <1>4, <2>2, RemovalOrdered DEF Placed, Run, RoutesInOrder, NoLoop
  <2>3. CASE job \notin {"setup", "cleanup"}
    <3>1. job = "undo"
      BY <1>4, <2>3 DEF Run, Placed, TypeOK, HostTypeOK
    <3> QED
      BY <1>4, <3>1 DEF Run, RoutesInOrder, NoLoop
  <2> QED
    BY <2>1, <2>2, <2>3
<1>5. CASE RunFails /\ UNCHANGED dev
  <2>1. job # "cleanup" /\ job # "idle"
    <3>1. cmds # <<>> /\ Head(cmds).op = "add"
      BY <1>5 DEF RunFails
    <3>2. job = "cleanup" => Head(cmds) \in Removal
      BY <3>1 DEF Placed
    <3> QED
      BY <3>1, <3>2 DEF Placed, Removal
  <2>2. CASE job' = "setup"
    <3>1. job = "setup" /\ own' = own
      BY <1>5, <2>2 DEF RunFails
    <3>2. "server" \in table => "server" \in table'
      BY <1>5, <2>2 DEF RunFails, Optional
    <3>3. table' \subseteq table
      BY <1>5 DEF RunFails
    <3> QED
      BY <1>5, <2>2, <3>1, <3>2, <3>3, FailureOrdered DEF RoutesInOrder, NoLoop
  <2>3. CASE job' = "undo"
    BY <2>3 DEF RoutesInOrder, NoLoop
  <2> QED
    BY <1>5, <2>1, <2>2, <2>3 DEF RunFails, TypeOK, HostTypeOK
<1>6. CASE job' = "idle" /\ ~dev'
  BY <1>6 DEF RoutesInOrder, NoLoop
<1>7. CASE UNCHANGED <<routeVars, dev>>
  BY <1>7 DEF routeVars, RoutesInOrder, NoLoop, SetupOrder, CleanupOrder
<1> QED
  BY <1>1, <1>2, <1>3, <1>4, <1>5, <1>6, <1>7, StepHost DEF HostStep

(* Between any two route commands of either program, with the table an     *)
(* earlier, killed run left behind and whichever optional command fails,   *)
(* the connection to the server does not run into its own tunnel.          *)
THEOREM NeverLoops == Spec => []NoLoop
<1>1. Init => OneRun /\ StopOnce /\ Placed /\ RoutesInOrder
  BY InitStops, InitPlaced, InitInOrder
<1>2. TypeOK /\ (OneRun /\ StopOnce /\ Placed /\ RoutesInOrder) /\ [Next]_vars
          => (OneRun /\ StopOnce /\ Placed /\ RoutesInOrder)'
  BY StepStops, StepPlaced, StepInOrder
<1>3. RoutesInOrder => NoLoop
  BY DEF RoutesInOrder
<1> QED
  BY <1>1, <1>2, <1>3, TypeCorrect, PTL DEF Spec

---------------------------------------------------------------------------
(* The routes of a run *)

(* SetupRoutes, as it begins: the server's route, then the halves. *)
LEMMA AddsOrdered == TypeOK /\ BeginSetup => AddOrder'
<1> SUFFICES ASSUME TypeOK, BeginSetup PROVE AddOrder'
  OBVIOUS
<1>1. own' = {} /\ cmds' = SetupCmds(prog)
  BY DEF BeginSetup
<1>2. CASE os = "linux" /\ prog = "client"
  <2>1. /\ Len(cmds') = 5 /\ cmds'[1] = Add("server") /\ cmds'[2] = Add("bypass")
        /\ cmds'[3] = Add("low") /\ cmds'[4] = Add("high") /\ cmds'[5] = Add("v6")
    BY <1>1, <1>2 DEF SetupCmds
  <2> QED
    BY <1>1, <2>1, Distinct DEF AddOrder, From, TunnelRoutes, Halves
<1>3. CASE os = "linux" /\ prog # "client"
  <2>1. /\ Len(cmds') = 4 /\ cmds'[1] = Add("server")
        /\ cmds'[2] = Add("low") /\ cmds'[3] = Add("high") /\ cmds'[4] = Add("v6")
    BY <1>1, <1>3 DEF SetupCmds
  <2> QED
    BY <1>1, <2>1, Distinct DEF AddOrder, From, TunnelRoutes, Halves
<1>4. CASE os # "linux" /\ prog = "client"
  <2>1. /\ Len(cmds') = 12
        /\ cmds'[1] = Del("dns") /\ cmds'[2] = Add("dns") /\ cmds'[3] = Del("server")
        /\ cmds'[4] = Del("low") /\ cmds'[5] = Del("high") /\ cmds'[6] = Add("server")
        /\ cmds'[7] = Del("bypass") /\ cmds'[8] = Add("bypass") /\ cmds'[9] = Add("low")
        /\ cmds'[10] = Add("high") /\ cmds'[11] = Del("v6") /\ cmds'[12] = Add("v6")
    BY <1>1, <1>4 DEF SetupCmds
  <2> QED
    BY <1>1, <2>1, Distinct DEF AddOrder, From, TunnelRoutes, Halves
<1>5. CASE os # "linux" /\ prog # "client"
  <2>1. /\ Len(cmds') = 10
        /\ cmds'[1] = Del("dns") /\ cmds'[2] = Add("dns") /\ cmds'[3] = Del("server")
        /\ cmds'[4] = Del("low") /\ cmds'[5] = Del("high") /\ cmds'[6] = Add("server")
        /\ cmds'[7] = Add("low") /\ cmds'[8] = Add("high") /\ cmds'[9] = Del("v6")
        /\ cmds'[10] = Add("v6")
    BY <1>1, <1>5 DEF SetupCmds
  <2> QED
    BY <1>1, <2>1, Distinct DEF AddOrder, From, TunnelRoutes, Halves
<1> QED
  BY <1>2, <1>3, <1>4, <1>5

(* One more command of it. *)
LEMMA AddsKept ==
    ASSUME cmds \in Seq(Cmd), cmds # <<>>, cmds' = Tail(cmds), AddOrder,
           own' \subseteq own \cup {q \in Routes : Head(cmds) = Add(q)}
    PROVE  AddOrder'
<1>1. /\ Head(cmds) = cmds[1] /\ Len(cmds) \in Nat /\ Len(cmds) > 0
      /\ Len(cmds') = Len(cmds) - 1
      /\ \A i \in 1..Len(cmds') : i + 1 \in 1..Len(cmds) /\ cmds'[i] = cmds[i + 1]
  OBVIOUS
<1> SUFFICES ASSUME NEW r \in TunnelRoutes, NEW j \in 1..Len(cmds'), cmds'[j] = Add(r)
             PROVE  /\ own' \cap From(r) = {}
                    /\ \A i \in 1..Len(cmds') : \A q \in From(r) : i < j => cmds'[i] # Add(q)
  BY DEF AddOrder
<1>2. /\ own \cap From(r) = {}
      /\ \A i \in 1..Len(cmds) : \A q \in From(r) : i < j + 1 => cmds[i] # Add(q)
  BY <1>1 DEF AddOrder
<1>3. \A q \in From(r) : cmds[1] # Add(q)
  BY <1>1, <1>2
<1>4. own' \cap From(r) = {}
  BY <1>1, <1>2, <1>3
<1>5. \A i \in 1..Len(cmds') : \A q \in From(r) : i < j => cmds'[i] # Add(q)
  BY <1>1, <1>2
<1> QED
  BY <1>4, <1>5

(* A route that must be there fails: those before it are undone. *)
LEMMA UndoDoomed ==
    ASSUME cmds \in Seq(Cmd), cmds # <<>>, AddOrder, RunFails, ~Optional(Head(cmds).r)
    PROVE  Doomed'
<1> DEFINE r == Head(cmds).r
<1>1. /\ Head(cmds) = cmds[1] /\ 1 \in 1..Len(cmds)
      /\ Head(cmds) = Add(r) /\ r \in TunnelRoutes
  <2>1. Head(cmds) = cmds[1] /\ 1 \in 1..Len(cmds)
    OBVIOUS
  <2>2. Head(cmds).op = "add"
    BY DEF RunFails
  <2> QED
    BY <2>1, <2>2, HeadAndTail DEF Cmd, Add, Optional, Routes, TunnelRoutes
<1>2. cmds' = UndoCmds(r) /\ table' = table /\ own' = own
  BY DEF RunFails
<1> HIDE DEF r
<1>3. own \cap From(r) = {}
  BY <1>1 DEF AddOrder
<1>4. CASE r = "server"
  BY <1>2, <1>3, <1>4 DEF Doomed, From
<1>5. CASE r = "low"
  <2>1. Len(cmds') = 1 /\ cmds'[1] = Del("server")
    BY <1>2, <1>5 DEF UndoCmds
  <2> QED
    BY <1>2, <1>3, <1>5, <2>1 DEF Doomed, From, TunnelRoutes, Halves
<1>6. CASE r = "high"
  <2>1. /\ Len(cmds') = 2
        /\ \/ cmds'[1] = Del("server") /\ cmds'[2] = Del("low")
           \/ cmds'[1] = Del("low") /\ cmds'[2] = Del("server")
    BY <1>2, <1>6 DEF UndoCmds
  <2> QED
    BY <1>2, <1>3, <1>6, <2>1 DEF Doomed, From, TunnelRoutes
<1> QED
  BY <1>1, <1>4, <1>5, <1>6 DEF TunnelRoutes

(* One command of the cleanup or the undoing. *)
LEMMA RemovalDooms ==
    ASSUME cmds \in Seq(Removal), Doomed, Run PROVE Doomed'
<1> DEFINE c == Head(cmds)
<1>1. cmds # <<>> /\ c \in Removal
  <2>1. cmds # <<>>
    BY DEF Run
  <2> QED
    BY <2>1
<1>2. /\ c = cmds[1] /\ Len(cmds) \in Nat /\ Len(cmds) > 0
      /\ Len(cmds') = Len(cmds) - 1
      /\ \A i \in 1..Len(cmds') : cmds'[i] = cmds[i + 1]
  BY <1>1 DEF Run
<1>3. c = Del(c.r) /\ table' = table \ {c.r} /\ own' = own
  BY <1>1 DEF Run, Removal, Del
<1> HIDE DEF c
<1> SUFFICES ASSUME NEW r \in TunnelRoutes \cap own' \cap table'
             PROVE  \E i \in 1..Len(cmds') : cmds'[i] = Del(r)
  BY DEF Doomed
<1>4. PICK i \in 1..Len(cmds) : cmds[i] = Del(r)
  BY <1>3 DEF Doomed
<1>5. i # 1
  BY <1>2, <1>3, <1>4, Distinct
<1>6. i - 1 \in 1..Len(cmds') /\ cmds'[i - 1] = Del(r)
  BY <1>2, <1>4, <1>5
<1> QED
  BY <1>6

LEMMA InitRemoved == Init => OwnRemoved
  BY DEF Init, HostInit, OwnRemoved, OwnGone

LEMMA CommandsRemove ==
    TypeOK /\ Placed /\ OwnRemoved /\ [Next]_vars =>
        /\ job' = "setup" => AddOrder'
        /\ job' \in {"undo", "cleanup"} => Doomed'
<1> SUFFICES ASSUME TypeOK, Placed, OwnRemoved, [Next]_vars
             PROVE  /\ job' = "setup" => AddOrder'
                    /\ job' \in {"undo", "cleanup"} => Doomed'
  OBVIOUS
<1> USE DEF OwnRemoved
<1>1. CASE BeginSetup
  BY <1>1, AddsOrdered DEF BeginSetup
<1>2. CASE BeginCleanup
  BY <1>2, CleanupOrdered DEF BeginCleanup, Doomed
<1>3. CASE EndJob \/ job' = "idle"
  BY <1>3 DEF EndJob
<1>4. CASE Run \/ RunFails
  <2>1. cmds # <<>> /\ cmds \in Seq(Cmd) /\ job \in {"setup", "undo", "cleanup"}
    BY <1>4 DEF Run, RunFails, Placed, TypeOK, HostTypeOK, Cmd
  <2>2. CASE job = "setup" /\ Run
    <3>1. own' \subseteq own \cup {q \in Routes : Head(cmds) = Add(q)} /\ cmds' = Tail(cmds) /\ job' = job
      BY <2>1, <2>2, HeadAndTail DEF Run, Cmd, Add
    <3> QED
      BY <2>1, <2>2, <3>1, AddsKept
  <2>3. CASE job = "setup" /\ RunFails /\ Optional(Head(cmds).r)
    <3>1. own' = own /\ cmds' = Tail(cmds) /\ job' = job
      BY <2>3 DEF RunFails
    <3> QED
      BY <2>1, <2>3, <3>1, AddsKept
  <2>4. CASE job = "setup" /\ RunFails /\ ~Optional(Head(cmds).r)
    BY <2>1, <2>4, UndoDoomed DEF RunFails
  <2>5. CASE job \in {"undo", "cleanup"}
    <3>1. cmds \in Seq(Removal) /\ Head(cmds) \in Removal
      <4>1. cmds \in Seq(Removal)
        BY <2>5 DEF Placed
      <4> QED
        BY <2>1, <4>1
    <3>2. Run /\ job' = job
      BY <1>4, <3>1 DEF Run, RunFails, Removal
    <3> QED
      BY <2>5, <3>1, <3>2, RemovalDooms
  <2> QED
    BY <1>4, <2>1, <2>2, <2>3, <2>4, <2>5
<1>5. CASE UNCHANGED <<routeVars, dev>>
  BY <1>5 DEF routeVars, AddOrder, Doomed
<1> QED
  BY <1>1, <1>2, <1>3, <1>4, <1>5, StepHost DEF HostStep

LEMMA IdleRemoved ==
    ASSUME TypeOK, Placed, OneRun, OwnRemoved, [Next]_vars, prog' # "client", rpc' \in Idle
    PROVE  OwnGone'
<1>1. CASE own' = {}
  BY <1>1 DEF OwnGone
<1>2. CASE prog # "client" /\ rpc \in Idle /\ UNCHANGED <<own, table>>
  BY <1>2 DEF OwnRemoved, OwnGone
<1>3. CASE RunSetupFails \/ RunCleaned
  <2>1. job \in {"undo", "cleanup"} /\ cmds = <<>> /\ own' = own /\ table' \subseteq table
    BY <1>3 DEF RunSetupFails, RunCleaned, Finished, DeviceGone
  <2>2. OwnGone
    BY <2>1 DEF OwnRemoved, Doomed, OwnGone
  <2> QED
    BY <2>1, <2>2 DEF OwnGone
<1>4. CASE ClientStep
  BY <1>1, <1>4 DEF ClientStep, ClientStart, ClientConnect, ClientAssign, ClientTUN, ClientRouted,
     ClientSignal, ClientSessionLost, ClientReconnect, ClientReassign, ClientReassignOther,
     ClientFatal, ClientShutdown, ClientDone, ClientKilled, ClientEnds, ProcessEnds, hostVars,
     TypeOK, ClientTypeOK
<1>5. CASE TrayStep
  <2>1. prog # "client"
    BY <1>5 DEF TrayStep, TrayStart, Toggle, ShowState, Connect, StartRun, Disconnect,
       SendDisconnecting, CloseStop, Quit, Recheck, Drain, RunConnect, RunCheck, RunTUN,
       RunRouted, RunSendConnected, RunSetupFails, RunSessionLost, RunStopped, RunNotStopped,
       RunReconnect, RunCleaned, RunFinish, LateReport, TrayKilled, TrayEnds, uiOnly, hostVars,
       ProcessEnds, TypeOK, TrayTypeOK
  <2> QED
    BY <1>1, <1>2, <1>3, <1>5, <2>1 DEF TrayStep, TrayStart, Toggle, ShowState, Connect, StartRun,
       Disconnect, SendDisconnecting, CloseStop, Quit, Recheck, ShutdownDisconnects, Drain,
       RunConnect, RunCheck, RunTUN, RunRouted, RunSendConnected, RunSessionLost, RunStopped,
       RunNotStopped, RunReconnect, RunFinish, LateReport, TrayKilled, TrayEnds, ProcessEnds,
       RunGoto, uiOnly, runOnly, hostVars, routeVars, OneRun, Idle
<1>6. CASE RouteCommand
  <2>1. cpc = "off" /\ rpc \in Idle /\ cmds # <<>>
    BY <1>6 DEF RouteCommand, Run, RunFails, clientVars, trayVars, TypeOK, ClientTypeOK
  <2> QED
    BY <2>1 DEF Placed, Idle, TypeOK, HostTypeOK
<1>7. CASE Network \/ UNCHANGED vars
  BY <1>2, <1>7 DEF Network, vars, hostVars, routeVars, trayVars
<1> QED
  BY <1>4, <1>5, <1>6, <1>7 DEF Next

LEMMA StepRemoved == TypeOK /\ Placed /\ OneRun /\ OwnRemoved /\ [Next]_vars => OwnRemoved'
<1> SUFFICES ASSUME TypeOK, Placed, OneRun, OwnRemoved, [Next]_vars PROVE OwnRemoved'
  OBVIOUS
<1>1. /\ job' = "setup" => AddOrder'
      /\ job' \in {"undo", "cleanup"} => Doomed'
  BY CommandsRemove
<1>2. prog' # "client" /\ rpc' \in Idle => OwnGone'
  BY IdleRemoved
<1> QED
  BY <1>1, <1>2 DEF OwnRemoved

---------------------------------------------------------------------------
(* Quitting *)

LEMMA InitQuits == Init => Quits
  BY DEF Init, TrayInit, Quits

(* Only a report of Disconnected puts one into stateCh. *)
LEMMA NoNewEnd ==
    ASSUME stateCh \in Seq(States),
           \/ stateCh' = stateCh
           \/ stateCh # <<>> /\ stateCh' = Tail(stateCh)
           \/ \E s \in States \ {"Disconnected"} : stateCh' = Append(stateCh, s)
    PROVE  Contains(stateCh', "Disconnected") => Contains(stateCh, "Disconnected")
<1>1. CASE stateCh' = stateCh
  BY <1>1
<1>2. CASE stateCh # <<>> /\ stateCh' = Tail(stateCh)
  BY <1>2 DEF Contains
<1>3. CASE \E s \in States \ {"Disconnected"} : stateCh' = Append(stateCh, s)
  BY <1>3 DEF Contains
<1> QED
  BY <1>1, <1>2, <1>3

LEMMA TrayQuits ==
    ASSUME TypeOK, StopOnce, Quits, TrayStep PROVE Quits'
<1> SUFFICES ASSUME clean', quitting' PROVE late' > 0 \/ Contains(stateCh', "Disconnected") => rpc' = "off"
  BY DEF Quits
<1>1. CASE ShutdownDisconnects /\ UNCHANGED <<stateCh, late>>
  <2>1. ~Contains(stateCh, "Disconnected") /\ late = 0
    BY <1>1, Zenon DEF ShutdownDisconnects
  <2> QED
    BY <1>1, <2>1
<1>2. CASE RunFinish
  BY <1>2 DEF RunFinish, RunGoto
<1>3. CASE LateReport
  <2>1. late > 0 /\ rpc' = rpc /\ clean /\ quitting
    BY <1>3 DEF LateReport, runOnly
  <2> QED
    BY <2>1 DEF Quits
<1>4. ASSUME ~(ShutdownDisconnects /\ UNCHANGED <<stateCh, late>>), ~RunFinish, ~LateReport
      PROVE  late' > 0 \/ Contains(stateCh', "Disconnected") => rpc' = "off"
  <2>1. clean /\ quitting
    BY <1>4 DEF TrayStep, TrayStart, Toggle, ShowState, Connect, StartRun, Disconnect,
       SendDisconnecting, CloseStop, Quit, Recheck, Drain, RunConnect, RunCheck, RunTUN,
       RunRouted, RunSendConnected, RunSetupFails, RunSessionLost, RunStopped, RunNotStopped,
       RunReconnect, RunCleaned, TrayKilled, TrayEnds, uiOnly, runOnly
  <2>2. late' = late /\ (rpc = "off" => rpc' = "off")
    BY <1>4, <2>1 DEF TrayStep, TrayStart, Toggle, ShowState, Connect, StartRun, Disconnect,
       SendDisconnecting, CloseStop, Quit, Recheck, Drain, RunConnect, RunCheck, RunTUN,
       RunRouted, RunSendConnected, RunSetupFails, RunSessionLost, RunStopped, RunNotStopped,
       RunReconnect, RunCleaned, TrayKilled, TrayEnds, uiOnly, runOnly, noReport, StopOnce
  <2>3. \/ stateCh' = stateCh
        \/ stateCh # <<>> /\ stateCh' = Tail(stateCh)
        \/ \E s \in States \ {"Disconnected"} : stateCh' = Append(stateCh, s)
    BY <1>4, <2>1 DEF TrayStep, TrayStart, Toggle, ShowState, Connect, StartRun, Disconnect,
       SendDisconnecting, CloseStop, Quit, Recheck, Drain, RunConnect, RunCheck, RunTUN,
       RunRouted, RunSendConnected, RunSetupFails, RunSessionLost, RunStopped, RunNotStopped,
       RunReconnect, RunCleaned, TrayKilled, TrayEnds, uiOnly, runOnly, noReport, StopOnce,
       Reported, States
  <2>4. Contains(stateCh', "Disconnected") => Contains(stateCh, "Disconnected")
    BY <2>3, NoNewEnd DEF TypeOK, TrayTypeOK
  <2> QED
    BY <2>1, <2>2, <2>4 DEF Quits
<1> QED
  BY <1>1, <1>2, <1>3, <1>4

LEMMA StepQuits == TypeOK /\ StopOnce /\ Quits /\ [Next]_vars => Quits'
<1> SUFFICES ASSUME TypeOK, StopOnce, Quits, [Next]_vars PROVE Quits'
  OBVIOUS
<1>1. CASE UNCHANGED trayVars
  BY <1>1 DEF trayVars, Quits
<1> QED
  BY <1>1, TrayQuits DEF Next, vars, RouteCommand, Network

LEMMA LastReport ==
    ASSUME TypeOK, StopOnce, OwnRemoved, Quits, [Next]_vars, prog = "tray", prog' = "none", clean'
    PROVE  own \cap table' \cap {"server", "low", "high"} = {}
<1>1. Drain
  BY DEF Next, vars, hostVars, RouteCommand, Network, ClientStep, ClientStart, ClientConnect,
     ClientAssign, ClientTUN, ClientRouted, ClientSignal, ClientSessionLost, ClientReconnect,
     ClientReassign, ClientReassignOther, ClientFatal, ClientShutdown, ClientDone, ClientKilled,
     TrayStep, TrayStart, Toggle, ShowState, Connect, StartRun, Disconnect,
     SendDisconnecting, CloseStop, Quit, Recheck, RunConnect, RunCheck, RunTUN, RunRouted,
     RunSendConnected, RunSetupFails, RunSessionLost, RunStopped, RunNotStopped, RunReconnect,
     RunCleaned, RunFinish, LateReport, TrayKilled, uiOnly, routeVars, TypeOK, ClientTypeOK
<1>2. ui = "drain" /\ stateCh # <<>> /\ Head(stateCh) = "Disconnected" /\ TrayEnds /\ clean
  BY <1>1 DEF Drain, uiOnly, hostVars
<1>3. Contains(stateCh, "Disconnected")
  BY <1>2 DEF Contains, TypeOK, TrayTypeOK
<1>4. OwnGone
  BY <1>2, <1>3 DEF Quits, StopOnce, OwnRemoved, Idle
<1> QED
  BY <1>2, <1>4 DEF TrayEnds, ProcessEnds, DeviceGone, OwnGone, TunnelRoutes

(* A tray whose shutdown goes on to Disconnect, with its tunnel up or      *)
(* still being set up, has removed the routes of its run when its process  *)
(* ends: the Disconnected it waits for is sent only after the cleanup has  *)
(* run to its end, or after a failed or interrupted setup has left nothing *)
(* of its own, and no state reported before it is taken for it.            *)
THEOREM QuitRemovesRoutes == Spec => QuitCleans
<1> DEFINE I == Placed /\ OneRun /\ StopOnce /\ OwnRemoved /\ Quits
<1>1. Init => I
  BY InitPlaced, InitStops, InitRemoved, InitQuits
<1>2. TypeOK /\ I /\ [Next]_vars => I'
  BY StepPlaced, StepStops, StepRemoved, StepQuits
<1>3. TypeOK /\ I /\ [Next]_vars =>
          [prog = "tray" /\ prog' = "none" /\ clean' =>
              own \cap table' \cap {"server", "low", "high"} = {}]_vars
  BY LastReport
<1> QED
  BY <1>1, <1>2, <1>3, TypeCorrect, PTL DEF Spec, QuitCleans
=============================================================================
