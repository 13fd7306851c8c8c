---------------------------- MODULE GatewayPool ----------------------------
(***************************************************************************)
(* The gateway's pool of upstream servers: startup, the per-member         *)
(* connection loops (cmd/gateway/main.go), the health flags and the event  *)
(* channel they share (internal/tunnel/pool.go), the debounced watcher and *)
(* the route it keeps installed (internal/routing/routing.go).             *)
(*                                                                         *)
(* Members are numbered in configuration order.  A member's tunnel device  *)
(* exists exactly while its iface is set: CreateTUN closes the device when *)
(* it fails, and nothing closes it before the process ends.                *)
(***************************************************************************)
EXTENDS Integers, FiniteSets

CONSTANTS
    N,            \* the number of configured servers
    Modes,        \* the values of routing_mode: "ecmp", "sticky", "standby"
    EventsCap,    \* the capacity of Pool.events
    None          \* the empty primary

Members == 1..N

ASSUME PoolAssumption ==
    /\ N \in Nat \ {0}
    /\ Modes \subseteq {"ecmp", "sticky", "standby"}
    /\ EventsCap \in Nat \ {0}
    /\ None \notin Members

VARIABLES
    mode,         \* routing_mode, read once from the configuration
    main,         \* where startup is
    loop,         \* where each member's goroutine is
    healthy,      \* Member.healthy
    iface,        \* Member.iface is set and the device exists
    up,           \* the member's server can be reached
    live,         \* the member's current connection works
    events,       \* the number of ticks in Pool.events
    watch,        \* the watcher goroutine: its select, or its reading of the pool
    timer,        \* the debounce timer is armed
    primary,      \* routeSelector.primary
    route,        \* the tunnels new flows are sent to: Manager.activeIface and
                  \* the route or the selection chain it describes
    pinned,       \* sticky mode: the tunnels whose own table has a default route
    applyErr      \* the last Apply returned an error

vars == <<mode, main, loop, healthy, iface, up, live, events, watch, timer,
          primary, route, pinned, applyErr>>

poolVars == <<healthy, iface>>
routeVars == <<mode, primary, route, pinned, applyErr>>
watchVars == <<watch, timer>>
netVars == <<up, live>>

Select == [phase |-> "select", next |-> 1, seen |-> {}]

Init ==
    /\ mode \in Modes
    /\ main = "connect"
    /\ loop = [m \in Members |-> "none"]
    /\ healthy = [m \in Members |-> FALSE]
    /\ iface = [m \in Members |-> FALSE]
    /\ up \in [Members -> BOOLEAN]
    /\ live = [m \in Members |-> FALSE]
    /\ events = 0
    /\ watch = Select
    /\ timer = FALSE
    /\ primary = None
    /\ route = {}
    /\ pinned = {}
    /\ applyErr = FALSE

---------------------------------------------------------------------------
(* Pool *)

HealthySet == {m \in Members : healthy[m]}

Provisioned == {m \in Members : iface[m]}

(* activeIfaceNames *)
Active == HealthySet \cap Provisioned

(* Mutant: a consumer that is busy costs the producer its tick. *)
NotifyIfIdle(n) == IF n = 0 /\ watch = Select /\ ~timer THEN 1 ELSE n

(* Pool.notify on a channel that holds n ticks. *)
Notify(n) == IF n < EventsCap THEN n + 1 ELSE n

---------------------------------------------------------------------------
(* routeSelector and Manager.Apply *)

First(S) == CHOOSE m \in S : \A k \in S : m <= k

(* Mutant: the first healthy tunnel in configuration order, always. *)
PrimaryFirst(act) == IF act = {} THEN None ELSE First(act)

(* The primary after a look at the active tunnels. *)
Primary(act) ==
    IF primary \in act THEN primary
    ELSE IF act = {} THEN None ELSE First(act)

Selection(act, p) ==
    IF mode # "standby" THEN act ELSE IF p = None THEN {} ELSE {p}

(* Nothing is left to route to, or the set is the installed one. *)
Skip(sel) == sel = {} \/ sel = route

(* Mutant: a tunnel set that lost members counts as unchanged. *)
RebuildGrowing(sel) ==
    /\ route' = IF sel \subseteq route THEN route ELSE sel
    /\ applyErr' = FALSE
    /\ UNCHANGED pinned

(* One command replaces the route, or fails and leaves it. *)
RebuildECMP(sel) ==
    /\ UNCHANGED pinned
    /\ \/ Skip(sel) /\ applyErr' = FALSE /\ UNCHANGED route
       \/ ~Skip(sel) /\ applyErr' = FALSE /\ route' = sel
       \/ ~Skip(sel) /\ applyErr' = TRUE /\ UNCHANGED route

(* Mutant: the selection chain is rewritten before the tables are pinned. *)
RebuildChainFirst(sel) ==
    \/ Skip(sel) /\ applyErr' = FALSE /\ UNCHANGED <<route, pinned>>
    \/ /\ ~Skip(sel)
       /\ route' = sel
       /\ \/ applyErr' = FALSE /\ pinned' = pinned \cup sel
          \/ applyErr' = TRUE /\ UNCHANGED pinned

(* The tunnels are pinned one by one before the selection chain is swapped *)
(* as a whole, so a failure leaves the first of them pinned.               *)
RebuildSticky(sel) ==
    \/ Skip(sel) /\ applyErr' = FALSE /\ UNCHANGED <<route, pinned>>
    \/ ~Skip(sel) /\ applyErr' = FALSE /\ route' = sel /\ pinned' = pinned \cup sel
    \/ /\ ~Skip(sel) /\ applyErr' = TRUE /\ UNCHANGED route
       /\ \E last \in 0..N : pinned' = pinned \cup {m \in sel : m <= last}

(* rtMgr.Apply(sel.active()) *)
Apply(act) ==
    /\ UNCHANGED mode
    /\ primary' = IF mode = "standby" THEN Primary(act) ELSE primary
    /\ LET sel == Selection(act, primary')
       IN  IF mode = "sticky" THEN RebuildSticky(sel) ELSE RebuildECMP(sel)

---------------------------------------------------------------------------
(* Startup: one goroutine, nothing else runs yet.                          *)

(* Pool.ConnectAll: S are the members that could be dialled. *)
ConnectAll(S) ==
    /\ main = "connect"
    /\ S \subseteq {m \in Members : up[m]}
    /\ healthy' = [m \in Members |-> m \in S]
    /\ live' = [m \in Members |-> m \in S]
    /\ main' = IF S = {} THEN "fatal" ELSE "provision"
    /\ events' = IF S = {} THEN events ELSE Notify(events)
    /\ UNCHANGED <<loop, iface, up, watchVars, routeVars>>

NotifyTimes(k) == IF events + k < EventsCap THEN events + k ELSE EventsCap

(* Address request and device for every healthy member, in turn; P are the *)
(* ones that got both, the others are marked unhealthy.                    *)
Provision(P) ==
    /\ main = "provision"
    /\ P \subseteq {m \in HealthySet : live[m]}
    /\ healthy' = [m \in Members |-> m \in P]
    /\ iface' = [m \in Members |-> m \in P]
    /\ events' = NotifyTimes(Cardinality(HealthySet \ P))
    /\ main' = IF P = {} THEN "fatal" ELSE "setup"
    /\ UNCHANGED <<loop, netVars, watchVars, routeVars>>

(* Manager.Setup: the first route goes over every device that exists, with *)
(* no regard to the mode or to health; an error is fatal.                  *)
Setup ==
    /\ main = "setup"
    /\ \/ /\ main' = "apply"
          /\ route' = Provisioned
          /\ pinned' = IF mode = "sticky" THEN Provisioned ELSE pinned
       \/ /\ main' = "fatal"
          /\ UNCHANGED <<route, pinned>>
    /\ UNCHANGED <<mode, loop, poolVars, netVars, events, watchVars, primary, applyErr>>

(* The initial Apply, whose error is only logged, and the start of the     *)
(* watcher and of the members' goroutines.                                 *)
InitialApply ==
    /\ main = "apply"
    /\ Apply(Active)
    /\ main' = "run"
    /\ loop' = [m \in Members |->
                  IF ~healthy[m] THEN "orphan" ELSE IF iface[m] THEN "session" ELSE "none"]
    /\ UNCHANGED <<poolVars, netVars, events, watchVars>>

---------------------------------------------------------------------------
(* memberDataLoop and reconnectOrphan                                      *)

Goto(m, label) == loop' = [loop EXCEPT ![m] = label]

(* The session ends, because the connection is dead or because the server, *)
(* the prober or a failed write ended it: it is closed, the member marked  *)
(* unhealthy ...                                                           *)
SessionLost(m) ==
    /\ loop[m] = "session"
    /\ live' = [live EXCEPT ![m] = FALSE]
    /\ healthy' = [healthy EXCEPT ![m] = FALSE]
    /\ Goto(m, IF healthy[m] THEN "evicted" ELSE "redial")
    /\ UNCHANGED <<main, iface, up, events, watchVars, routeVars>>

(* ... and the pool told, outside the member's lock. *)
NotifyDown(m) ==
    /\ loop[m] = "evicted"
    /\ events' = Notify(events)
    /\ Goto(m, "redial")
    /\ UNCHANGED <<main, poolVars, netVars, watchVars, routeVars>>

(* ConnManager.Reconnect, which tries until it succeeds. *)
Reconnect(m) ==
    /\ loop[m] \in {"redial", "orphan"}
    /\ up[m]
    /\ live' = [live EXCEPT ![m] = TRUE]
    /\ Goto(m, IF loop[m] = "redial" THEN "assign" ELSE "provision")
    /\ UNCHANGED <<main, poolVars, up, events, watchVars, routeVars>>

(* The server confirms the address, or hands out another one and the       *)
(* device is re-addressed.                                                 *)
Reassign(m) ==
    /\ loop[m] = "assign"
    /\ live[m]
    /\ Goto(m, "hold")
    /\ UNCHANGED <<main, poolVars, netVars, events, watchVars, routeVars>>

(* The request fails or times out, or the device cannot be re-addressed.   *)
(* The member is unhealthy already, so nobody is told; the goroutine ends. *)
ReassignFails(m) ==
    /\ loop[m] = "assign"
    /\ Goto(m, "dead")
    /\ UNCHANGED <<main, poolVars, netVars, events, watchVars, routeVars>>

(* Mutant: the member joins before its device is there. *)
JoinUnprovisioned(m) ==
    /\ loop[m] \in {"hold", "provision"}
    /\ healthy' = [healthy EXCEPT ![m] = TRUE]
    /\ Goto(m, "joined")
    /\ UNCHANGED <<main, iface, netVars, events, watchVars, routeVars>>

(* The hold-down, if any, is over: MarkHealthy sets the flag ... *)
Join(m) ==
    /\ loop[m] = "hold"
    /\ healthy' = [healthy EXCEPT ![m] = TRUE]
    /\ Goto(m, "joined")
    /\ UNCHANGED <<main, iface, netVars, events, watchVars, routeVars>>

(* ... and tells the pool. *)
NotifyUp(m) ==
    /\ loop[m] = "joined"
    /\ events' = Notify(events)
    /\ Goto(m, "session")
    /\ UNCHANGED <<main, poolVars, netVars, watchVars, routeVars>>

(* A member that was not there at startup gets its address and its device, *)
(* and joins.                                                              *)
OrphanProvision(m) ==
    /\ loop[m] = "provision"
    /\ live[m]
    /\ iface' = [iface EXCEPT ![m] = TRUE]
    /\ Goto(m, "hold")
    /\ UNCHANGED <<main, healthy, netVars, events, watchVars, routeVars>>

(* Mutant: the orphan's loop gives up like the data loop. *)
OrphanGivesUp(m) ==
    /\ loop[m] = "provision"
    /\ Goto(m, "dead")
    /\ UNCHANGED <<main, poolVars, netVars, events, watchVars, routeVars>>

(* It gets no address or no device: pause and start over. *)
OrphanFails(m) ==
    /\ loop[m] = "provision"
    /\ Goto(m, "orphan")
    /\ UNCHANGED <<main, poolVars, netVars, events, watchVars, routeVars>>

---------------------------------------------------------------------------
(* The pool event watcher                                                  *)

(* A tick arms the timer, or starts it anew. *)
WatchEvent ==
    /\ main = "run"
    /\ watch.phase = "select"
    /\ events > 0
    /\ events' = events - 1
    /\ timer' = TRUE
    /\ UNCHANGED <<main, loop, poolVars, netVars, watch, routeVars>>

(* The timer fires: read the members' health, one lock at a time. *)
WatchTimer ==
    /\ main = "run"
    /\ watch.phase = "select"
    /\ timer
    /\ timer' = FALSE
    /\ watch' = [phase |-> "scan", next |-> 1, seen |-> {}]
    /\ UNCHANGED <<main, loop, poolVars, netVars, events, routeVars>>

ScanMember ==
    /\ watch.phase = "scan"
    /\ watch.next <= N
    /\ watch' = [watch EXCEPT
                   !.next = watch.next + 1,
                   !.seen = IF healthy[watch.next] THEN watch.seen \cup {watch.next}
                                                   ELSE watch.seen]
    /\ UNCHANGED <<main, loop, poolVars, netVars, events, timer, routeVars>>

WatchApply ==
    /\ watch.phase = "scan"
    /\ watch.next = N + 1
    /\ Apply(watch.seen \cap Provisioned)
    /\ watch' = Select
    /\ UNCHANGED <<main, loop, poolVars, netVars, events, timer>>

---------------------------------------------------------------------------
(* The servers and the paths to them *)

Outage(m) ==
    /\ up[m]
    /\ up' = [up EXCEPT ![m] = FALSE]
    /\ live' = [live EXCEPT ![m] = FALSE]
    /\ UNCHANGED <<main, loop, poolVars, events, watchVars, routeVars>>

Recover(m) ==
    /\ ~up[m]
    /\ up' = [up EXCEPT ![m] = TRUE]
    /\ UNCHANGED <<main, loop, poolVars, live, events, watchVars, routeVars>>

---------------------------------------------------------------------------

Startup ==
    \/ \E S \in SUBSET Members : ConnectAll(S) \/ Provision(S)
    \/ Setup \/ InitialApply

Watcher == WatchEvent \/ WatchTimer \/ ScanMember \/ WatchApply

MemberStep(m) ==
    \/ SessionLost(m) \/ NotifyDown(m) \/ Reconnect(m)
    \/ Reassign(m) \/ ReassignFails(m) \/ Join(m) \/ NotifyUp(m)
    \/ OrphanProvision(m) \/ OrphanFails(m)

Network(m) == Outage(m) \/ Recover(m)

Next ==
    \/ Startup \/ Watcher
    \/ \E m \in Members : MemberStep(m) \/ Network(m)

Spec == Init /\ [][Next]_vars

(* Goroutines that can run do.  The timer fires once no further tick comes *)
(* to start it anew.  A dead connection is noticed; on a working one an    *)
(* orphan's requests do not fail for ever.                                 *)
Fairness ==
    /\ WF_vars(WatchEvent) /\ WF_vars(events = 0 /\ WatchTimer)
    /\ WF_vars(ScanMember) /\ WF_vars(WatchApply)
    /\ \A m \in Members :
          /\ WF_vars(~live[m] /\ SessionLost(m)) /\ WF_vars(NotifyDown(m)) /\ WF_vars(Reconnect(m))
          /\ WF_vars(Reassign(m) \/ ReassignFails(m)) /\ WF_vars(Join(m)) /\ WF_vars(NotifyUp(m))
          /\ SF_vars(OrphanProvision(m)) /\ WF_vars(OrphanFails(m))

FairSpec == Spec /\ Fairness

---------------------------------------------------------------------------
(* Properties *)

Labels == {"none", "orphan", "provision", "session", "evicted", "redial", "assign",
           "hold", "joined", "dead"}

TypeOK ==
    /\ mode \in Modes
    /\ main \in {"connect", "provision", "setup", "apply", "run", "fatal"}
    /\ loop \in [Members -> Labels]
    /\ healthy \in [Members -> BOOLEAN]
    /\ iface \in [Members -> BOOLEAN]
    /\ up \in [Members -> BOOLEAN]
    /\ live \in [Members -> BOOLEAN]
    /\ events \in 0..EventsCap
    /\ watch \in [phase : {"select", "scan"}, next : 1..(N + 1), seen : SUBSET Members]
    /\ timer \in BOOLEAN
    /\ primary \in Members \cup {None}
    /\ route \subseteq Members
    /\ pinned \subseteq Members
    /\ applyErr \in BOOLEAN

(* A change of a member's health that the watcher has not been told of. *)
Untold == \E m \in Members : loop[m] \in {"evicted", "joined"}

(* Nothing will make the watcher look at the pool again. *)
Quiet == main = "run" /\ watch.phase = "select" /\ events = 0 /\ ~timer /\ ~Untold

(* The route sends new flows to what the mode selects among the tunnels. *)
Follows(act) ==
    IF mode = "standby" THEN primary \in act /\ route = {primary} ELSE route = act

(* No membership change is lost between the health flags, the coalescing   *)
(* channel, the debounce timer and the member-by-member reading: when      *)
(* nothing is left to wake the watcher, the route is the one the current   *)
(* members call for, unless no member is left or the last command failed.  *)
NoLostChange == Quiet /\ ~applyErr /\ Active # {} => Follows(Active)

(* A member is healthy only with a device: it joins the route only after   *)
(* both connect and address assignment have succeeded, and no healthy      *)
(* member is left without a goroutine to run it.                           *)
HealthyIsServed ==
    main = "run" => \A m \in Members :
        /\ healthy[m] => iface[m] /\ loop[m] \in {"session", "joined"}
        /\ loop[m] # "none"

(* The route and the selection chain use tunnels whose device exists and,  *)
(* in sticky mode, whose own table leads there, after any failed command.  *)
RoutedIsUsable == route \subseteq Provisioned /\ (mode = "sticky" => route \subseteq pinned)

(* Once membership settles, the route does. *)
RouteSettles ==
    \A S \in SUBSET Members \ {{}} :
        <>[](main = "run" /\ Active = S /\ ~applyErr) => <>[]Follows(S)

(* Live flows are not moved while the primary is up: a primary that stays  *)
(* healthy is not replaced again and again by others that come and go.     *)
PrimaryKept ==
    \A p \in Members :
        (mode = "standby" /\ <>[]healthy[p] /\ []<>(primary = p)) => <>[](primary = p)

(* A member whose server recovers rejoins, whatever it failed at before,   *)
(* unless it had joined once and its goroutine has ended; one that failed  *)
(* at startup is never given up.                                           *)
Abandoned(m) == loop[m] = "dead" /\ iface[m]

RejoinsUnlessAbandoned ==
    \A m \in Members :
        <>[](main = "run" /\ up[m] /\ ~Abandoned(m)) => []<>healthy[m]

(* "when it recovers, it rejoins automatically" *)
Rejoins ==
    \A m \in Members : <>[](main = "run" /\ up[m]) => []<>healthy[m]
=============================================================================
