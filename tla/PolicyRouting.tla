--------------------------- MODULE PolicyRouting ---------------------------
(***************************************************************************)
(* The gateway's packet steering (internal/routing/routing.go): Setup and  *)
(* Teardown command by command, the rebuilds, and what the kernel does     *)
(* with a packet under the rules that are installed at that moment.        *)
(*                                                                         *)
(* The process may be killed between any two commands.  Rules, tables,     *)
(* sets and conntrack marks stay; the tunnel devices, and the routes over  *)
(* them, go with the process.  Tunnel i has mark i and table i in sticky   *)
(* mode; in the other modes the one tunnel mark and table are 1.  The two  *)
(* address sets may change at any moment in any way (DirectSets has how).  *)
(***************************************************************************)
EXTENDS Integers, Sequences, SequencesExt

CONSTANTS
    Dests,        \* destinations: subnets, none within another
    N,            \* the number of configured tunnels
    Modes,        \* "ecmp" (WireGuard ingress), "transit" (a local proxy's
                  \* mark), "sticky" (WireGuard ingress, CONNMARK)
    Flows,        \* connections, each to a fixed destination
    FlowDst,      \* their destinations
    MaxCrashes    \* bound: kills

Tunnels == 1..N

ASSUME RoutingAssumption ==
    /\ N \in Nat \ {0}
    /\ Modes \subseteq {"ecmp", "transit", "sticky"}
    /\ FlowDst \in [Flows -> Dests]
    /\ MaxCrashes \in Nat

VARIABLES
    direct,       \* the ipset direct-ips
    proxy,        \* the ipset proxy-ips
    mode,         \* the routing mode of the configuration
    job,          \* "off", "setup", "run" or "teardown"
    cmds,         \* the commands Setup or Teardown still has to run
    pre,          \* the rules of mangle PREROUTING (of OUTPUT in transit mode)
    out,          \* transit: the rules of the chain FTYB_OUT
    chain,        \* sticky: the marks FTYB_SEL spreads new flows over
    rules,        \* the marks that have an ip rule
    fallback,     \* the tables with the unreachable default route
    route,        \* per table, the tunnels of its default route
    bypass,       \* the host routes to the servers are installed
    nat,          \* copies of the NAT and FORWARD rules
    dev,          \* the tunnels whose device exists
    connmark,     \* sticky: the mark conntrack has saved per flow
    crashes,      \* kills so far
    armed,        \* Setup has completed, and no Teardown begun since
    halfTorn      \* the process was killed during a Teardown

ruleVars == <<pre, out, chain, rules, fallback, route, bypass, nat>>
setVars == <<direct, proxy>>
vars == <<setVars, mode, job, cmds, ruleVars, dev, connmark, crashes, armed, halfTorn>>

ISP == 0                \* out of the main table
Reject == -1            \* the unreachable route

Init ==
    /\ direct = {} /\ proxy = {}
    /\ mode \in Modes
    /\ job = "off" /\ cmds = <<>>
    /\ pre = <<>> /\ out = <<>> /\ chain = <<>>
    /\ rules = {} /\ fallback = {} /\ route = [t \in Tunnels |-> {}]
    /\ bypass = FALSE /\ nat = 0
    /\ dev = {}
    /\ connmark = [f \in Flows |-> 0]
    /\ crashes = 0 /\ armed = FALSE /\ halfTorn = FALSE

---------------------------------------------------------------------------
(* What the kernel does with a packet *)

(* The rules at which a packet to d with mark m leaves the chain: those    *)
(* that let it pass as it is, and those that send it to the selection.     *)
Ends(r, d, m) ==
    \/ r = "pinned" /\ m # 0
    \/ r = "directret" /\ d \in direct
    \/ r = "proxysel" /\ d \in proxy
    \/ r = "sel"

(* The rules that give it a mark, and which. *)
Marks(r, d) ==
    \/ r \in {"restore", "tunnel"}
    \/ r = "direct" /\ d \in direct
    \/ r = "proxy" /\ d \in proxy

MarkOf(r, saved) == IF r = "restore" THEN saved ELSE IF r = "direct" THEN 0 ELSE 1

(* The rules a packet meets.  In transit mode the proxy's packets come     *)
(* with its own mark, for which there is no ip rule, and jump to FTYB_OUT. *)
Met == IF mode = "transit" THEN (IF Contains(pre, "jump") THEN out ELSE <<>>) ELSE pre

(* The mark with which it comes to the k-th rule: that of the last rule    *)
(* before which gave it one.  saved is the flow's conntrack mark.          *)
MarkAt(k, d, saved) ==
    LET given == {j \in 1..(k - 1) : Marks(Met[j], d)}
    IN  IF given = {} THEN 0 ELSE MarkOf(Met[Max(given)], saved)

Ending(d, saved) == {k \in 1..Len(Met) : Ends(Met[k], d, MarkAt(k, d, saved))}

(* The packet after the chain, which it leaves at the first rule that ends *)
(* it: its mark, and whether it went through the selection.  There it gets *)
(* the mark pick, unless it has one, and the mark is saved.                *)
Packet(d, saved, pick) ==
    LET ends == Ending(d, saved)
        last == IF ends = {} THEN Len(Met) + 1 ELSE Min(ends)
        sel  == ends # {} /\ Met[last] \in {"proxysel", "sel"}
        mark == MarkAt(last, d, saved)
    IN  [mark |-> IF sel /\ mark = 0 THEN pick ELSE mark, sel |-> sel]

Picks == IF chain = <<>> THEN {0} ELSE ToSet(chain)

(* Where a packet with a mark may leave. *)
Exits(mark) ==
    IF mark \notin rules THEN {ISP}
    ELSE IF route[mark] # {} THEN route[mark]
    ELSE IF mark \in fallback THEN {Reject} ELSE {ISP}

(* Where the first packet of a flow to d may leave. *)
NewFlow(d) == UNION {Exits(Packet(d, 0, pick).mark) : pick \in Picks}

---------------------------------------------------------------------------
(* The commands of Setup and Teardown *)

Cmd(c, i) == [c |-> c, i |-> i]
One(c) == <<Cmd(c, 1)>>
Append2(s) == [j \in DOMAIN s |-> Cmd("append", s[j])]
Delete2(s) == [j \in DOMAIN s |-> Cmd("delete", s[j])]
ForTunnels(s) ==
    [j \in 1..(N * Len(s)) |-> Cmd(s[((j - 1) % Len(s)) + 1], ((j - 1) \div Len(s)) + 1)]

StickyRules == <<"restore", "pinned", "proxysel", "directret", "sel">>

(* Mutant: new flows are classified before the pinned mark is restored. *)
WGRulesRestoreLast ==
    IF mode = "sticky" THEN <<"proxysel", "directret", "sel", "restore", "pinned">>
    ELSE <<"tunnel", "direct", "proxy">>

(* Mutant: the rule for everything comes after the one for direct subnets. *)
WGRulesTunnelLast ==
    IF mode = "sticky" THEN <<"restore", "pinned", "proxysel", "sel", "directret">>
    ELSE <<"direct", "tunnel", "proxy">>

(* The PREROUTING rules of WireGuard ingress. *)
WGRules == IF mode = "sticky" THEN StickyRules ELSE <<"tunnel", "direct", "proxy">>

OutRules == <<"tunnel", "direct", "proxy">>

(* Mutant: the table is used before it has its unreachable route. *)
RoutingCmdsNoFallback ==
    IF mode = "sticky" THEN ForTunnels(<<"rule", "pin">>) ELSE One("rule") \o One("route")

(* setupStickyRouting's loop, and setupPolicyRouting. *)
RoutingCmds ==
    IF mode = "sticky" THEN ForTunnels(<<"rule", "fallback", "pin">>)
    ELSE One("rule") \o One("fallback") \o One("route")

(* Mutant: FTYB_OUT is not flushed before it is filled. *)
SetupCmdsNoFlush ==
    One("bypass") \o One("load") \o
    (CASE mode = "ecmp"    -> Append2(WGRules) \o RoutingCmds
       [] mode = "transit" -> [j \in DOMAIN OutRules |-> Cmd("appendOut", OutRules[j])]
                              \o Append2(<<"jump">>) \o RoutingCmds
       [] mode = "sticky"  -> RoutingCmds \o One("flushSel") \o One("select") \o Append2(WGRules))
    \o One("nat")

SetupCmds ==
    One("bypass") \o One("load") \o
    (CASE mode = "ecmp"    -> Append2(WGRules) \o RoutingCmds
       [] mode = "transit" -> One("flushOut")
                              \o [j \in DOMAIN OutRules |-> Cmd("appendOut", OutRules[j])]
                              \o Append2(<<"jump">>) \o RoutingCmds
       [] mode = "sticky"  -> RoutingCmds \o One("flushSel") \o One("select") \o Append2(WGRules))
    \o One("nat")

(* Mutant: the sets are destroyed first, while rules still name them. *)
TeardownCmdsSetsFirst ==
    One("delBypass") \o One("destroySets") \o
    (CASE mode = "ecmp"    -> One("delRule") \o One("flushTable") \o Delete2(WGRules)
       [] mode = "transit" -> One("delRule") \o One("flushTable")
                              \o Delete2(<<"jump">>) \o One("flushOut")
       [] mode = "sticky"  -> Delete2(WGRules) \o One("flushSel")
                              \o ForTunnels(<<"delRule", "flushTable">>))
    \o One("delNat")

TeardownCmds ==
    One("delBypass") \o
    (CASE mode = "ecmp"    -> One("delRule") \o One("flushTable") \o Delete2(WGRules)
       [] mode = "transit" -> One("delRule") \o One("flushTable")
                              \o Delete2(<<"jump">>) \o One("flushOut")
       [] mode = "sticky"  -> Delete2(WGRules) \o One("flushSel")
                              \o ForTunnels(<<"delRule", "flushTable">>))
    \o One("delNat") \o One("destroySets")

(* Effects on the rules and tables. *)
Effect(c, i) ==
    /\ pre' = CASE c = "append" -> Append(pre, i)
                [] c = "delete" -> RemoveFirst(pre, i)
                [] OTHER        -> pre
    /\ out' = CASE c = "flushOut" -> <<>> [] c = "appendOut" -> Append(out, i) [] OTHER -> out
    /\ chain' = CASE c = "flushSel" -> <<>>
                  [] c = "select"   -> SetToSeq(dev)
                  [] OTHER          -> chain
    /\ rules' = CASE c = "rule" -> rules \cup {i} [] c = "delRule" -> rules \ {i} [] OTHER -> rules
    /\ fallback' = CASE c = "fallback"   -> fallback \cup {i}
                     [] c = "flushTable" -> fallback \ {i}
                     [] OTHER            -> fallback
    /\ route' = CASE c = "route"      -> [route EXCEPT ![1] = dev]
                  [] c = "pin"        -> [route EXCEPT ![i] = dev \cap {i}]
                  [] c = "flushTable" -> [route EXCEPT ![i] = {}]
                  [] OTHER            -> route
    /\ bypass' = CASE c = "bypass" -> TRUE [] c = "delBypass" -> FALSE [] OTHER -> bypass
    /\ nat' = CASE c = "nat" -> nat + 1
                [] c = "delNat" /\ nat > 0 -> nat - 1
                [] OTHER -> nat

Named(kinds) == (ToSet(pre) \cup ToSet(out)) \cap kinds # {}

RunCmd ==
    /\ cmds # <<>>
    /\ cmds' = Tail(cmds)
    /\ Effect(Head(cmds).c, Head(cmds).i)
    /\ CASE Head(cmds).c = "load" ->
               \E L \in SUBSET Dests : direct' = direct \cup L /\ UNCHANGED proxy
         [] Head(cmds).c = "destroySets" ->
               /\ direct' = IF Named({"direct", "directret"}) THEN direct ELSE {}
               /\ proxy' = IF Named({"proxy", "proxysel"}) THEN proxy ELSE {}
         [] OTHER -> UNCHANGED setVars
    /\ UNCHANGED <<mode, job, dev, connmark, crashes, armed, halfTorn>>

---------------------------------------------------------------------------
(* The gateway process *)

(* It has provisioned the tunnels D and calls Setup. *)
Start(D) ==
    /\ job = "off" /\ D # {}
    /\ job' = "setup" /\ cmds' = SetupCmds
    /\ dev' = D
    /\ UNCHANGED <<setVars, mode, ruleVars, connmark, crashes, armed, halfTorn>>

SetupDone ==
    /\ job = "setup" /\ cmds = <<>>
    /\ job' = "run" /\ armed' = TRUE
    /\ UNCHANGED <<setVars, mode, cmds, ruleVars, dev, connmark, crashes, halfTorn>>

(* A member that was down at startup brings up its device. *)
DeviceUp(t) ==
    /\ job = "run" /\ t \notin dev
    /\ dev' = dev \cup {t}
    /\ UNCHANGED <<setVars, mode, job, cmds, ruleVars, connmark, crashes, armed, halfTorn>>

(* RebuildSticky or RebuildECMP over the active tunnels (GatewayPool has   *)
(* when, over which, and what happens when a command fails).               *)
ApplyActive(act) ==
    /\ job = "run" /\ act # {} /\ act \subseteq dev
    /\ IF mode = "sticky"
       THEN /\ route' = [t \in Tunnels |-> IF t \in act THEN {t} ELSE route[t]]
            /\ chain' = SetToSeq(act)
       ELSE /\ route' = [route EXCEPT ![1] = act]
            /\ UNCHANGED chain
    /\ UNCHANGED <<setVars, mode, job, cmds, pre, out, rules, fallback, bypass, nat, dev,
                   connmark, crashes, armed, halfTorn>>

Teardown ==
    /\ job = "run"
    /\ job' = "teardown" /\ cmds' = TeardownCmds /\ armed' = FALSE
    /\ UNCHANGED <<setVars, mode, ruleVars, dev, connmark, crashes, halfTorn>>

DevicesGone ==
    /\ job' = "off" /\ cmds' = <<>>
    /\ dev' = {} /\ route' = [t \in Tunnels |-> {}]

(* Teardown is over and the process ends. *)
Exit ==
    /\ job = "teardown" /\ cmds = <<>>
    /\ DevicesGone
    /\ UNCHANGED <<setVars, mode, pre, out, chain, rules, fallback, bypass, nat, connmark, crashes,
                   armed, halfTorn>>

(* It is killed, or a command of Setup fails, which is fatal. *)
Crash ==
    /\ job # "off" /\ crashes < MaxCrashes
    /\ crashes' = crashes + 1
    /\ DevicesGone
    /\ halfTorn' = (halfTorn \/ job = "teardown")
    /\ UNCHANGED <<setVars, mode, pre, out, chain, rules, fallback, bypass, nat, connmark, armed>>

---------------------------------------------------------------------------
(* Traffic *)

SendPacket(f) ==
    \E pick \in Picks :
        LET p == Packet(FlowDst[f], connmark[f], pick)
        IN  /\ connmark' = [connmark EXCEPT ![f] = IF p.sel THEN p.mark ELSE @]
            /\ UNCHANGED <<setVars, mode, job, cmds, ruleVars, dev, crashes, armed, halfTorn>>

(* Conntrack forgets the flow. *)
FlowEnds(f) ==
    /\ connmark' = [connmark EXCEPT ![f] = 0]
    /\ UNCHANGED <<setVars, mode, job, cmds, ruleVars, dev, crashes, armed, halfTorn>>

---------------------------------------------------------------------------

(* An update of the GeoIP list or an exception. *)
SetsChange ==
    /\ job = "run"
    /\ direct' \in SUBSET Dests /\ proxy' \in SUBSET Dests
    /\ UNCHANGED <<mode, job, cmds, ruleVars, dev, connmark, crashes, armed, halfTorn>>

Next ==
    \/ \E S \in SUBSET Tunnels : Start(S) \/ ApplyActive(S)
    \/ RunCmd \/ SetupDone \/ Teardown \/ Exit \/ Crash
    \/ \E t \in Tunnels : DeviceUp(t)
    \/ \E f \in Flows : SendPacket(f) \/ FlowEnds(f)
    \/ SetsChange

Spec == Init /\ [][Next]_vars

---------------------------------------------------------------------------
(* Properties *)

(* The types; a killed process leaves one copy of its rules and no more,   *)
(* and no table has a route over a device that is gone.                    *)
TypeOK ==
    /\ direct \subseteq Dests /\ proxy \subseteq Dests
    /\ mode \in Modes
    /\ job \in {"off", "setup", "run", "teardown"}
    /\ Len(pre) <= 5 * (MaxCrashes + 1)
    /\ Len(out) <= 3 /\ Len(chain) <= N
    /\ rules \subseteq Tunnels /\ fallback \subseteq Tunnels
    /\ dev \subseteq Tunnels /\ \A t \in Tunnels : route[t] \subseteq dev
    /\ connmark \in [Flows -> 0..N]
    /\ crashes \in 0..MaxCrashes
    /\ nat \in 0..(MaxCrashes + 1)

(* While the gateway runs, the servers are routed around the tunnels and   *)
(* the NAT rules are there; and a Teardown undoes all that Setup and the   *)
(* rebuilds since have done, as long as no process was killed (each killed *)
(* one leaves a copy of its rules, and Teardown deletes one).              *)
TeardownUndoes ==
    /\ job = "run" => bypass /\ nat > 0
    /\ job = "off" /\ crashes = 0 =>
           /\ pre = <<>> /\ out = <<>> /\ chain = <<>>
           /\ rules = {} /\ fallback = {} /\ \A t \in Tunnels : route[t] = {}
           /\ ~bypass /\ nat = 0
           /\ direct = {} /\ proxy = {}

(* The chain new flows are classified in is empty: a restart after a kill  *)
(* flushes it before it is filled again.                                   *)
Flushed ==
    \/ mode = "sticky" /\ chain = <<>>
    \/ mode = "transit" /\ out = <<>>

(* From the first completed Setup to the Teardown, through rebuilds, kills *)
(* and the Setup that runs over what a killed process left, what is not    *)
(* direct never leaves by the ISP: with no tunnel it is rejected.  Two     *)
(* windows of that second Setup are left out, because the code has them:   *)
(* the moment after the flush, and, for a subnet both direct and forced    *)
(* into the tunnel, until it has completed.                                *)
Protected ==
    armed /\ ~halfTorn /\ ~Flushed =>
        \A d \in Dests : d \notin direct \/ (d \in proxy /\ job = "run") => ISP \notin NewFlow(d)

(* While the gateway runs, direct destinations leave by the ISP and only   *)
(* there, whatever rules earlier processes left behind.                    *)
DirectHonoured ==
    job = "run" /\ ~halfTorn => \A d \in direct \ proxy : NewFlow(d) = {ISP}

(* A flow that a tunnel was picked for is never moved to another tunnel:   *)
(* as long as conntrack knows it, membership changes, set updates, kills   *)
(* and restarts leave its mark alone, and the mark names one tunnel.       *)
(* (While Teardown takes the rules away one by one the mark may change.)   *)
FlowPinned ==
    [][mode = "sticky" /\ ~halfTorn' /\ job' # "teardown" => \A f \in Flows :
          connmark[f] # 0 => /\ connmark'[f] \in {connmark[f], 0}
                             /\ route'[connmark[f]] \subseteq {connmark[f]}]_vars
=============================================================================
