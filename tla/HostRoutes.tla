----------------------------- MODULE HostRoutes -----------------------------
(***************************************************************************)
(* The routing table of the machine a tunnel program runs on, and the two  *)
(* functions that change it: SetupRoutes and the cleanup function it       *)
(* returns (internal/tunnel/router.go for Linux, router_darwin.go for      *)
(* macOS), with CleanupStaleRoutes and the tunnel device.                  *)
(*                                                                         *)
(* Each function is a list of commands; the process may die between any    *)
(* two of them, and the table outlives the process.  One program uses the  *)
(* table at a time, the client or the tray application.                    *)
(***************************************************************************)
EXTENDS Sequences

CONSTANTS Systems        \* the operating systems: "linux", "darwin"

ASSUME SystemsAssumption == Systems \subseteq {"linux", "darwin"}

(* What the commands put into the system: the host route to the server,    *)
(* the host routes around the tunnel (the DoH server), the two halves of   *)
(* the IPv4 default through the tunnel, the two unreachable halves of      *)
(* IPv6, and on macOS the resolver override.                               *)
Routes == {"server", "bypass", "low", "high", "v6", "dns"}
Halves == {"low", "high"}

VARIABLES
    os,           \* the operating system
    up,           \* the server answers
    prog,         \* the program that runs: "none", "client" or "tray"
    table,        \* what is in the system's table
    dev,          \* the tunnel device exists
    own,          \* what this run of SetupRoutes added
    job,          \* "idle", or the function whose commands are being run
    cmds          \* the commands it still has to run

hostVars == <<os, up, prog, table, dev, own, job, cmds>>
routeVars == <<table, own, job, cmds>>

HostInit ==
    /\ os \in Systems
    /\ up \in BOOLEAN
    /\ prog = "none"
    /\ table = {} /\ dev = FALSE /\ own = {} /\ job = "idle" /\ cmds = <<>>

Add(r) == [op |-> "add", r |-> r]
Del(r) == [op |-> "del", r |-> r]

(* SetupRoutes; only the client names addresses to be routed around the    *)
(* tunnel.                                                                 *)
SetupCmds(p) ==
    LET linux == <<Add("server")>> \o (IF p = "client" THEN <<Add("bypass")>> ELSE <<>>)
                 \o <<Add("low"), Add("high"), Add("v6")>>
        darwin == <<Del("dns"), Add("dns"), Del("server"), Del("low"), Del("high"), Add("server")>>
                  \o (IF p = "client" THEN <<Del("bypass"), Add("bypass")>> ELSE <<>>)
                  \o <<Add("low"), Add("high"), Del("v6"), Add("v6")>>
    IN  IF os = "linux" THEN linux ELSE darwin

(* A route that must be there could not be added: what SetupRoutes undoes  *)
(* before it returns the error.  The rest of what it added stays.          *)
UndoCmds(r) ==
    CASE r = "low"  -> <<Del("server")>>
      [] r = "high" -> IF os = "linux" THEN <<Del("server"), Del("low")>>
                                       ELSE <<Del("low"), Del("server")>>
      [] OTHER      -> <<>>

(* Mutant: the server's route goes first. *)
CleanupCmdsServerFirst == <<Del("server"), Del("high"), Del("low")>>

(* The cleanup function: the routes through the tunnel before the route    *)
(* that keeps the connection itself outside of it, and what was optional   *)
(* only if it was added.                                                   *)
CleanupCmds ==
    LET IfAdded(r) == IF r \in own THEN <<Del(r)>> ELSE <<>>
    IN  IfAdded("v6") \o <<Del("high"), Del("low"), Del("server")>>
        \o IfAdded("bypass") \o IfAdded("dns")

(* Best effort: a failure is logged or ignored. *)
Optional(r) == r \in {"bypass", "v6", "dns"}

BeginSetup ==
    /\ job' = "setup" /\ cmds' = SetupCmds(prog) /\ own' = {}
    /\ UNCHANGED table

BeginCleanup ==
    /\ job' = "cleanup" /\ cmds' = CleanupCmds
    /\ UNCHANGED <<table, own>>

EndJob == job' = "idle" /\ UNCHANGED <<table, own, cmds>>

(* The job is over, all its commands have run. *)
Finished(j) == job = j /\ cmds = <<>>

(* The next command adds a route that is already there.  Only the IPv6     *)
(* routes are replaced.                                                    *)
Exists == cmds # <<>> /\ Head(cmds).op = "add" /\ Head(cmds).r \in table \ {"v6"}

Run ==
    /\ cmds # <<>>
    /\ ~Exists
    /\ cmds' = Tail(cmds)
    /\ LET c == Head(cmds)
       IN  IF c.op = "add" THEN table' = table \cup {c.r} /\ own' = own \cup {c.r}
                           ELSE table' = table \ {c.r} /\ UNCHANGED own
    /\ UNCHANGED job

(* An add fails, because the route exists or for any other reason.  When   *)
(* one of the two IPv6 routes fails the other is removed; on Linux those   *)
(* of an earlier run may stay.                                             *)
RunFails ==
    /\ cmds # <<>>
    /\ Head(cmds).op = "add"
    /\ LET r == Head(cmds).r
       IN  IF Optional(r)
           THEN /\ cmds' = Tail(cmds)
                /\ \/ r = "v6" /\ table' = table \ {r}
                   \/ (r = "v6" => os = "linux") /\ UNCHANGED table
                /\ UNCHANGED job
           ELSE /\ cmds' = UndoCmds(r)
                /\ job' = "undo"
                /\ UNCHANGED table
    /\ UNCHANGED own

(* CleanupStaleRoutes: nothing on Linux.  On macOS it acts only when some  *)
(* default route points at a utun device; the routes SetupRoutes adds are  *)
(* not default routes, so that is so when another VPN is up.               *)
CleanupStaleRoutes(otherVPN) ==
    /\ table' = IF os = "darwin" /\ otherVPN
                THEN table \ {"low", "high", "v6", "server", "dns"} ELSE table
    /\ UNCHANGED <<own, job, cmds>>

(* The device is closed, or its process ends: the routes through it go     *)
(* with it.  On macOS they may stay behind.                                *)
DeviceGone ==
    /\ dev' = FALSE
    /\ \/ table' = table \ Halves
       \/ os = "darwin" /\ UNCHANGED table

(* The process ends with whatever it was doing. *)
ProcessEnds ==
    /\ prog' = "none"
    /\ DeviceGone
    /\ own' = {} /\ job' = "idle" /\ cmds' = <<>>

(* The types; no device outlives its process. *)
HostTypeOK ==
    /\ os \in Systems
    /\ up \in BOOLEAN
    /\ prog \in {"none", "client", "tray"}
    /\ table \subseteq Routes
    /\ dev \in BOOLEAN
    /\ own \subseteq Routes
    /\ job \in {"idle", "setup", "undo", "cleanup"}
    /\ cmds \in Seq([op : {"add", "del"}, r : Routes])
    /\ prog = "none" => ~dev
=============================================================================
