----------------------------- MODULE DirectSets -----------------------------
(***************************************************************************)
(* The gateway's two address sets in the kernel, direct-ips and proxy-ips, *)
(* and the two goroutines that change them while the gateway runs: the     *)
(* GeoIP updater, which rebuilds the direct set and swaps it in            *)
(* (internal/routing/routing.go, cmd/gateway/main.go, internal/geoip), and *)
(* the exception resolver, which adds single entries                       *)
(* (internal/routing/exceptions.go).  The sets outlive the process.        *)
(* PolicyRouting has the rules that use them (its direct and proxy are     *)
(* directIPs and proxyIPs here; RoutingProofs has the proofs of both).     *)
(*                                                                         *)
(* No subnet contains another.                                             *)
(***************************************************************************)
EXTENDS Naturals

CONSTANTS
    Lists,            \* the country's subnets, one set per GeoIP database
    DirectCIDRs,      \* exceptions: static subnets sent direct
    ProxyCIDRs,       \*             static subnets sent through the tunnel
    DirectDomains,    \*             addresses of domains sent direct
    OtherDests        \* destinations no list names

Geo == UNION Lists
Subnets == Geo \cup DirectCIDRs \cup ProxyCIDRs \cup DirectDomains \cup OtherDests

ASSUME SetsAssumption == Lists # {}

VARIABLES
    up,           \* the gateway runs, with Setup behind it
    directIPs,    \* the ipset direct-ips
    proxyIPs,     \* the ipset proxy-ips
    tmp,          \* the ipset direct-ips-tmp; empty when there is none
    list,         \* the GeoIP list that was loaded or swapped in last
    skipped,      \* its subnets that could not be added
    geo,          \* the updater: its step, the list it installs, what is
                  \* left to add and what it could not add
    resolver      \* the resolver: its step and the rules left in this pass

setsVars == <<up, directIPs, proxyIPs, tmp, list, skipped, geo, resolver>>

GeoIdle == [step |-> "wait", new |-> {}, todo |-> {}, skip |-> {}]
GeoOff == [GeoIdle EXCEPT !.step = "off"]
ResolverOff == [step |-> "off", todo |-> {}]

SetsInit ==
    /\ up = FALSE
    /\ directIPs = {} /\ proxyIPs = {} /\ tmp = {}
    /\ list = {} /\ skipped = {}
    /\ geo = GeoOff /\ resolver = ResolverOff

(* Setup: the sets are created unless they exist, and the subnets added to *)
(* what is there (an error ends the process); the two goroutines start.    *)
Setup(L) ==
    /\ ~up
    /\ up' = TRUE
    /\ directIPs' = directIPs \cup L
    /\ list' = L /\ skipped' = {}
    /\ geo' = GeoIdle
    /\ resolver' = [step |-> "cidrs", todo |-> DirectCIDRs \cup ProxyCIDRs]
    /\ UNCHANGED <<proxyIPs, tmp>>

(* The process ends, by a kill or after Teardown.  A kill leaves the sets; *)
(* Teardown destroys those that no rule names any more.                    *)
Stop(keep) ==
    /\ up
    /\ up' = FALSE
    /\ directIPs' = IF keep THEN directIPs ELSE {}
    /\ proxyIPs' = IF keep THEN proxyIPs ELSE {}
    /\ tmp' = IF keep THEN tmp ELSE {}
    /\ list' = {} /\ skipped' = {}
    /\ geo' = GeoOff /\ resolver' = ResolverOff

---------------------------------------------------------------------------
(* periodicGeoIPUpdate and UpdateDirectIPs *)

(* The database was downloaded and read; the temporary set is created, if  *)
(* need be, and emptied.  When anything fails the updater waits on.        *)
UpdateBegin(L) ==
    /\ geo.step = "wait"
    /\ tmp' = {}
    /\ geo' = [step |-> "add", new |-> L, todo |-> L, skip |-> {}]
    /\ UNCHANGED <<directIPs, proxyIPs, list, skipped, resolver, up>>

(* Mutant: the subnets are added to the set in use. *)
UpdateAddInPlace(s) ==
    /\ geo.step = "add" /\ s \in geo.todo
    /\ directIPs' = (IF geo.todo = geo.new THEN {} ELSE directIPs) \cup {s}
    /\ geo' = [geo EXCEPT !.todo = @ \ {s}]
    /\ UNCHANGED <<proxyIPs, tmp, list, skipped, resolver, up>>

(* One subnet is added; an error is ignored. *)
UpdateAdd(s) ==
    /\ geo.step = "add" /\ s \in geo.todo
    /\ \/ /\ tmp' = tmp \cup {s}
          /\ geo' = [geo EXCEPT !.todo = @ \ {s}]
       \/ /\ geo' = [geo EXCEPT !.todo = @ \ {s}, !.skip = @ \cup {s}]
          /\ UNCHANGED tmp
    /\ UNCHANGED <<directIPs, proxyIPs, list, skipped, resolver, up>>

UpdateSwap ==
    /\ geo.step = "add" /\ geo.todo = {}
    /\ directIPs' = tmp /\ tmp' = directIPs
    /\ list' = geo.new /\ skipped' = geo.skip
    /\ geo' = [geo EXCEPT !.step = "destroy"]
    /\ UNCHANGED <<up, proxyIPs, resolver>>

(* The swap failed or is done: the temporary set is destroyed. *)
UpdateEnd ==
    /\ geo.step \in {"add", "destroy"} /\ geo.todo = {}
    /\ tmp' = {}
    /\ geo' = GeoIdle
    /\ UNCHANGED <<directIPs, proxyIPs, list, skipped, resolver, up>>

---------------------------------------------------------------------------
(* ExceptionResolver *)

AddException(r) ==
    /\ directIPs' = IF r \in DirectCIDRs \cup DirectDomains THEN directIPs \cup {r} ELSE directIPs
    /\ proxyIPs' = IF r \in ProxyCIDRs THEN proxyIPs \cup {r} ELSE proxyIPs

(* applyCIDRs and resolveDomains, one rule at a time. *)
ResolveRule(r) ==
    /\ resolver.step \in {"cidrs", "domains"} /\ r \in resolver.todo
    /\ AddException(r)
    /\ resolver' = [resolver EXCEPT !.todo = @ \ {r}]
    /\ UNCHANGED <<up, tmp, list, skipped, geo>>

(* The lookup or the command fails: logged, and on to the next rule. *)
ResolveFails(r) ==
    /\ resolver.step \in {"cidrs", "domains"} /\ r \in resolver.todo
    /\ resolver' = [resolver EXCEPT !.todo = @ \ {r}]
    /\ UNCHANGED <<directIPs, proxyIPs, tmp, list, skipped, geo, up>>

(* Mutant: the domains are resolved once. *)
ResolvePassOnce ==
    /\ resolver.todo = {}
    /\ resolver' = IF resolver.step = "cidrs"
                   THEN [step |-> "domains", todo |-> DirectDomains] ELSE ResolverOff
    /\ resolver.step # "off"
    /\ UNCHANGED <<directIPs, proxyIPs, tmp, list, skipped, geo, up>>

(* The next pass: the domains, at once after the subnets and then whenever *)
(* the ticker fires; the static subnets are not applied again.             *)
ResolvePass ==
    /\ resolver.step # "off" /\ resolver.todo = {}
    /\ resolver' = [step |-> "domains", todo |-> DirectDomains]
    /\ UNCHANGED <<directIPs, proxyIPs, tmp, list, skipped, geo, up>>

SetsNext ==
    \/ \E L \in Lists : Setup(L) \/ UpdateBegin(L)
    \/ \E keep \in BOOLEAN : Stop(keep)
    \/ \E s \in Geo : UpdateAdd(s)
    \/ UpdateSwap \/ UpdateEnd
    \/ \E r \in Subnets : ResolveRule(r) \/ ResolveFails(r)
    \/ ResolvePass

SetsSpec == SetsInit /\ [][SetsNext]_setsVars

(* The resolver's goroutine keeps running; a lookup that is retried for    *)
(* ever succeeds again and again.                                          *)
Fairness ==
    /\ WF_setsVars(ResolvePass)
    /\ \A r \in Subnets :
          SF_setsVars(ResolveRule(r)) /\ WF_setsVars(ResolveRule(r) \/ ResolveFails(r))

FairSpec == SetsSpec /\ Fairness

---------------------------------------------------------------------------
(* Properties *)

SetsTypeOK ==
    /\ up \in BOOLEAN
    /\ directIPs \subseteq Subnets /\ proxyIPs \subseteq Subnets /\ tmp \subseteq Subnets
    /\ list \subseteq Geo /\ skipped \subseteq list
    /\ geo \in [step : {"off", "wait", "add", "destroy"}, new : SUBSET Geo, todo : SUBSET Geo,
                skip : SUBSET Geo]
    /\ resolver \in [step : {"off", "cidrs", "domains"}, todo : SUBSET Subnets]

(* The direct set is never seen half-built: while subnets are added one by *)
(* one it holds every subnet of the list in force, but for those whose     *)
(* command failed.                                                         *)
NeverPartial == list \ skipped \subseteq directIPs

(* A domain sent direct is back in the set again and again, although every *)
(* GeoIP update drops it.                                                  *)
DomainsReturn == \A d \in DirectDomains : <>[]up => []<>(d \in directIPs)
=============================================================================
