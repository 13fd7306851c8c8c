# A verification project for ftybucks

ftybucks is a tunnel: a server abroad hands clients and gateways an address and
carries their packets; a gateway keeps a pool of such servers, fails over between
them and routes the traffic of its WireGuard clients into them. The connections
look like PostgreSQL replication. This directory holds TLA+ models of the parts of
it that are concurrent and hard to test, the TLC runs that check them on small
instances, and TLAPS proofs for every instance.

## 1. Inventory

| Part | State | Operations | Talks to |
| --- | --- | --- | --- |
| session table (`cmd/server/main.go`) | `byIP`, `byToken`, the sessions | `assign`, `get`, `remove` | address pool; every client handler; the dispatcher |
| address pool (`internal/tunnel/ippool.go`) | `allocated` | `Allocate`, `Release` | session table |
| client handler, dispatcher (`cmd/server/main.go`) | stream, published writer and cipher | handshake, assign, response, read loop; TUN to clients | session table, smux, TUN device |
| connection manager (`internal/tunnel/conn.go`) | current connection, `done`, the lock | `Connect`, `Reconnect`, `Close` | the member loop, main |
| pool (`internal/tunnel/pool.go`) | health flags, event channel | `ConnectAll`, `MarkHealthy`, `MarkUnhealthy`, `Active` | member loops, watcher |
| member loops (`cmd/gateway/main.go`) | per-member position, device, address | data loop, orphan loop | connection manager, pool |
| watcher, route selector (`cmd/gateway/main.go`) | debounce timer, primary | select, `active` | pool, routing manager |
| routing manager (`internal/routing/routing.go`) | the kernel's rules, tables and chains | `Setup`, `Apply`, `Teardown` | kernel |
| address sets (`routing.go`, `exceptions.go`, `internal/geoip`) | the ipsets `direct-ips`, `proxy-ips` | `UpdateDirectIPs`, `Add*IP`, the resolver's passes | kernel, routing rules |
| data session (`cmd/gateway/main.go`, `internal/transport/obfs.go`) | packet queue, probe counters, write lock | writer, reader, prober, background traffic | smux |
| camouflage (`internal/transport/pgproto`) | framing buffers, WAL position | handshake, `Read`, `Write`, keepalives | TCP, smux |
| crypto handshake, replay guard (`internal/proto/handshake.go`) | remembered salts | `Check`, cleanup | client handler |
| connection limiter (`cmd/server/main.go`) | attempts per address | `allow`, cleanup | accept loop |
| WireGuard peers (`internal/wireguard`) | peers, peers file | `AddPeer`, `RemovePeer`, `LoadPeers` | kernel, file, other processes |
| client (`cmd/client/main.go`) | connection, device, address | connect, reconnect, signal, fatal | connection manager, host routes |
| tray (`cmd/tray`) | `state`, `stateCh`, `stopCh` | menu, `Connect`, `Disconnect`, `gracefulShutdown`, the run goroutine | connection manager, host routes |
| host routes (`internal/tunnel/router*.go`) | the system's routing table | `SetupRoutes`, its cleanup, `CleanupStaleRoutes` | client, tray |
| codec, padding, DNS, GeoIP, configuration, setup wizards, devices | none or a cache | pure functions, I/O | all of the above |

What is hard here: addresses change hands between goroutines that end late; health
travels from a flag over a coalescing channel, a debounce timer and a reading that
is not atomic to a kernel route; attempts, probes and writes block on peers that
vanish without a word; what a process puts into the kernel outlives it, so every
start runs over what a killed one left; several processes change one file without
a lock; and any step of several may fail. The list `hazards` of `PROJECT.json` has
them one by one, with the line where each bites and the properties that would
catch it. What makes the parts correct:

- the table and the pool agree, no address is held twice or leaks, a client keeps
  its address, a session that lost its address is cut off;
- no membership change is lost, only usable tunnels are routed to, a member comes
  back when its server does;
- a reconnect leaks nothing, ends, and does not keep `Close` waiting;
- a dead session is noticed and ends, a live one is not given up;
- the connection to the server never runs into its own tunnel, and quitting
  restores the routing table;
- traffic that is not direct never leaves by the ISP, direct traffic always does,
  flows stay on their tunnel, and a teardown undoes all of it;
- peers never share an address, and those handed out are served;
- both ends of a camouflaged connection open only together and carry the data
  intact.

## 2. Modules

| Module | Models | State | Used by |
| --- | --- | --- | --- |
| `AddressLease` | what the server promises about addresses | owner per address | refined by `SessionTable` |
| `SessionTable` | `cmd/server/main.go`, `ippool.go` | table, pool, handlers, dispatcher | `MCSessionTable` |
| `GatewayPool` | `pool.go`, `cmd/gateway/main.go`, `Apply` | members, events, watcher, route | `MCGatewayPool` |
| `ConnManager` | `conn.go` | attempt, lock, watchdogs | `MCConnManager` |
| `GatewaySession` | the member's data session, `obfs.go` | goroutines, lock, probe | `MCGatewaySession` |
| `HostRoutes` | `router.go`, `router_darwin.go` | routing table, running command list | `TunnelClient`, `TunnelTray` |
| `TunnelClient`, `TunnelTray` | `cmd/client/main.go`; `cmd/tray/main.go`, `tunnel.go` | position of each goroutine | `TunnelHost` |
| `TunnelHost` | both on one machine | the three above | `MCTunnelHost` |
| `DirectSets` | `UpdateDirectIPs`, `exceptions.go`, the update loop | the two sets and their two writers | its own cfg |
| `PolicyRouting` | `Setup`, `Teardown`, the kernel's packet path | rules, tables, marks | `MCPolicyRouting` |
| `PGHandshake` | `handshake.go`, `wire.go` | both ends of a handshake | `PGTunnel` |
| `PGTunnel` | `pgconn.go` | buffers, WAL position | `MCPGTunnel` |
| `WireGuardPeers` | `wireguard.go`, `-add-peer`, `-remove-peer` | file, kernel, processes | its own cfg |
| `...Proofs` | theorems about the module of that name; `RoutingProofs` those about `DirectSets` and `PolicyRouting` | | |

### `AddressLease`, `SessionTable`

`AddressLease` is what the server promises: one holder per address, one lease in a
holder's life, and a holder that lost its lease changes nothing when it ends.

`SessionTable` is the code. Each element of `Sessions` is one `handleClient`
goroutine, and stands for the `clientSession` it creates, so comparing elements is
the pointer comparison in `remove`. `byIP`, `byToken` and `allocated` are the
code's maps; `pc` is the goroutine's position. `assign` runs under the table's
lock and is one step, split by branch into `AssignSticky`, `AssignFresh`,
`AssignReclaim` and `AssignReject` with the common tail `Register`. Closing the
evicted stream, writing the response, publishing the writer, the read loop and
`Remove` are steps of their own, because other goroutines run between them. The
dispatcher has three steps (`DispLookup`, `DispCipher`, `DispSend`), one per
critical section. Addresses are offsets in the subnet: the skipping of the
network, broadcast and server address is arithmetic on them, as in the code. A
link is up, full (the peer lives and sends, but takes no data off the stream, so
that its send window is used up), gone (the peer vanished) or closed. No write of
the server has a deadline: to a full link a pong and the dispatcher's packets wait
(`Returns`), and nothing makes the peer read again. `first` is the first frame on
a stream, kept for the property about the assign response.

### `GatewayPool`

Startup (`ConnectAll`, `Provision`, `Setup`, `InitialApply`) runs alone. Then
every member has a goroutine: `SessionLost`, `Reconnect`, `Reassign`,
`ReassignFails`, `Join` for `memberDataLoop`, `OrphanProvision` and `OrphanFails`
for `reconnectOrphan`. Marking a member and telling the pool are two steps
(`SessionLost`/`NotifyDown`, `Join`/`NotifyUp`), since the code does the second
outside the lock. The watcher takes an event (`WatchEvent`), its timer fires
(`WatchTimer`), it reads member by member (`ScanMember`) and applies
(`WatchApply`). `RebuildECMP` and `RebuildSticky` do nothing, succeed, or meet a
command that fails, in sticky mode possibly after some tables were pinned.
`active()` is called on the watcher's goroutine only, so the selector's lock is
not modelled; the hold-down of a flapping member is the time between `Reassign`
and `Join`.

### `ConnManager`

One goroutine connects and reconnects, another calls `Close`; each dialled
connection has a watchdog. A connection stands for the raw connection with its
smux session and stream, which the code opens and closes together. Firing and
closing are two steps of the watchdog: in between the handshake may succeed.

### `GatewaySession`

One session of one member, again and again. Time is counted in probe intervals:
`Tick` is enabled only when no goroutine can run (`Busy`), so it is the time between
events, not the processor, that is measured. A path is ok, wedged (nothing comes
back) or full (writes block too). A write blocked on a full path may outlive the
closing of its stream but not that of the smux session, which is the weaker of the
two readings of smux and therefore the safe one. Fake keepalives and decoys
compete for the write lock with `TryLock`. A pong is two steps, since `onPong`
stores `sawPong` and `misses` one after the other and the prober may look in
between (`ReaderPong`, `ReaderReset`): a first pong that comes after `DeadMisses`
intervals may then end the session it shows to be alive, which no property
excludes. Readers and probers of a session that
is over have a stream, a lock and counters of their own and are not followed.

### `HostRoutes`, `TunnelClient`, `TunnelTray`, `TunnelHost`

`SetupRoutes` and the cleanup function it returns are lists of commands
(`SetupCmds`, `UndoCmds`, `CleanupCmds`), one list per system; `Run` executes the
next one, `RunFails` lets an addition fail, and the process may be killed before
any of them. The table outlives the process; the routes through the device go with
the device, except that on macOS they may stay. `TunnelClient` is `runConnect`
from start to exit: `fatal` runs no deferred call and therefore leaves the routes,
a signal is looked at only between the start and the end of a session.
`TunnelTray` has two goroutines, the one of `onReady` and the tunnel's `run`,
which meet in `state`, `stateCh` and `stopCh`; setting a state and sending it are
two steps, as in the code. `gracefulShutdown` locks and reads the state twice
(`Quit`, `Recheck`): when the tunnel comes up in between, neither comparison holds
and the process ends at once. `TunnelHost` runs both programs on one machine, one
after the other, so that what one leaves the next one finds.

The packet loops of both programs are one step that ends the session; the
gateway's, of the same form, are in `GatewaySession`. Connection attempts succeed
while the server answers (`up`); `ConnManager` has how. The client asks for the
address of its configuration only, so the server may assign any other on a
reconnect, which is fatal (`ClientReassignOther`).

### `DirectSets`, `PolicyRouting`

`DirectSets` is about the contents of the two kernel sets: the updater builds a
temporary set entry by entry, swaps and destroys it, while the resolver adds to
the set in use. Errors of single entries are ignored by the code, so they are
steps of the model (`skipped`). The static subnets of the exceptions are applied
once, at startup: the first update drops them, although the repository's README
says that exceptions override GeoIP. The model has this (`ResolvePass`) and
`DomainsReturn` speaks of domains only.

`PolicyRouting` is about the rules. `SetupCmds` and `TeardownCmds` are the
commands in the order of the code, in ECMP, sticky and transit mode; a kill may
come between any two. `Packet` is what the kernel does with a packet under the
rules that are installed at that moment: it runs through mangle PREROUTING (or
OUTPUT and `FTYB_OUT`) up to the first rule that ends the path (`Ending`), has the
mark the last marking rule before that one gave it (`MarkAt`), and `Exits` says
where the mark leads. The sets may change in any way; when and over which tunnels the rebuilds come is any
choice here and is narrowed in `GatewayPool`.

### `PGHandshake`, `PGTunnel`

A handshake is two tables, one per end: at a position, having heard a message, go
there and say that. A message is its kind; what a handler tests of its contents
(the password's hash, the database) is in the kind. The third party is any
PostgreSQL client: it sends anything in any order. TLS is one message each way;
the model does not tell whether a startup message came inside TLS, as the server's
loop does not either. The server writes its answers message by message, so a
deadline or a cut may come in between. `PGTunnel` goes on where both ends are
open: `Write` builds a message and advances the WAL position under the lock and
then writes; keepalives come in between; `readFrame` tells messages apart by their
first unit. That the data of the client begins with none of the three letters is
`ChunksAssumption`: what is written is the multiplexer's frames, which begin with
its version.

### `WireGuardPeers`

The gateway reads the peers file at its start and adds the peers to the kernel one
by one; each command line process reads the file, changes the kernel, truncates
and writes the file, in steps of its own, and may be killed at each. Nobody locks
anything. Lists are sequences, as in the file. `os.WriteFile` truncates when it
opens the file and then writes from its start: of two processes that have both
truncated it, the later one writes over the earlier one's list, and where that is
longer its end stays (`WriteOver`). When the new text ends where a peer of the old
one begins, the file has those peers behind the new ones, some perhaps twice;
otherwise it is no YAML any more (`form`), which ends the gateway's `Setup` with
the interface created, is fatal to `-remove-peer`, and is taken for an empty list
by `-add-peer`. Three simplifications: a write goes out whole or not at all; a
shorter list may come out as the longer text, since names differ in length; of a
file that is not YAML nothing is kept but that.

Two variables record history. `calm`: no processes have overlapped and none was
cut off; the code promises nothing about the effects of those that were. `torn`:
some write left the file other than the list it saved.

### Composition

`TunnelHost` composes three modules, `PGTunnel` two. The others meet at calls, and
each states what it takes for granted: `GatewayPool!Reconnect`, `ClientReconnect`
and `RunReconnect` are `ConnManager`'s loop, which `ReconnectEnds` justifies;
`GatewayPool!SessionLost` under fairness is what `GatewaySession`'s `SessionEnds`
gives; the answers `Reassign` and `ReassignFails` wait for are `SessionTable`'s
`Respond` and the ways it fails to come; `PolicyRouting` lets the sets change as
they like, and what `DirectSets` does is one way to; the connection `ConnManager`
dials is open when `PGTunnel`'s `HandshakeEnds` says so.

## 3. Runs

| Run | Instance | Shows |
| --- | --- | --- |
| `session_table` | two clients, two tokens, a /29 | pool, table and indexes stay in step and implement `AddressLease`; nothing overtakes the assign response; half-open and superseded sessions end; a client that goes on reading, vanishes or is closed does not hold up the dispatcher |
| `gateway_pool` | two members, sticky and active-standby, a channel of one event | no change is lost, only usable tunnels are routed to, a healthy primary is kept, the route settles, members rejoin unless abandoned |
| `gateway_pool_rejoin` | one member, ECMP | expected violation of `Rejoins` |
| `conn_manager` | four connections, the code's backoff | no leak, `Close` returns, `Reconnect` ends |
| `gateway_session` | the code's `probeDeadMisses`, a queue of one | misses are real, a writable wedged path is given up in time, every dead session ends |
| `gateway_session_probe` | the code's constants | expected violation of `Detected` |
| `tunnel_host` | Linux and macOS, two addresses, `stateCh` of the code's 8 | the device exists exactly while a tunnel uses it, the connection never runs into its tunnel, `stopCh` is closed once, a quit ends, and removes the routes when it calls `Disconnect` |
| `tunnel_restart` | Linux | expected violation of `StaleRoutesCleaned` |
| `policy_routing` | two tunnels, two destinations, one flow, three modes, two kills | what is not direct never leaves by the ISP, direct traffic does, flows stay where they are, a teardown undoes everything |
| `direct_sets` | three GeoIP lists over three subnets, two static subnets, one domain | the set in use is never half-built, domains come back |
| `pg_tunnel` | our client, one with another key, any other client | the ends open only together, never wait for each other, carry the data intact |
| `wireguard_peers` | two processes and the gateway, two names, three keys, three free addresses | until a write leaves part of another's list, the entries of the file are unique whatever else happens; without overlaps and kills file, kernel and handed out configurations agree |

Every property of a passing run has a mutant in `PROJECT.json`, an operator of the
module that changes one definition the way a plausible bug would; TLC then finds
the property violated.

### What the properties leave out

Where the code has a window, the property says so and no more:

- `NoLoop` leaves out the undoing of a failed setup: Linux deletes the server's
  route before the first half of the default there.
- `Protected` leaves out the moment after a restart has flushed the selection
  chain or `FTYB_OUT`, and, for a subnet both direct and forced into the tunnel,
  the restart's setup.
- `Protected`, `DirectHonoured` and `FlowPinned` leave out everything after a kill
  in the middle of a teardown (`halfTorn`): the rules that are left lack the first
  ones, and the next setup appends behind them. `FlowPinned` also leaves out the
  teardown itself.
- `TeardownUndoes` is about gateways none of which was killed: each killed one
  leaves a copy of its rules, and a teardown deletes one. `TypeOK` bounds the
  copies.
- `QuitCleans` is about a quit that calls `Disconnect`, with the tunnel up or being
  set up, and no `Disconnected` of an earlier run waiting in `stateCh` or still to
  be sent; a stale one ends `gracefulShutdown` early. `Disconnect` is not called
  when the tunnel is being taken down already, nor when it comes up between the
  two readings of the state; in the second case the routes stay.
- `QuitEnds` needs a server that answers again and again: `Reconnect` does not look
  at the stop channel, and a quit waits for it.
- `DispatcherProgress` needs clients that read again and again, vanish or are
  closed: a live client that reads no more blocks the one goroutine that writes to
  all of them for as long as its session lasts.
- `NoLostChange` leaves out the state after a failed command, which nothing
  repairs before the next membership change.
- `PeersServed` needs `calm`. `FileUnique` does not, and holds through lost updates,
  kills and files read while they were empty, but only until the first write that
  is `torn`. Neither says that no peer is lost from the file: processes that
  overlap do lose them.
- `DetectedIfWritable` needs a path that takes writes; see `Detected` below.

### Bounds

- `session_table`: two clients and two tokens give a holder and one that takes
  over, sticky or not, and every conflict between them. The safety theorems cover
  any number of both.
- The pool's channel holds one event instead of eight, which makes it full sooner;
  two members suffice for a reading that is torn between two changes. N and the
  capacity are arbitrary in the theorems.
- `ConnManager`: four connections allow a first one, a failed attempt, a success
  and an attempt after `Close`; the backoff reaches its limit by failed dials,
  which need none. When the connections are used up every dial fails.
- `GatewaySession`: misses and unanswered pings are counted up to the limit. In
  the passing run the smux timeout is 6 intervals and the read timeout 12, both
  longer than the 5 the prober needs; the real values (10 and 20) are those of
  `gateway_session_probe`.
- `TunnelHost`: two addresses are the configured and another one. `MaxLate`: one
  run goroutine that has yet to report while the next one runs. `MaxUnread`: the
  user does not click again while more than one state waits to be shown.
- `PolicyRouting`: two kills leave rules of two processes under those of a third.
  One flow is enough for `FlowPinned`, which is about each flow by itself; of the
  two destinations each may be in either set. The theorems cover any number of
  kills, tunnels, destinations and flows.
- `DirectSets`: lists that grow, shrink and overlap, and an exception that is in a
  list.
- `PGTunnel`: three units per end, in messages whose content looks like one of the
  protocol's; `MaxProbe` bounds what is under way when the foreign client sends
  again.
- `WireGuardPeers`: a third key lets a process add after two have, so that a list
  of one is written over a list of two; the subnet of five has three free
  addresses.

### Fairness

Weak fairness of a goroutine's step says that the Go scheduler runs what can run.
Where the code gives no guarantee there is none: connections need not come up,
peers need not answer, commands may fail, users need not click. In particular:

- a write to a half-open peer may block until smux closes it; smux does, by its
  keepalive timeout (`internal/transport/multiplex.go`);
- a peer that stopped reading need not read again (`Resume` has no fairness);
  strong fairness of `DispSend` says that a write to a peer whose window opens
  again and again goes out in the end;
- the server's read deadline expires for a peer that is gone or closed, not for
  one that only does not read;
- the debounce timer fires once no further event starts it anew;
- strong fairness of `CloseCurrent`, `WriterLock` and `ProbeLock` is the
  starvation freedom of Go's mutex, that of `WriterStops` the random choice of
  Go's `select`; that of `Tick` says time passes;
- strong fairness of `OrphanProvision` says that on a connection that works again
  and again an orphan's request does not fail every time;
- strong fairness of `RunReconnect` says that a server that answers again and
  again is reached in the end, and that of `ResolveRule` that a lookup that is
  retried for ever succeeds;
- in `PGTunnel` the deadline is counted on only against a foreign client: between
  our two ends nothing may have to wait for it.

### Expected violations

- `Rejoins`: `docs/MULTI_SERVER.md` says that a recovered peer rejoins
  automatically. A member whose address request fails once after a reconnect has
  no goroutine any more. `RejoinsUnlessAbandoned` shows that this is the only way.
- `Detected`: the prober is said to end a wedged session in about 12 s. Once
  writes block it waits in its own write, or for the lock, and looks at nothing.
  `DetectedIfWritable` shows that it keeps its promise while writes go out.
- `StaleRoutesCleaned`: a comment in `router.go` says that on Linux `SetupRoutes`
  cleans stale routes up. It deletes nothing: after a kill, or the `fatal` meant
  for a restart by the supervisor, the server's host route is in the way of every
  following start.

## 4. Proofs

The constants are arbitrary within the named assumptions of each module:
`ConstantsAssumption` (a non-empty subnet that contains the server, `None`
distinct from everything), `PoolAssumption` (at least one member, a known mode, a
channel that holds something), `BackoffAssumption`, `SessionAssumption`,
`SetsAssumption`, `RoutingAssumption` (at least one tunnel, the known modes, each
flow has a destination, any number of kills), `PeersAssumption`, `SystemsAssumption` (Linux, macOS or both),
`TrayAssumption` (any capacity of `stateCh`), `KindsAssumption` (the three kinds of
client), `ChunksAssumption` (the data are any units, each write begins with the
multiplexer's version, the header has at least one unit). TLC evaluates them in
every run. The bounds of the runs (`Max...`) are constants too, and the theorems
hold for each value of them.

`SessionTableProofs` proves the safety properties of `session_table` and the
refinement of `AddressLease`. `PoolMatchesTable` alone is not inductive: that
`remove` releases the right address needs both indexes to agree, that a reclaim
finds an address the evicted session really holds needs the type of the token
index (`TokenHasAddress`), and that nothing overtakes the response needs the
dispatcher's phase (`ResponsePhases`). The invariant `IInv` is their conjunction.
The central lemma is `RegisterEffect`: if the evicted session is the one
registered under the address and the token is its own or unknown, exactly one
entry changes hands in each index; `AssignRegisters` shows that every branch of
`assign` is such a case. `TableUntouched` handles all other steps at once. For the
refinement an address's owner is `byIP` and a holder is active from assign to
remove; late removes are `Expire`.

`GatewayPoolProofs` proves the safety properties of `gateway_pool`. `NoLostChange`
needs to know what the watcher has read: `ReadIsFresh` says that while no wake-up
is pending the members read so far are still the ones that are healthy, so what is
applied at the end is current. The other parts tie a member's flag and device to
the position of its goroutine before and after startup.

`ConnManagerProofs` proves `NoLeakedConn`: during an attempt the previous
connection is closed and the lock is held, so the only open one is the attempt's.

`GatewaySessionProofs` proves `MissesAreReal`, which needs `RoomToCount`: a ping
is counted after it was written, and until then there is one unanswered ping more
than misses allow for. It also proves `DetectedIfWritable`. That time passes only
when nobody is `Busy` gives, as long as writes go out, that the prober waits and
has dealt with the last tick whenever an interval passes (`QuietTick`, `Prompt`).
So every interval in which nothing comes back is a miss, but for the last, whose
tick or ping is still under way (`EveryIntervalCounts`), and the prober stops
pinging at `DeadMisses`.

`RoutingProofs` proves the safety properties of `direct_sets` and of
`policy_routing`. What makes `NeverPartial` inductive is that the temporary set,
together with what is left to add and what failed, always covers the list being
installed, and that nothing but the updater touches it.

For `PolicyRouting` there are two invariants. `RInv` says how far a command list
has come and what follows from it: what is left is the end of the list
(`Aligned`), the last rules of the chain are those this process has appended
(`Appended`), those a teardown has yet to delete are there (`ToDelete`), and so on
for tables, sets and the marking chain (`SetupDid`, `TeardownDid`, `OffClean`,
`ArmedHas`); `Copies` bounds what killed processes have left. That needs the
lists command by command for any number of tunnels (`SetupLayout`,
`TeardownLayout`, `SetupKinds`, `TeardownKinds`). `TypeOK` and `TeardownUndoes`
follow.

`RInv` says which rules there are, not in which order a packet meets them, and the
order is what matters when rules of killed processes lie under those of the present
one and a teardown deletes the first copy it finds, not its own. `Layered` counts:
in every prefix of the chain a later rule of the list occurs no more often than an
earlier one, once more where a teardown has deleted the earlier one, and what a
setup has appended so far is one layer more. It survives appending, deletion of the first
copy and a kill anywhere but in a teardown, and outside a teardown it gives `Earlier`: in front of every rule there is each of
those that precede it in the list. With `PacketIs` and `MarkAtIs`, which say what a
packet meets, the mark of a packet is then known for a chain of any length
(`PlainMark` in ECMP and transit mode, `StickyNew` for a new flow and
`PinnedStays` for a marked one in sticky mode). `Protected`, `DirectHonoured` and
`FlowPinned` follow from these, with no induction over the chain.

`WireGuardPeersProofs` proves `FileUnique` for any number of processes that
overlap, are killed and fail to save. The file alone is not inductive, because a
process writes its own list, read long before: the invariant says of every
process's list what it says of the file, and of the peer about to be added that it
shares nothing with that list (`Apart`), however the file has changed since. It
says so until a write is torn; from then on any list read from the file may have
entries that collide, and only the types are left. `MembersWith`, `RemoveAtList`
and `MembersWithout` say what appending and removing do to a list.
`PeersServed` needs to know, of the one process that is at work in calm times, what
it has done already: before its change to the kernel everything is at rest,
afterwards its list, not the file, is what the kernel serves (`AloneInStep`), and a
gateway that is adding peers has done so for those it has passed (`Served`); and
since it is alone, the file it has truncated is still empty when it writes.

`TunnelHostProofs` proves every safety property of `tunnel_host`. `NoDoubleClose`
rests on who may still change the state the two goroutines share: there is a run
goroutine exactly while the state says so (`OneRun`), and once `stopCh` is closed,
or a click has got as far as `Disconnect`, the run goroutine is past the point
where it would set Connected again (`StopOnce`); quitting may overtake a
connection attempt, but then never returns to the menu. `NoLoop` says nothing of
the commands still to run, so `SetupOrder` and `CleanupOrder` do: a half of the
default route is added only behind the server's route, which nothing later in the
list removes, and is removed before it. `QuitCleans` needs two things. `Quits`: to a
tray that has called `Disconnect` to quit, a report of the end, in `stateCh` or not
yet sent, comes only after the run goroutine has ended. And `OwnRemoved`: each route
the run has added is deleted by a command still in the list of its cleanup, or of
the undoing of a failed setup, and gone when the run is over.
`TypeOK` is more than types here, it says when the device exists, and needs
`OneRun`.

`PGTunnelProofs` proves the three safety properties of `pg_tunnel`. For `Agreement`
the invariant follows the messages: only our client says the password that shows
the key and only it gets the server past the password (`KeyShown`);
CopyBothResponse is under way or still to be written only when the server is open
or about to be (`OpenTogether`). `ServerRows` and `ClientRows` are the facts about
the two tables that this needs, one check per row. For the stream the invariant
cuts what was written in two, what the reader has taken and what is on the wire or
built: `Flow` says that the first is a prefix, that the messages of the second
start where it ends and follow each other without a gap, that each carries exactly
what was written between its two positions (`Carries`), and that, unless something
was lost with the connection, the last one reaches the end. That the handshake's
messages are no data and data follows no earlier than the opening is `Quiet`.
`FlowRead`, `FlowWritten`, `FlowLost` and `FlowWords` are the four things that can
happen to a stream; each action is one of them. `BuiltContent` is where the
framing is shown to be unambiguous: it is the only place that uses
`ChunksAssumption` about the first unit.

Every safety property of a passing run is a theorem. Only model-checked, because
fairness is beyond the prover, are the liveness properties, `RouteSettles`,
`PrimaryKept` and `DomainsReturn` among them.

## 5. Not modelled

- TLS, certificates, key agreement and encryption: library calls.
- The replay guard and the connection limiter: a map of times under one lock each.
  The guard's one hazard, a limit compared in whole seconds against one compared
  in finer time, is listed.
- Configuration files, setup wizards, the tray's icon, DNS over HTTPS, the format
  of the GeoIP database, the configuration of devices, the text of `ip` and
  `iptables` commands.
- Packets have no content: rewriting of source addresses and checksums is left
  out.
- Shutdown of server and gateway while other goroutines still run: the process
  exits.
- A gateway that serves WireGuard clients and a local proxy's mark at once is not
  an instance of `PolicyRouting`; NAT and FORWARD rules are one counted command
  there.
- Decoys' sizes and delays, jitter, buffer pools.

## 6. Plan

1. A composition of a gateway member with the server's table: a reconnect by token
   over a connection that is half-open on the server's side, end to end.
2. The replay guard with a clock, its window and the forgotten salts.
