--------------------------- MODULE WireGuardPeers ---------------------------
(***************************************************************************)
(* The WireGuard peers of a gateway (internal/wireguard/wireguard.go): the *)
(* peers file and the kernel's peers, both shared by the gateway and by    *)
(* the short-lived processes gateway -add-peer and gateway -remove-peer    *)
(* (cmd/gateway/main.go), each with a list of its own that it reads at     *)
(* its start.  Nothing locks the file, which is written in place:          *)
(* os.WriteFile truncates it when it opens it and then writes it from its  *)
(* start, over whatever another process wrote there in between.            *)
(*                                                                         *)
(* Addresses are offsets into the subnet; a key stands for a key pair.  A  *)
(* write is one system call and goes out whole or not at all.              *)
(***************************************************************************)
EXTENDS Integers, Sequences, SequencesExt

CONSTANTS
    Procs,        \* the command line processes
    Names,        \* peer names
    Size,         \* the number of addresses of the subnet
    Gateway,      \* the gateway's own address in it
    MaxKeys       \* bound: keys generated

ASSUME PeersAssumption ==
    /\ Size \in Nat /\ Gateway \in 0..(Size - 1)
    /\ MaxKeys \in Nat

Addrs == 1..(Size - 1)
Keys == 1..MaxKeys
Peer == [name : Names, key : Keys, ip : Addrs]
NoPeer == [name |-> "", key |-> 0, ip |-> 0]

VARIABLES
    file,         \* the list of peers in the file
    form,         \* the file is "absent", a "list", or "broken": not YAML
    iface,        \* the interface exists
    kernel,       \* its peers and their addresses
    gw,           \* the gateway: "off", "adding" its peers, or "up"
    gwTodo,       \* the list of peers it has still to add
    pc,           \* where each process is
    peers,        \* Manager.peers of each process
    target,       \* the peer it adds or removes
    keys,         \* keys generated so far
    calm,         \* no two processes have overlapped, none was killed between
                  \* its changes, and every save succeeded
    torn,         \* a write left the file other than the list it saved
    granted       \* the peers whose configuration was handed out, without
                  \* those removed since

procVars == <<pc, peers, target>>
vars == <<file, form, iface, kernel, gw, gwTodo, procVars, keys, calm, torn, granted>>

Init ==
    /\ file = <<>> /\ form = "absent"
    /\ iface = FALSE /\ kernel = {}
    /\ gw = "off" /\ gwTodo = <<>>
    /\ pc = [p \in Procs |-> "idle"]
    /\ peers = [p \in Procs |-> <<>>] /\ target = [p \in Procs |-> NoPeer]
    /\ keys = 0 /\ calm = TRUE /\ torn = FALSE /\ granted = {}

(* wg set peer ... allowed-ips: an address belongs to one peer at a time,  *)
(* the last it was given to.                                               *)
SetPeer(k, q) == {r \in k : r.key # q.key /\ r.ip # q.ip} \cup {[key |-> q.key, ip |-> q.ip]}

Idle == \A p \in Procs : pc[p] = "idle"

---------------------------------------------------------------------------
(* The gateway *)

(* Manager.Setup: the interface is created or found, the file read.  A     *)
(* file that does not exist holds no peers.                                *)
Setup ==
    /\ gw = "off" /\ form # "broken"
    /\ gw' = "adding" /\ iface' = TRUE
    /\ gwTodo' = file
    /\ calm' = (calm /\ Idle)
    /\ UNCHANGED <<file, form, kernel, procVars, keys, torn, granted>>

(* A file that is not YAML ends the gateway; the interface stays. *)
SetupFails ==
    /\ gw = "off" /\ form = "broken"
    /\ iface' = TRUE
    /\ UNCHANGED <<file, form, kernel, gw, gwTodo, procVars, keys, calm, torn, granted>>

AddLoaded ==
    /\ gw = "adding" /\ gwTodo # <<>>
    /\ kernel' = SetPeer(kernel, Head(gwTodo))
    /\ gwTodo' = Tail(gwTodo)
    /\ UNCHANGED <<file, form, iface, gw, procVars, keys, calm, torn, granted>>

SetupDone ==
    /\ gw = "adding" /\ gwTodo = <<>>
    /\ gw' = "up"
    /\ UNCHANGED <<file, form, iface, kernel, gwTodo, procVars, keys, calm, torn, granted>>

(* Manager.Teardown removes the interface; a kill leaves it. *)
GatewayEnds(killed) ==
    /\ gw # "off"
    /\ gw' = "off" /\ gwTodo' = <<>>
    /\ iface' = killed
    /\ kernel' = IF killed THEN kernel ELSE {}
    /\ UNCHANGED <<file, form, procVars, keys, calm, torn, granted>>

---------------------------------------------------------------------------
(* gateway -add-peer, gateway -remove-peer *)

Overlap(p) == gw = "adding" \/ \E r \in Procs \ {p} : pc[r] # "idle"

Exits(p) ==
    /\ pc' = [pc EXCEPT ![p] = "idle"]
    /\ peers' = [peers EXCEPT ![p] = <<>>]
    /\ target' = [target EXCEPT ![p] = NoPeer]

Free(list) == {a \in Addrs : a % 256 # 255 /\ a # Gateway /\ \A q \in Range(list) : q.ip # a}

(* Mutant: the address after as many as there are peers. *)
AllocateByCount(list, a) == a = Gateway + 1 + Len(list)

(* allocateIP takes the first free address. *)
AllocateIP(list, a) == a \in Free(list) /\ \A b \in Free(list) : a <= b

(* LoadPeers, and the first half of AddPeer: the name must be new and an   *)
(* address free.  The error of LoadPeers is ignored: without a file, and   *)
(* with one that is not YAML, the list starts empty, as file is then.      *)
AddStart(p, name) ==
    /\ pc[p] = "idle" /\ keys < MaxKeys
    /\ calm' = (calm /\ ~Overlap(p))
    /\ \A q \in Range(file) : q.name # name
    /\ \E a \in Addrs :
          /\ AllocateIP(file, a)
          /\ target' = [target EXCEPT ![p] = [name |-> name, key |-> keys + 1, ip |-> a]]
    /\ keys' = keys + 1
    /\ pc' = [pc EXCEPT ![p] = "add"]
    /\ peers' = [peers EXCEPT ![p] = file]
    /\ UNCHANGED <<file, form, iface, kernel, gw, gwTodo, torn, granted>>

(* addPeerToWG; without the interface the command fails. *)
AddToWG(p) ==
    /\ pc[p] = "add"
    /\ \/ /\ iface
          /\ kernel' = SetPeer(kernel, target[p])
          /\ peers' = [peers EXCEPT ![p] = Append(@, target[p])]
          /\ pc' = [pc EXCEPT ![p] = "saveAdd"]
          /\ UNCHANGED target
       \/ Exits(p) /\ UNCHANGED kernel
    /\ UNCHANGED <<file, form, iface, gw, gwTodo, keys, calm, torn, granted>>

(* The i-th peer of the list is the first with the name. *)
Named(list, name, i) == list[i].name = name /\ \A j \in 1..(i - 1) : list[j].name # name

(* LoadPeers, whose error is fatal, and the first half of RemovePeer:      *)
(* without the name in the list it ends.                                   *)
RemoveStart(p, name) ==
    /\ pc[p] = "idle" /\ form = "list"
    /\ calm' = (calm /\ ~Overlap(p))
    /\ \E i \in 1..Len(file) : Named(file, name, i) /\ target' = [target EXCEPT ![p] = file[i]]
    /\ pc' = [pc EXCEPT ![p] = "remove"]
    /\ peers' = [peers EXCEPT ![p] = file]
    /\ UNCHANGED <<file, form, iface, kernel, gw, gwTodo, keys, torn, granted>>

RemoveFromList(p) ==
    \E i \in 1..Len(peers[p]) :
        Named(peers[p], target[p].name, i) /\ peers' = [peers EXCEPT ![p] = RemoveAt(@, i)]

(* Mutant: only the file is changed. *)
RemoveFileOnly(p) ==
    /\ pc[p] = "remove"
    /\ RemoveFromList(p)
    /\ pc' = [pc EXCEPT ![p] = "saveRemove"]
    /\ UNCHANGED <<kernel, target, file, form, iface, gw, gwTodo, keys, calm, torn, granted>>

RemoveFromWG(p) ==
    /\ pc[p] = "remove"
    /\ \/ /\ iface
          /\ kernel' = {r \in kernel : r.key # target[p].key}
          /\ RemoveFromList(p)
          /\ pc' = [pc EXCEPT ![p] = "saveRemove"]
          /\ UNCHANGED target
       \/ Exits(p) /\ UNCHANGED kernel
    /\ UNCHANGED <<file, form, iface, gw, gwTodo, keys, calm, torn, granted>>

(* savePeers: the file is created or truncated ... *)
SaveTruncate(p) ==
    /\ pc[p] \in {"saveAdd", "saveRemove"}
    /\ file' = <<>> /\ form' = "list"
    /\ pc' = [pc EXCEPT ![p] = IF @ = "saveAdd" THEN "writeAdd" ELSE "writeRemove"]
    /\ UNCHANGED <<iface, kernel, gw, gwTodo, peers, target, keys, calm, torn, granted>>

(* The list is written over what the file holds.  Where that is longer its *)
(* end stays: whole peers when the new text ends where one of the old      *)
(* begins, else text that is not YAML.  (The text of an empty list ends    *)
(* before the first peer of any other.)                                    *)
WriteOver(list) ==
    \/ file' = list /\ form' = "list"
    \/ /\ file # <<>> \/ form = "broken"
       /\ file' = <<>> /\ form' = "broken"
    \/ /\ list # <<>> /\ form' = "list"
       /\ \E i \in 2..Len(file) : file' = list \o SubSeq(file, i, Len(file))

(* ... and written, and a new peer's configuration handed out. *)
SaveWrite(p) ==
    /\ pc[p] \in {"writeAdd", "writeRemove"}
    /\ WriteOver(peers[p])
    /\ torn' = (torn \/ form' = "broken" \/ file' # peers[p])
    /\ granted' = IF pc[p] = "writeAdd" THEN granted \cup {target[p]} ELSE granted \ {target[p]}
    /\ Exits(p)
    /\ UNCHANGED <<iface, kernel, gw, gwTodo, keys, calm>>

(* The process is killed, or saving fails, after the kernel was changed. *)
Abort(p) ==
    /\ pc[p] \in {"saveAdd", "saveRemove", "writeAdd", "writeRemove"}
    /\ Exits(p)
    /\ calm' = FALSE
    /\ UNCHANGED <<file, form, iface, kernel, gw, gwTodo, keys, torn, granted>>

Next ==
    \/ Setup \/ SetupFails \/ AddLoaded \/ SetupDone
    \/ \E killed \in BOOLEAN : GatewayEnds(killed)
    \/ \E p \in Procs :
          \/ \E name \in Names : AddStart(p, name) \/ RemoveStart(p, name)
          \/ AddToWG(p) \/ RemoveFromWG(p) \/ SaveTruncate(p) \/ SaveWrite(p) \/ Abort(p)

Spec == Init /\ [][Next]_vars

---------------------------------------------------------------------------
(* Properties *)

TypeOK ==
    /\ file \in Seq(Peer) /\ form \in {"absent", "list", "broken"}
    /\ iface \in BOOLEAN /\ kernel \subseteq [key : Keys, ip : Addrs]
    /\ gw \in {"off", "adding", "up"} /\ gwTodo \in Seq(Peer)
    /\ pc \in [Procs -> {"idle", "add", "remove", "saveAdd", "saveRemove", "writeAdd", "writeRemove"}]
    /\ peers \in [Procs -> Seq(Peer)] /\ target \in [Procs -> Peer \cup {NoPeer}]
    /\ keys \in 0..MaxKeys /\ calm \in BOOLEAN /\ torn \in BOOLEAN /\ granted \subseteq Peer
    /\ kernel # {} => iface
    /\ form # "list" => file = <<>>

Unique(list) ==
    \A i, j \in 1..Len(list) : i # j =>
        /\ list[i].name # list[j].name
        /\ list[i].ip # list[j].ip
        /\ list[i].key # list[j].key

(* Until a process writes its list over a longer one that another wrote    *)
(* since it truncated the file, the file is YAML, no two of its entries    *)
(* share a name, an address or a key, and none has the gateway's address:  *)
(* whatever else overlaps, through lost updates, files read while they     *)
(* were empty, kills and failed saves.                                     *)
FileUnique ==
    ~torn => /\ form # "broken" /\ Unique(file)
             /\ \A q \in Range(file) : q.ip # Gateway

(* As long as processes have not overlapped and none was cut off between   *)
(* its changes, a gateway that is up has in the kernel exactly the peers   *)
(* of the file, which are exactly those whose configuration was handed out *)
(* and that were not removed: through restarts, kills of the gateway and   *)
(* refused commands.                                                       *)
PeersServed ==
    calm /\ Idle /\ gw = "up" =>
        /\ Range(file) = granted
        /\ kernel = {[key |-> q.key, ip |-> q.ip] : q \in Range(file)}
=============================================================================
