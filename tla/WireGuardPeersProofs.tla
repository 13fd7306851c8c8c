------------------------ MODULE WireGuardPeersProofs ------------------------
(***************************************************************************)
(* Proofs about WireGuardPeers, for any number of processes, peers and     *)
(* addresses.                                                              *)
(***************************************************************************)
EXTENDS WireGuardPeers, SequenceTheorems, TLAPS

(* A list that may be written to the file: no two entries share anything,  *)
(* none has the gateway's address, and all keys have been generated.       *)
Sound(list) == Unique(list) /\ \A q \in Range(list) : q.ip # Gateway /\ q.key <= keys

(* The peer a process is about to add shares nothing with its own list,    *)
(* however much the file has changed since the process read it.            *)
Apart(p) ==
    /\ target[p].ip # Gateway /\ target[p].key <= keys
    /\ \A q \in Range(peers[p]) : /\ q.name # target[p].name /\ q.ip # target[p].ip
                                  /\ q.key # target[p].key

(* What a process saves is its own list, so all lists have to be sound,    *)
(* not only the file.  A file left torn by two writes is read by the next  *)
(* process, and nothing more can be said of any list.                      *)
ListSound(p) == Sound(peers[p]) /\ (pc[p] = "add" => Apart(p))

ListsSound == ~torn => form # "broken" /\ Sound(file) /\ \A p \in Procs : ListSound(p)

TargetsSet == \A p \in Procs : pc[p] # "idle" => target[p] \in Peer

IfaceKept == gw # "off" => iface

IInv == TypeOK /\ TargetsSet /\ IfaceKept /\ ListsSound

(* There is no file, no interface and no process. *)
LEMMA InitIInv == Init => IInv
<1> SUFFICES ASSUME Init PROVE IInv
  OBVIOUS
<1>1. iface \in BOOLEAN /\ calm \in BOOLEAN /\ torn \in BOOLEAN
  BY DEF Init
<1>2. TypeOK
  BY <1>1, PeersAssumption, EmptySeq DEF Init, TypeOK
<1>3. ListsSound
  BY DEF Init, ListsSound, ListSound, Sound, Unique, Range
<1> QED
  BY <1>2, <1>3 DEF Init, IInv, TargetsSet, IfaceKept

(* The kernel's peers after wg set are peers with keys and addresses. *)
LEMMA SetPeerType ==
    ASSUME NEW k, k \subseteq [key : Keys, ip : Addrs], NEW q \in Peer
    PROVE  SetPeer(k, q) \subseteq [key : Keys, ip : Addrs]
BY DEF SetPeer, Peer

(* What a list of peers holds, entry by entry. *)
LEMMA Members ==
    ASSUME NEW list \in Seq(Peer)
    PROVE  /\ Len(list) \in Nat /\ Range(list) \subseteq Peer
           /\ \A i \in 1..Len(list) : list[i] \in Range(list)
           /\ \A q \in Range(list) : \E i \in 1..Len(list) : q = list[i]
BY RangeEquality, RangeOfSeq, LenProperties

(* A peer appended to a list. *)
LEMMA MembersWith ==
    ASSUME NEW list \in Seq(Peer), NEW q \in Peer
    PROVE  /\ Append(list, q) \in Seq(Peer)
           /\ Range(Append(list, q)) = Range(list) \cup {q}
<1>1. /\ Append(list, q) \in Seq(Peer) /\ Len(Append(list, q)) = Len(list) + 1
      /\ \A i \in 1..Len(list) : Append(list, q)[i] = list[i]
      /\ Append(list, q)[Len(list) + 1] = q /\ Len(list) \in Nat
  BY AppendProperties, LenProperties
<1>2. ASSUME NEW r \in Range(Append(list, q)) PROVE r \in Range(list) \cup {q}
  <2>1. PICK i \in 1..(Len(list) + 1) : r = Append(list, q)[i]
    BY <1>1, <1>2, Members
  <2> QED
    BY <1>1, <2>1, Members
<1>3. ASSUME NEW r \in Range(list) \cup {q} PROVE r \in Range(Append(list, q))
  <2>1. PICK i \in 1..(Len(list) + 1) : r = Append(list, q)[i]
    <3>1. CASE r = q
      BY <1>1, <3>1
    <3>2. CASE r \in Range(list)
      <4>1. PICK i \in 1..Len(list) : r = list[i]
        BY <3>2, Members
      <4> QED
        BY <1>1, <4>1
    <3> QED
      BY <1>3, <3>1, <3>2
  <2> QED
    BY <1>1, <2>1, Members
<1> QED
  BY <1>1, <1>2, <1>3

(* A list without its i-th peer. *)
LEMMA RemoveAtList ==
    ASSUME NEW list \in Seq(Peer), NEW i \in 1..Len(list)
    PROVE  /\ RemoveAt(list, i) \in Seq(Peer)
           /\ Len(RemoveAt(list, i)) = Len(list) - 1
           /\ \A j \in 1..(Len(list) - 1) :
                 RemoveAt(list, i)[j] = IF j < i THEN list[j] ELSE list[j + 1]
<1> DEFINE before == SubSeq(list, 1, i - 1)
           after == SubSeq(list, i + 1, Len(list))
<1>1. Len(list) \in Nat /\ \A j \in 1..Len(list) : list[j] \in Peer
  BY LenProperties
<1>2. /\ before \in Seq(Peer) /\ Len(before) = i - 1
      /\ \A j \in 1..(i - 1) : before[j] = list[j]
  <2>1. \A j \in 1..(i - 1) : list[j] \in Peer
    BY <1>1
  <2> QED
    BY <1>1, <2>1, SubSeqProperties
<1>3. /\ after \in Seq(Peer) /\ Len(after) = Len(list) - i
      /\ \A j \in 1..(Len(list) - i) : after[j] = list[i + j]
  <2>1. \A j \in (i + 1)..Len(list) : list[j] \in Peer
    BY <1>1
  <2>2. /\ after \in Seq(Peer)
        /\ Len(after) = IF i + 1 <= Len(list) THEN Len(list) - (i + 1) + 1 ELSE 0
        /\ \A j \in 1..(Len(list) - (i + 1) + 1) : after[j] = list[i + 1 + j - 1]
    BY <1>1, <2>1, SubSeqProperties
  <2> QED
    BY <1>1, <2>2
<1>4. RemoveAt(list, i) = before \o after
  BY DEF RemoveAt
<1> HIDE DEF before, after
<1>5. /\ before \o after \in Seq(Peer) /\ Len(before \o after) = Len(before) + Len(after)
      /\ \A j \in 1..(Len(before) + Len(after)) :
            (before \o after)[j] = IF j <= Len(before) THEN before[j] ELSE after[j - Len(before)]
  BY <1>2, <1>3, ConcatProperties
<1>6. ASSUME NEW j \in 1..(Len(list) - 1)
      PROVE  (before \o after)[j] = IF j < i THEN list[j] ELSE list[j + 1]
  <2>1. CASE j < i
    BY <1>1, <1>2, <1>3, <1>5, <2>1
  <2>2. CASE ~(j < i)
    <3>1. j - (i - 1) \in 1..(Len(list) - i) /\ i + (j - (i - 1)) = j + 1
      BY <1>1, <2>2
    <3>2. after[j - (i - 1)] = list[j + 1]
      BY <1>3, <3>1
    <3>3. (before \o after)[j] = after[j - (i - 1)]
      BY <1>1, <1>2, <1>3, <1>5, <2>2
    <3> QED
      BY <2>2, <3>2, <3>3
  <2> QED
    BY <2>1, <2>2
<1> QED
  BY <1>1, <1>2, <1>3, <1>4, <1>5, <1>6

LEMMA MembersWithout ==
    ASSUME NEW list \in Seq(Peer), NEW i \in 1..Len(list)
    PROVE  /\ Range(RemoveAt(list, i)) \subseteq Range(list)
           /\ Unique(list) => /\ Unique(RemoveAt(list, i))
                              /\ Range(RemoveAt(list, i)) = Range(list) \ {list[i]}
<1> DEFINE less == RemoveAt(list, i)
           n == Len(list)
           At(j) == IF j < i THEN j ELSE j + 1
<1>1. n \in Nat
  BY LenProperties
<1>2. less \in Seq(Peer) /\ Len(less) = n - 1
  BY RemoveAtList
<1>3. \A j \in 1..(n - 1) : At(j) \in 1..n /\ At(j) # i /\ less[j] = list[At(j)]
  BY <1>1, RemoveAtList
<1>4. \A j, k \in 1..(n - 1) : j # k => At(j) # At(k)
  BY <1>1
<1>5. \A k \in 1..n : k # i => \E j \in 1..(n - 1) : At(j) = k
  <2> TAKE k \in 1..n
  <2> HAVE k # i
  <2>1. CASE k < i
    <3> WITNESS k \in 1..(n - 1)
    <3> QED
      BY <1>1, <2>1
  <2>2. CASE ~(k < i)
    <3> WITNESS k - 1 \in 1..(n - 1)
    <3> QED
      BY <1>1, <2>2
  <2> QED
    BY <2>1, <2>2
<1> HIDE DEF less, n, At
<1>6. \A q \in Range(less) : \E k \in 1..n : k # i /\ q = list[k]
  BY <1>2, <1>3, Members
<1>7. Range(less) \subseteq Range(list)
  BY <1>6, Members DEF n
<1>8. ASSUME Unique(list) PROVE Unique(less)
  <2>1. ASSUME NEW j \in 1..(n - 1), NEW k \in 1..(n - 1), j # k
        PROVE  /\ less[j].name # less[k].name
               /\ less[j].ip # less[k].ip
               /\ less[j].key # less[k].key
    <3>1. /\ At(j) \in 1..n /\ less[j] = list[At(j)]
          /\ At(k) \in 1..n /\ less[k] = list[At(k)] /\ At(j) # At(k)
      BY <1>3, <1>4, <2>1
    <3> QED
      BY <1>8, <3>1 DEF Unique, n
  <2> QED
    BY <1>2, <2>1 DEF Unique
<1>9. ASSUME Unique(list) PROVE Range(less) = Range(list) \ {list[i]}
  <2>1. ASSUME NEW q \in Range(less) PROVE q # list[i]
    BY <1>6, <1>9 DEF Unique, n
  <2>2. ASSUME NEW q \in Range(list), q # list[i] PROVE q \in Range(less)
    <3>1. PICK k \in 1..n : q = list[k]
      BY Members DEF n
    <3>2. PICK j \in 1..(n - 1) : At(j) = k
      BY <1>5, <2>2, <3>1
    <3> QED
      BY <1>2, <1>3, <3>1, <3>2, Members
  <2> QED
    BY <1>7, <2>1, <2>2
<1> QED
  BY <1>7, <1>8, <1>9 DEF less

(* A sound list stays sound without one of its peers, and with one that    *)
(* shares nothing with it.                                                 *)
LEMMA SoundWithout ==
    ASSUME NEW list \in Seq(Peer), NEW i \in 1..Len(list), Sound(list)
    PROVE  Sound(RemoveAt(list, i))
BY MembersWithout DEF Sound

LEMMA SoundWith ==
    ASSUME NEW p \in Procs, peers[p] \in Seq(Peer), target[p] \in Peer,
           Sound(peers[p]), Apart(p)
    PROVE  Sound(Append(peers[p], target[p]))
<1> DEFINE list == peers[p]
           more == Append(list, target[p])
<1>1. /\ Len(more) = Len(list) + 1 /\ Len(list) \in Nat
      /\ \A i \in 1..Len(list) : more[i] = list[i] /\ list[i] \in Range(list)
      /\ more[Len(list) + 1] = target[p]
  BY AppendProperties, Members
<1>2. ASSUME NEW i \in 1..Len(more), NEW j \in 1..Len(more), i # j
      PROVE  /\ more[i].name # more[j].name
             /\ more[i].ip # more[j].ip
             /\ more[i].key # more[j].key
  <2> HIDE DEF more
  <2>1. CASE i \in 1..Len(list) /\ j \in 1..Len(list)
    BY <1>1, <1>2, <2>1 DEF Sound, Unique
  <2>2. CASE i = Len(list) + 1
    BY <1>1, <1>2, <2>2 DEF Apart
  <2>3. CASE j = Len(list) + 1
    BY <1>1, <1>2, <2>3 DEF Apart
  <2> QED
    BY <1>1, <2>1, <2>2, <2>3
<1>3. Unique(more)
  BY <1>2 DEF Unique
<1> QED
  BY <1>3, MembersWith DEF Sound, Apart

(* More keys generated leave a list sound. *)
LEMMA SoundLater ==
    ASSUME NEW list \in Seq(Peer), Sound(list), keys \in Nat, keys' = keys + 1
    PROVE  Unique(list) /\ \A q \in Range(list) : q.ip # Gateway /\ q.key <= keys'
<1>1. ASSUME NEW q \in Range(list) PROVE q.ip # Gateway /\ q.key <= keys'
  <2>1. q \in Peer /\ q.ip # Gateway /\ q.key <= keys
    BY <1>1, Members DEF Sound
  <2>2. q.key \in Nat
    BY <2>1, PeersAssumption DEF Peer, Keys
  <2> QED
    BY <2>1, <2>2
<1> QED
  BY <1>1 DEF Sound

(* A process that ends leaves the lists and peers of the others alone. *)
LEMMA ExitsKeeps ==
    ASSUME IInv, NEW p \in Procs, Exits(p), keys' = keys
    PROVE  /\ pc' \in [Procs -> {"idle", "add", "remove", "saveAdd", "saveRemove",
                               "writeAdd", "writeRemove"}]
           /\ peers' \in [Procs -> Seq(Peer)] /\ target' \in [Procs -> Peer \cup {NoPeer}]
           /\ TargetsSet'
           /\ ~torn => \A r \in Procs : ListSound(r)'
<1>1. /\ pc' \in [Procs -> {"idle", "add", "remove", "saveAdd", "saveRemove",
                               "writeAdd", "writeRemove"}]
      /\ target' \in [Procs -> Peer \cup {NoPeer}]
  BY DEF Exits, IInv, TypeOK
<1>2. pc'[p] = "idle" /\ peers'[p] = <<>> /\ peers' \in [Procs -> Seq(Peer)]
  BY EmptySeq DEF Exits, IInv, TypeOK
<1>3. ASSUME NEW r \in Procs, r # p
      PROVE  pc'[r] = pc[r] /\ peers'[r] = peers[r] /\ target'[r] = target[r]
  BY <1>3 DEF Exits, IInv, TypeOK
<1>4. TargetsSet'
  BY <1>2, <1>3 DEF IInv, TargetsSet
<1>5. ListSound(p)'
  BY <1>2 DEF ListSound, Sound, Unique, Range
<1>6. ASSUME NEW r \in Procs, r # p, ~torn PROVE ListSound(r)'
  BY <1>3, <1>6 DEF IInv, ListsSound, ListSound, Sound, Apart
<1> QED
  BY <1>1, <1>2, <1>4, <1>5, <1>6

(* A process's own list that is left alone stays sound. *)
LEMMA ListKept ==
    ASSUME NEW r \in Procs, ListSound(r), keys' = keys, pc'[r] = pc[r],
           peers'[r] = peers[r], target'[r] = target[r]
    PROVE  ListSound(r)'
BY DEF ListSound, Sound, Apart

(* Every step of the gateway and of the processes keeps the invariant. *)
LEMMA StepIInv == IInv /\ [Next]_vars => IInv'
<1> SUFFICES ASSUME IInv, [Next]_vars PROVE IInv'
  OBVIOUS
<1> USE PeersAssumption DEF IInv
<1>0. file \in Seq(Peer) /\ keys \in Nat /\ \A r \in Procs : peers[r] \in Seq(Peer)
  BY DEF TypeOK
<1>1. CASE Setup
  <2>1. iface' \in BOOLEAN /\ calm' \in BOOLEAN
    BY <1>1 DEF Setup, TypeOK
  <2>2. TypeOK'
    BY <1>1, <2>1 DEF Setup, TypeOK, procVars
  <2> QED
    BY <1>1, <2>2 DEF Setup, TargetsSet, IfaceKept, ListsSound, ListSound, Sound, Apart, procVars
<1>2. CASE SetupFails
  <2>1. iface' \in BOOLEAN
    BY <1>2 DEF SetupFails
  <2>2. TypeOK'
    BY <1>2, <2>1 DEF SetupFails, TypeOK, procVars
  <2> QED
    BY <1>2, <2>2 DEF SetupFails, TargetsSet, IfaceKept, ListsSound, ListSound, Sound, Apart, procVars
<1>3. CASE AddLoaded
  <2>0. Head(gwTodo) \in Peer /\ Tail(gwTodo) \in Seq(Peer)
    BY <1>3, HeadTailProperties DEF AddLoaded, TypeOK
  <2>1. kernel' \subseteq [key : Keys, ip : Addrs]
    BY <1>3, <2>0, SetPeerType DEF AddLoaded, TypeOK
  <2>2. iface'
    BY <1>3 DEF AddLoaded, IfaceKept
  <2>3. TypeOK'
    BY <1>3, <2>0, <2>1, <2>2 DEF AddLoaded, TypeOK, procVars
  <2> QED
    BY <1>3, <2>3 DEF AddLoaded, TargetsSet, IfaceKept, ListsSound, ListSound, Sound, Apart, procVars
<1>4. CASE SetupDone
  <2>1. TypeOK'
    BY <1>4 DEF SetupDone, TypeOK, procVars
  <2> QED
    BY <1>4, <2>1 DEF SetupDone, TargetsSet, IfaceKept, ListsSound, ListSound, Sound, Apart, procVars
<1>5. ASSUME NEW killed \in BOOLEAN, GatewayEnds(killed) PROVE IInv'
  <2>1. iface' \in BOOLEAN /\ gwTodo' \in Seq(Peer)
    BY <1>5, EmptySeq DEF GatewayEnds, TypeOK
  <2>2. kernel' # {} => iface'
    BY <1>5 DEF GatewayEnds
  <2>3. TypeOK'
    BY <1>5, <2>1, <2>2 DEF GatewayEnds, TypeOK, procVars
  <2> QED
    BY <1>5, <2>3 DEF GatewayEnds, TargetsSet, IfaceKept, ListsSound, ListSound, Sound, Apart, procVars
<1>6. ASSUME NEW p \in Procs, NEW name \in Names, AddStart(p, name) PROVE IInv'
  <2>1. PICK a \in Addrs :
          /\ AllocateIP(file, a)
          /\ target' = [target EXCEPT ![p] = [name |-> name, key |-> keys + 1, ip |-> a]]
    BY <1>6 DEF AddStart
  <2> DEFINE new == [name |-> name, key |-> keys + 1, ip |-> a]
  <2>2. new \in Peer
    BY <1>6 DEF AddStart, Peer, Keys, TypeOK
  <2>3. target' \in [Procs -> Peer \cup {NoPeer}] /\ target'[p] = new
    BY <2>1, <2>2 DEF TypeOK
  <2>4. calm' \in BOOLEAN
    BY <1>6 DEF AddStart
  <2>5. TypeOK'
    BY <1>6, <2>3, <2>4 DEF AddStart, TypeOK
  <2>6. TargetsSet'
    BY <1>6, <2>1, <2>2, <2>3 DEF AddStart, TargetsSet, TypeOK
  <2>7. keys' = keys + 1 /\ peers'[p] = file /\ UNCHANGED <<file, form, torn>>
    BY <1>6 DEF AddStart, TypeOK
  <2>8. ASSUME ~torn PROVE Sound(file)' /\ ListSound(p)'
    <3>1. Sound(file)
      BY <2>8 DEF ListsSound
    <3>2. a # Gateway /\ \A q \in Range(file) : q.ip # a /\ q.name # name /\ q.key # keys + 1
      BY <1>6, <2>1, <1>0, <3>1, Members DEF AddStart, AllocateIP, Free, Sound, Peer, Keys
    <3>3. Apart(p)'
      BY <2>3, <2>7, <3>2, <1>0 DEF Apart
    <3>4. Sound(file)' /\ Sound(peers[p])'
      BY <2>7, <3>1, <1>0, SoundLater DEF Sound
    <3> QED
      BY <3>3, <3>4 DEF ListSound
  <2>9. ASSUME NEW r \in Procs, r # p, ~torn PROVE ListSound(r)'
    <3>1. peers'[r] = peers[r] /\ target'[r] = target[r] /\ pc'[r] = pc[r]
      BY <1>6, <2>1, <2>9 DEF AddStart, TypeOK
    <3>2. Sound(peers[r]) /\ (pc[r] = "add" => Apart(r))
      BY <2>9 DEF ListsSound, ListSound
    <3>3. Sound(peers[r])'
      BY <3>1, <3>2, <2>7, <1>0, SoundLater DEF Sound
    <3>4. ASSUME pc'[r] = "add" PROVE Apart(r)'
      <4>1. target[r] \in Peer /\ Apart(r)
        BY <3>1, <3>2, <3>4 DEF TargetsSet
      <4> QED
        BY <4>1, <3>1, <1>0, <2>7 DEF Apart, Peer, Keys
    <3> QED
      BY <3>3, <3>4 DEF ListSound
  <2> QED
    BY <1>6, <2>5, <2>6, <2>7, <2>8, <2>9 DEF AddStart, IfaceKept, ListsSound
<1>7. ASSUME NEW p \in Procs, AddToWG(p) PROVE IInv'
  <2>0. /\ pc[p] = "add"
        /\ UNCHANGED <<file, form, iface, gw, gwTodo, keys, calm, torn, granted>>
    BY <1>7 DEF AddToWG
  <2>1. CASE Exits(p) /\ UNCHANGED kernel
    <3>1. TypeOK'
      BY <2>0, <2>1, ExitsKeeps DEF TypeOK
    <3> QED
      BY <2>0, <2>1, <3>1, ExitsKeeps DEF IfaceKept, ListsSound, Sound
  <2>2. CASE ~(Exits(p) /\ UNCHANGED kernel)
    <3>1. /\ iface /\ kernel' = SetPeer(kernel, target[p])
          /\ peers' = [peers EXCEPT ![p] = Append(@, target[p])]
          /\ pc' = [pc EXCEPT ![p] = "saveAdd"] /\ target' = target
      BY <1>7, <2>2 DEF AddToWG
    <3>2. target[p] \in Peer /\ (~torn => Apart(p) /\ Sound(peers[p]))
      BY <2>0 DEF TargetsSet, ListsSound, ListSound
    <3>3. kernel' \subseteq [key : Keys, ip : Addrs]
      BY <3>1, <3>2, SetPeerType DEF TypeOK
    <3>4. peers' \in [Procs -> Seq(Peer)] /\ peers'[p] = Append(peers[p], target[p])
      BY <3>1, <3>2, MembersWith DEF TypeOK
    <3>5. TypeOK'
      BY <2>0, <3>1, <3>3, <3>4 DEF TypeOK
    <3>6. TargetsSet'
      BY <3>1, <3>2 DEF TargetsSet, TypeOK
    <3>7. pc'[p] # "add"
      BY <3>1 DEF TypeOK
    <3>8. ASSUME ~torn PROVE ListSound(p)'
      BY <1>0, <2>0, <3>2, <3>4, <3>7, <3>8, SoundWith DEF Sound, ListSound
    <3>9. ASSUME NEW r \in Procs, r # p, ~torn PROVE ListSound(r)'
      <4>1. peers'[r] = peers[r] /\ pc'[r] = pc[r] /\ target'[r] = target[r]
        BY <3>1, <3>9 DEF TypeOK
      <4> QED
        BY <2>0, <3>9, <4>1, ListKept DEF ListsSound
    <3> QED
      BY <2>0, <3>5, <3>6, <3>8, <3>9 DEF IfaceKept, ListsSound, Sound
  <2> QED
    BY <2>1, <2>2
<1>8. ASSUME NEW p \in Procs, NEW name \in Names, RemoveStart(p, name) PROVE IInv'
  <2>0. UNCHANGED <<file, form, iface, kernel, gw, gwTodo, keys, torn, granted>>
    BY <1>8 DEF RemoveStart
  <2>1. calm' \in BOOLEAN
    BY <1>8 DEF RemoveStart
  <2>2. PICK i \in 1..Len(file) : target' = [target EXCEPT ![p] = file[i]]
    BY <1>8 DEF RemoveStart
  <2>3. file[i] \in Peer
    BY <1>0, ElementOfSeq
  <2>4. TypeOK'
    BY <1>8, <2>0, <2>1, <2>2, <2>3 DEF RemoveStart, TypeOK
  <2>5. /\ pc'[p] = "remove" /\ peers'[p] = file /\ target'[p] = file[i]
        /\ \A r \in Procs \ {p} : pc'[r] = pc[r] /\ peers'[r] = peers[r] /\ target'[r] = target[r]
    BY <1>8, <2>2 DEF RemoveStart, TypeOK
  <2>6. TargetsSet'
    BY <2>3, <2>5 DEF TargetsSet, TypeOK
  <2>7. ASSUME ~torn PROVE ListSound(p)'
    BY <2>0, <2>5, <2>7 DEF ListsSound, ListSound, Sound
  <2>8. ASSUME NEW r \in Procs, r # p, ~torn PROVE ListSound(r)'
    BY <2>0, <2>5, <2>8, ListKept DEF ListsSound
  <2> QED
    BY <2>0, <2>4, <2>6, <2>7, <2>8 DEF IfaceKept, ListsSound, Sound
<1>9. ASSUME NEW p \in Procs, RemoveFromWG(p) PROVE IInv'
  <2>0. /\ pc[p] = "remove"
        /\ UNCHANGED <<file, form, iface, gw, gwTodo, keys, calm, torn, granted>>
    BY <1>9 DEF RemoveFromWG
  <2>1. CASE Exits(p) /\ UNCHANGED kernel
    <3>1. TypeOK'
      BY <2>0, <2>1, ExitsKeeps DEF TypeOK
    <3> QED
      BY <2>0, <2>1, <3>1, ExitsKeeps DEF IfaceKept, ListsSound, Sound
  <2>2. CASE ~(Exits(p) /\ UNCHANGED kernel)
    <3>1. /\ iface /\ kernel' = {r \in kernel : r.key # target[p].key}
          /\ RemoveFromList(p)
          /\ pc' = [pc EXCEPT ![p] = "saveRemove"] /\ target' = target
      BY <1>9, <2>2 DEF RemoveFromWG
    <3>2. PICK i \in 1..Len(peers[p]) : peers' = [peers EXCEPT ![p] = RemoveAt(@, i)]
      BY <3>1 DEF RemoveFromList
    <3>3. peers' \in [Procs -> Seq(Peer)] /\ peers'[p] = RemoveAt(peers[p], i)
      BY <1>0, <3>2, RemoveAtList DEF TypeOK
    <3>4. TypeOK'
      BY <2>0, <3>1, <3>3 DEF TypeOK
    <3>5. TargetsSet'
      BY <2>0, <3>1 DEF TargetsSet, TypeOK
    <3>6. pc'[p] # "add"
      BY <3>1 DEF TypeOK
    <3>7. ASSUME ~torn PROVE ListSound(p)'
      <4>1. Sound(RemoveAt(peers[p], i))
        BY <1>0, <3>7, SoundWithout DEF ListsSound, ListSound
      <4> QED
        BY <2>0, <3>3, <3>6, <4>1 DEF ListSound, Sound
    <3>8. ASSUME NEW r \in Procs, r # p, ~torn PROVE ListSound(r)'
      <4>1. peers'[r] = peers[r] /\ pc'[r] = pc[r] /\ target'[r] = target[r]
        BY <3>1, <3>2, <3>8 DEF TypeOK
      <4> QED
        BY <2>0, <3>8, <4>1, ListKept DEF ListsSound
    <3> QED
      BY <2>0, <3>4, <3>5, <3>7, <3>8 DEF IfaceKept, ListsSound, Sound
  <2> QED
    BY <2>1, <2>2
<1>10. ASSUME NEW p \in Procs, SaveTruncate(p) PROVE IInv'
  <2>0. /\ file' = <<>> /\ form' = "list" /\ file' \in Seq(Peer)
        /\ UNCHANGED <<iface, kernel, gw, gwTodo, peers, target, keys, calm, torn, granted>>
    BY <1>10, EmptySeq DEF SaveTruncate
  <2>1. TypeOK'
    BY <1>10, <2>0 DEF SaveTruncate, TypeOK
  <2>2. Sound(file)'
    BY <2>0 DEF Sound, Unique, Range
  <2>3. \A r \in Procs : pc'[r] = "add" => pc[r] = "add"
    BY <1>10 DEF SaveTruncate, TypeOK
  <2>4. \A r \in Procs : ~torn => ListSound(r)'
    BY <2>0, <2>3 DEF ListsSound, ListSound, Sound, Apart
  <2>5. TargetsSet'
    BY <1>10 DEF SaveTruncate, TargetsSet, TypeOK
  <2> QED
    BY <2>0, <2>1, <2>2, <2>4, <2>5 DEF IfaceKept, ListsSound
<1>11. ASSUME NEW p \in Procs, SaveWrite(p) PROVE IInv'
  <2>0. /\ UNCHANGED <<iface, kernel, gw, gwTodo, keys, calm>> /\ Exits(p)
        /\ WriteOver(peers[p])
        /\ torn' = (torn \/ form' = "broken" \/ file' # peers[p])
    BY <1>11 DEF SaveWrite
  <2>1. target[p] \in Peer
    BY <1>11 DEF SaveWrite, TargetsSet
  <2>2. granted' \subseteq Peer
    BY <1>11, <2>1 DEF SaveWrite, TypeOK
  <2>3. /\ file' \in Seq(Peer) /\ form' \in {"absent", "list", "broken"}
        /\ form' # "list" => file' = <<>>
    <3>1. CASE file' = peers[p] /\ form' = "list"
      BY <1>0, <3>1
    <3>2. CASE file' = <<>> /\ form' = "broken"
      BY <3>2, EmptySeq
    <3>3. ASSUME NEW i \in 2..Len(file), file' = peers[p] \o SubSeq(file, i, Len(file)),
                 form' = "list"
          PROVE  file' \in Seq(Peer)
      <4>1. Len(file) \in Nat /\ \A j \in i..Len(file) : file[j] \in Peer
        BY <1>0, LenProperties
      <4>2. SubSeq(file, i, Len(file)) \in Seq(Peer)
        BY <4>1, SubSeqProperties
      <4> QED
        BY <1>0, <3>3, <4>2, ConcatProperties
    <3> QED
      BY <2>0, <3>1, <3>2, <3>3 DEF WriteOver
  <2>4. torn' \in BOOLEAN
    BY <2>0
  <2>5. TypeOK'
    BY <2>0, <2>2, <2>3, <2>4, ExitsKeeps DEF TypeOK
  <2>6. ASSUME ~torn' PROVE ~torn /\ form' # "broken" /\ Sound(file)'
    BY <2>0, <2>6 DEF ListsSound, ListSound, Sound
  <2> QED
    BY <2>0, <2>5, <2>6, ExitsKeeps DEF IfaceKept, ListsSound
<1>12. ASSUME NEW p \in Procs, Abort(p) PROVE IInv'
  <2>0. UNCHANGED <<file, form, iface, kernel, gw, gwTodo, keys, torn, granted>> /\ Exits(p)
    BY <1>12 DEF Abort
  <2>1. calm' \in BOOLEAN
    BY <1>12 DEF Abort
  <2>2. TypeOK'
    BY <2>0, <2>1, ExitsKeeps DEF TypeOK
  <2> QED
    BY <2>0, <2>2, ExitsKeeps DEF IfaceKept, ListsSound, Sound
<1>13. CASE UNCHANGED vars
  BY <1>13 DEF vars, procVars, TypeOK, TargetsSet, IfaceKept, ListsSound, ListSound, Sound, Apart
<1> QED
  BY <1>1, <1>2, <1>3, <1>4, <1>5, <1>6, <1>7, <1>8, <1>9, <1>10, <1>11, <1>12, <1>13 DEF Next

(* The invariant holds in every state the gateway and the processes reach, *)
(* whatever overlaps, kills and failed saves there are.                    *)
THEOREM PeersInvariance == Spec => []IInv
BY InitIInv, StepIInv, PTL DEF Spec

(* The types; the kernel has peers only while there is an interface. *)
THEOREM PeersTypeCorrect == Spec => []TypeOK
<1>1. IInv => TypeOK
  BY DEF IInv
<1> QED
  BY <1>1, PeersInvariance, PTL

(* Until a write leaves something of another process's list behind its     *)
(* own, the peers file is YAML, never holds two entries with the same      *)
(* name, address or key and never gives out the gateway's address,         *)
(* although nothing locks it: every list that LoadPeers reads was saved by *)
(* one process, or the file was read empty.                                *)
THEOREM FileAlwaysUnique == Spec => []FileUnique
<1>1. IInv => FileUnique
  BY DEF IInv, ListsSound, Sound, FileUnique
<1> QED
  BY <1>1, PeersInvariance, PTL

---------------------------------------------------------------------------
(* PeersServed *)

(* What the kernel holds of a set of peers. *)
Entry(q) == [key |-> q.key, ip |-> q.ip]
Entries(S) == {Entry(q) : q \in S}

(* The kernel has nothing but peers of the set: all of them when the       *)
(* gateway is up, and while it adds its peers all that it has done.        *)
Served(S) ==
    /\ kernel \subseteq Entries(S)
    /\ gw = "up" => Entries(S) \subseteq kernel
    /\ gw = "adding" => Range(gwTodo) \subseteq S /\ Entries(S \ Range(gwTodo)) \subseteq kernel

(* What a process that runs alone has: before its change to the kernel the *)
(* state of rest, afterwards what it is about to save, and once it has     *)
(* truncated the file nobody else has written it.                          *)
AloneInStep(p) ==
    /\ pc[p] \in {"add", "remove"} =>
          peers[p] = file /\ Range(file) = granted /\ Served(granted)
    /\ pc[p] = "remove" => target[p] \in granted
    /\ pc[p] \in {"saveAdd", "writeAdd"} =>
          Range(peers[p]) = granted \cup {target[p]} /\ Served(Range(peers[p]))
    /\ pc[p] \in {"saveRemove", "writeRemove"} =>
          Range(peers[p]) = granted \ {target[p]} /\ Served(Range(peers[p]))
    /\ pc[p] \in {"writeAdd", "writeRemove"} => file = <<>> /\ form = "list"

(* One thing happens at a time. *)
OneAtATime ==
    /\ gw = "adding" => Idle
    /\ \A p, r \in Procs : pc[p] # "idle" /\ pc[r] # "idle" => p = r

AtRest == Idle => Range(file) = granted /\ Served(granted)

Quiet == ~torn /\ OneAtATime /\ AtRest /\ \A p \in Procs : AloneInStep(p)

Steady == calm => Quiet

(* In a list without two entries that share anything, a key or an address  *)
(* tells the peer.                                                         *)
LEMMA UniqueMembers ==
    ASSUME NEW list \in Seq(Peer), Unique(list), NEW q \in Range(list), NEW r \in Range(list),
           q.name = r.name \/ q.key = r.key \/ q.ip = r.ip
    PROVE  q = r
<1>1. PICK i \in 1..Len(list) : q = list[i]
  BY Members
<1>2. PICK j \in 1..Len(list) : r = list[j]
  BY Members
<1>3. i = j
  BY <1>1, <1>2 DEF Unique
<1> QED
  BY <1>1, <1>2, <1>3

(* wg set changes nothing else when the peer is new to the set or one of   *)
(* it.                                                                     *)
LEMMA SetPeerAdds ==
    ASSUME NEW k, NEW S, NEW q, k \subseteq Entries(S),
           \A r \in S : r = q \/ (r.key # q.key /\ r.ip # q.ip)
    PROVE  SetPeer(k, q) = k \cup {Entry(q)}
BY DEF SetPeer, Entries, Entry

LEMMA EntriesWith ==
    ASSUME NEW S, NEW q PROVE Entries(S \cup {q}) = Entries(S) \cup {Entry(q)}
BY DEF Entries

LEMMA EntriesWithout ==
    ASSUME NEW S, NEW q \in S, \A r \in S : r.key = q.key => r = q
    PROVE  Entries(S \ {q}) = {e \in Entries(S) : e.key # q.key}
BY DEF Entries, Entry

(* The first of a list and the others. *)
LEMMA MembersTail ==
    ASSUME NEW list \in Seq(Peer), list # <<>>
    PROVE  /\ Head(list) \in Range(list)
           /\ Range(list) = Range(Tail(list)) \cup {Head(list)}
<1>1. /\ Tail(list) \in Seq(Peer) /\ Len(Tail(list)) = Len(list) - 1
      /\ \A i \in 1..Len(Tail(list)) : Tail(list)[i] = list[i + 1]
      /\ Len(list) \in Nat \ {0} /\ Head(list) = list[1]
  BY HeadTailProperties, EmptySeq
<1>2. Head(list) \in Range(list)
  BY <1>1, Members
<1>3. ASSUME NEW q \in Range(Tail(list)) PROVE q \in Range(list)
  <2>0. PICK i \in 1..Len(Tail(list)) : q = Tail(list)[i]
    BY <1>1, <1>3, Members
  <2>1. q = list[i + 1]
    BY <1>1, <2>0
  <2>2. i + 1 \in 1..Len(list)
    BY <1>1
  <2> QED
    BY <2>1, <2>2, Members
<1>4. ASSUME NEW q \in Range(list), q # Head(list) PROVE q \in Range(Tail(list))
  <2>1. PICK i \in 1..Len(list) : q = list[i]
    BY Members
  <2>2. i - 1 \in 1..Len(Tail(list)) /\ (i - 1) + 1 = i
    BY <1>1, <1>4, <2>1
  <2>3. Tail(list)[i - 1] = q
    BY <1>1, <2>1, <2>2
  <2> QED
    BY <1>1, <2>2, <2>3, Members
<1> QED
  BY <1>2, <1>3, <1>4

(* Nothing is served and nobody runs. *)
LEMMA InitSteady == Init => Steady
BY DEF Init, Steady, Quiet, OneAtATime, AtRest, AloneInStep, Served, Entries, Idle, Range

(* A step of a process that is not overlapped, and the others are idle. *)
LEMMA StepSteady == IInv /\ Steady /\ [Next]_vars => Steady'
<1> SUFFICES ASSUME IInv, Steady, [Next]_vars, calm' PROVE Quiet'
  BY DEF Steady
<1>0. calm
  <2>1. \A p \in Procs : ~Abort(p)
    BY DEF Abort
  <2> QED
    BY <2>1 DEF Next, Setup, SetupFails, AddLoaded, SetupDone, GatewayEnds, AddStart, AddToWG,
       RemoveStart, RemoveFromWG, SaveTruncate, SaveWrite, vars
<1>a. /\ ~torn /\ form # "broken" /\ Sound(file) /\ file \in Seq(Peer)
      /\ \A p \in Procs : ListSound(p) /\ peers[p] \in Seq(Peer)
  BY <1>0 DEF IInv, TypeOK, ListsSound, Steady, Quiet
<1>1. CASE Setup
  <2>1. Idle
    BY <1>1 DEF Setup
  <2>2. Range(file) = granted /\ Served(granted)
    BY <1>0, <2>1 DEF Steady, Quiet, AtRest
  <2>3. /\ Idle' /\ gw' = "adding" /\ gwTodo' = file
        /\ UNCHANGED <<file, granted, torn, kernel>>
    BY <1>1, <2>1 DEF Setup, Idle, procVars
  <2>4. Served(granted)'
    BY <2>2, <2>3 DEF Served, Entries
  <2> QED
    BY <1>a, <2>2, <2>3, <2>4 DEF Quiet, OneAtATime, AtRest, AloneInStep, Idle
<1>2. CASE SetupFails
  BY <1>2, <1>a DEF SetupFails
<1>3. CASE AddLoaded
  <2>0. gwTodo \in Seq(Peer) /\ gwTodo # <<>> /\ gw = "adding"
    BY <1>3 DEF AddLoaded, IInv, TypeOK
  <2>1. Idle /\ Range(file) = granted /\ Served(granted)
    BY <1>0, <2>0 DEF Steady, Quiet, OneAtATime, AtRest
  <2> DEFINE q == Head(gwTodo)
  <2>2. /\ Idle' /\ gw' = "adding" /\ gwTodo' = Tail(gwTodo)
        /\ UNCHANGED <<file, granted, torn>>
    BY <1>3, <2>1 DEF AddLoaded, Idle, procVars
  <2>3. q \in Range(gwTodo) /\ Range(gwTodo) = Range(Tail(gwTodo)) \cup {q}
    BY <2>0, MembersTail
  <2>4. q \in granted /\ kernel \subseteq Entries(granted)
    BY <2>0, <2>1, <2>3 DEF Served
  <2>5. \A r \in granted : r = q \/ (r.key # q.key /\ r.ip # q.ip)
    BY <1>a, <2>1, <2>4, UniqueMembers DEF Sound
  <2>6. kernel' = kernel \cup {Entry(q)}
    BY <1>3, <2>4, <2>5, SetPeerAdds DEF AddLoaded
  <2> HIDE DEF q
  <2>7. Served(granted)'
    <3>1. Range(gwTodo) \subseteq granted /\ Entries(granted \ Range(gwTodo)) \subseteq kernel
      BY <2>0, <2>1 DEF Served
    <3>2. granted \ Range(Tail(gwTodo)) \subseteq (granted \ Range(gwTodo)) \cup {q}
      BY <2>3
    <3>3. Entries(granted \ Range(Tail(gwTodo))) \subseteq kernel'
      BY <2>6, <3>1, <3>2 DEF Entries
    <3>4. kernel' \subseteq Entries(granted)
      BY <2>4, <2>6 DEF Entries
    <3> QED
      BY <2>2, <2>3, <3>1, <3>3, <3>4 DEF Served
  <2> QED
    BY <1>a, <2>1, <2>2, <2>7 DEF Quiet, OneAtATime, AtRest, AloneInStep, Idle
<1>4. CASE SetupDone
  <2>1. gw = "adding" /\ Range(gwTodo) = {}
    BY <1>4 DEF SetupDone, Range
  <2>2. Idle /\ Range(file) = granted /\ Served(granted)
    BY <1>0, <2>1 DEF Steady, Quiet, OneAtATime, AtRest
  <2>3. Idle' /\ gw' = "up" /\ UNCHANGED <<file, granted, torn, kernel>>
    BY <1>4, <2>2 DEF SetupDone, Idle, procVars
  <2>4. Served(granted)'
    <3>1. granted \ Range(gwTodo) = granted
      BY <2>1
    <3> QED
      BY <2>1, <2>2, <2>3, <3>1 DEF Served
  <2> QED
    BY <1>a, <2>2, <2>3, <2>4 DEF Quiet, OneAtATime, AtRest, AloneInStep, Idle
<1>5. ASSUME NEW killed \in BOOLEAN, GatewayEnds(killed) PROVE Quiet'
  <2>1. gw' = "off" /\ (kernel' = kernel \/ kernel' = {})
    BY <1>5 DEF GatewayEnds
  <2>2. ASSUME NEW S, Served(S) PROVE kernel' \subseteq Entries(S)
    BY <2>1, <2>2 DEF Served
  <2>3. UNCHANGED <<file, form, granted, pc, peers, target, torn>>
    BY <1>5 DEF GatewayEnds, procVars
  <2>4. OneAtATime' /\ AtRest'
    BY <1>0, <2>1, <2>2, <2>3 DEF Steady, Quiet, OneAtATime, AtRest, Idle, Served
  <2>5. ASSUME NEW p \in Procs PROVE AloneInStep(p)'
    BY <1>0, <2>1, <2>2, <2>3 DEF Steady, Quiet, AloneInStep, Served
  <2> QED
    BY <1>a, <2>3, <2>4, <2>5 DEF Quiet
<1>6. ASSUME NEW p \in Procs, NEW name \in Names, AddStart(p, name) PROVE Quiet'
  <2>1. gw # "adding" /\ \A r \in Procs : r # p => pc[r] = "idle"
    BY <1>6 DEF AddStart, Overlap
  <2>2. Idle
    BY <1>6, <2>1 DEF AddStart, Idle
  <2>3. Range(file) = granted /\ Served(granted)
    BY <1>0, <2>2 DEF Steady, Quiet, AtRest
  <2>4. /\ pc' = [pc EXCEPT ![p] = "add"] /\ peers' = [peers EXCEPT ![p] = file]
        /\ UNCHANGED <<file, kernel, gw, gwTodo, granted, torn>>
    BY <1>6 DEF AddStart
  <2>5. Served(granted)'
    BY <2>3, <2>4 DEF Served
  <2>6. /\ pc'[p] = "add" /\ peers'[p] = file
        /\ \A r \in Procs : r # p => pc'[r] = "idle"
    BY <2>1, <2>4 DEF IInv, TypeOK
  <2> QED
    BY <1>a, <2>1, <2>3, <2>4, <2>5, <2>6 DEF Quiet, OneAtATime, AtRest, AloneInStep, Idle
<1>7. ASSUME NEW p \in Procs, NEW name \in Names, RemoveStart(p, name) PROVE Quiet'
  <2>1. gw # "adding" /\ \A r \in Procs : r # p => pc[r] = "idle"
    BY <1>7 DEF RemoveStart, Overlap
  <2>2. Idle
    BY <1>7, <2>1 DEF RemoveStart, Idle
  <2>3. Range(file) = granted /\ Served(granted)
    BY <1>0, <2>2 DEF Steady, Quiet, AtRest
  <2>4. PICK i \in 1..Len(file) : target' = [target EXCEPT ![p] = file[i]]
    BY <1>7 DEF RemoveStart
  <2>5. /\ pc' = [pc EXCEPT ![p] = "remove"] /\ peers' = [peers EXCEPT ![p] = file]
        /\ UNCHANGED <<file, kernel, gw, gwTodo, granted, torn>>
    BY <1>7 DEF RemoveStart
  <2>6. Served(granted)'
    BY <2>3, <2>5 DEF Served
  <2>7. file[i] \in granted
    BY <1>a, <2>3, Members
  <2>8. /\ pc'[p] = "remove" /\ peers'[p] = file /\ target'[p] = file[i]
        /\ \A r \in Procs : r # p => pc'[r] = "idle"
    BY <2>1, <2>4, <2>5 DEF IInv, TypeOK
  <2> QED
    BY <1>a, <2>1, <2>3, <2>5, <2>6, <2>7, <2>8 DEF Quiet, OneAtATime, AtRest, AloneInStep, Idle
<1>8. ASSUME NEW p \in Procs, pc[p] # "idle"
      PROVE  gw # "adding" /\ \A r \in Procs : r # p => pc[r] = "idle"
  BY <1>0, <1>8 DEF Steady, Quiet, OneAtATime, Idle
<1>9. ASSUME NEW p \in Procs, Exits(p), pc[p] # "idle", Range(file)' = granted',
             Served(granted)', UNCHANGED gw, ~torn'
      PROVE  Quiet'
  <2>1. Idle'
    BY <1>8, <1>9 DEF Exits, Idle, IInv, TypeOK
  <2>2. gw' # "adding"
    BY <1>8, <1>9
  <2> QED
    BY <1>9, <2>1, <2>2 DEF Quiet, OneAtATime, AtRest, AloneInStep, Idle
<1>10. ASSUME NEW p \in Procs, AddToWG(p) PROVE Quiet'
  <2>1. pc[p] = "add" /\ UNCHANGED <<file, gw, gwTodo, granted, torn>>
    BY <1>10 DEF AddToWG
  <2>2. peers[p] = file /\ Range(file) = granted /\ Served(granted)
    BY <1>0, <2>1 DEF Steady, Quiet, AloneInStep
  <2>3. CASE Exits(p) /\ UNCHANGED kernel
    BY <1>9, <1>a, <2>1, <2>2, <2>3 DEF Served
  <2>4. CASE ~(Exits(p) /\ UNCHANGED kernel)
    <3>0. target[p] \in Peer /\ Apart(p)
      BY <1>a, <2>1 DEF IInv, TargetsSet, ListSound
    <3>1. /\ kernel' = SetPeer(kernel, target[p]) /\ target' = target
          /\ peers' = [peers EXCEPT ![p] = Append(@, target[p])]
          /\ pc' = [pc EXCEPT ![p] = "saveAdd"]
      BY <1>10, <2>4 DEF AddToWG
    <3>2. /\ pc'[p] = "saveAdd" /\ peers'[p] = Append(file, target[p])
          /\ \A r \in Procs : r # p => pc'[r] = "idle"
      BY <1>8, <2>1, <2>2, <3>1 DEF IInv, TypeOK
    <3>3. Range(peers[p])' = granted \cup {target[p]}
      BY <1>a, <2>2, <3>0, <3>2, MembersWith
    <3>4. \A r \in granted : r.key # target[p].key /\ r.ip # target[p].ip
      BY <2>2, <3>0 DEF Apart
    <3>5. kernel' = kernel \cup {Entry(target[p])}
      BY <2>2, <3>1, <3>4, SetPeerAdds DEF Served
    <3>6. gw # "adding"
      BY <1>8, <2>1
    <3>7. Served(Range(peers[p]))'
      BY <2>1, <2>2, <3>3, <3>5, <3>6, EntriesWith DEF Served
    <3> QED
      BY <1>a, <2>1, <2>2, <3>1, <3>2, <3>3, <3>6, <3>7 DEF Quiet, OneAtATime, AtRest, AloneInStep, Idle
  <2> QED
    BY <2>3, <2>4
<1>11. ASSUME NEW p \in Procs, RemoveFromWG(p) PROVE Quiet'
  <2>1. pc[p] = "remove" /\ UNCHANGED <<file, gw, gwTodo, granted, torn>>
    BY <1>11 DEF RemoveFromWG
  <2>2. peers[p] = file /\ Range(file) = granted /\ Served(granted) /\ target[p] \in granted
    BY <1>0, <2>1 DEF Steady, Quiet, AloneInStep
  <2>3. CASE Exits(p) /\ UNCHANGED kernel
    BY <1>9, <1>a, <2>1, <2>2, <2>3 DEF Served
  <2>4. CASE ~(Exits(p) /\ UNCHANGED kernel)
    <3>0. PICK i \in 1..Len(peers[p]) :
            /\ Named(peers[p], target[p].name, i)
            /\ peers' = [peers EXCEPT ![p] = RemoveAt(@, i)]
      BY <1>11, <2>4 DEF RemoveFromWG, RemoveFromList
    <3>1. /\ kernel' = {r \in kernel : r.key # target[p].key} /\ target' = target
          /\ pc' = [pc EXCEPT ![p] = "saveRemove"]
      BY <1>11, <2>4 DEF RemoveFromWG
    <3>2. /\ pc'[p] = "saveRemove" /\ peers'[p] = RemoveAt(file, i)
          /\ \A r \in Procs : r # p => pc'[r] = "idle"
      BY <1>8, <2>1, <2>2, <3>0, <3>1 DEF IInv, TypeOK
    <3>3. file[i] = target[p]
      BY <1>a, <2>2, <3>0, Members, UniqueMembers DEF Named, Sound
    <3>4. Range(peers[p])' = granted \ {target[p]}
      BY <1>a, <2>2, <3>0, <3>2, <3>3, MembersWithout DEF Sound
    <3>5. Entries(granted \ {target[p]}) = {e \in Entries(granted) : e.key # target[p].key}
      <4>1. \A r \in granted : r.key = target[p].key => r = target[p]
        BY <1>a, <2>2, UniqueMembers DEF Sound
      <4> QED
        BY <2>2, <4>1, EntriesWithout
    <3>6. gw # "adding"
      BY <1>8, <2>1
    <3>7. Served(Range(peers[p]))'
      BY <2>1, <2>2, <3>1, <3>4, <3>5, <3>6 DEF Served
    <3> QED
      BY <1>a, <2>1, <2>2, <3>1, <3>2, <3>4, <3>6, <3>7 DEF Quiet, OneAtATime, AtRest, AloneInStep, Idle
  <2> QED
    BY <2>3, <2>4
<1>12. ASSUME NEW p \in Procs, SaveTruncate(p) PROVE Quiet'
  <2>1. /\ pc[p] \in {"saveAdd", "saveRemove"} /\ file' = <<>> /\ form' = "list"
        /\ UNCHANGED <<kernel, gw, gwTodo, granted, peers, target, torn>>
    BY <1>12 DEF SaveTruncate
  <2>2. /\ pc[p] = "saveAdd" => pc'[p] = "writeAdd"
        /\ pc[p] = "saveRemove" => pc'[p] = "writeRemove"
        /\ \A r \in Procs : r # p => pc'[r] = "idle"
    BY <1>8, <1>12, <2>1 DEF SaveTruncate, IInv, TypeOK
  <2>3. gw # "adding"
    BY <1>8, <2>1
  <2>4. AloneInStep(p)'
    BY <1>0, <2>1, <2>2 DEF Steady, Quiet, AloneInStep, Served
  <2> QED
    BY <1>a, <2>1, <2>2, <2>3, <2>4 DEF Quiet, OneAtATime, AtRest, AloneInStep, Idle
<1>13. ASSUME NEW p \in Procs, SaveWrite(p) PROVE Quiet'
  <2>1. /\ pc[p] \in {"writeAdd", "writeRemove"} /\ Exits(p) /\ WriteOver(peers[p])
        /\ torn' = (torn \/ form' = "broken" \/ file' # peers[p])
        /\ UNCHANGED <<kernel, gw, gwTodo>>
    BY <1>13 DEF SaveWrite
  <2>2. file = <<>> /\ form = "list"
    BY <1>0, <2>1 DEF Steady, Quiet, AloneInStep
  <2>3. file' = peers[p] /\ form' = "list"
    <3>1. ~\E i \in 2..Len(file) : TRUE
      BY <2>2
    <3> QED
      BY <2>1, <2>2, <3>1 DEF WriteOver
  <2>4. granted' = Range(peers[p]) /\ Served(Range(peers[p]))
    BY <1>0, <1>13, <2>1 DEF SaveWrite, Steady, Quiet, AloneInStep
  <2> QED
    BY <1>9, <1>a, <2>1, <2>3, <2>4 DEF Served
<1>14. ASSUME NEW p \in Procs, Abort(p) PROVE FALSE
  BY <1>14 DEF Abort
<1>15. CASE UNCHANGED vars
  BY <1>0, <1>15 DEF vars, procVars, Steady, Quiet, OneAtATime, AtRest, AloneInStep, Served, Idle
<1> QED
  BY <1>1, <1>2, <1>3, <1>4, <1>5, <1>6, <1>7, <1>10, <1>11, <1>12, <1>13, <1>14, <1>15 DEF Next

(* As long as nothing overlaps and nobody is cut off between two changes,  *)
(* a gateway that is up has in the kernel exactly the peers of the file,   *)
(* and these are the ones whose configurations were handed out: through    *)
(* any number of additions, removals, restarts and kills of the gateway.   *)
THEOREM CalmPeersServed == Spec => []PeersServed
<1>1. Steady => PeersServed
  BY DEF Steady, Quiet, AtRest, Served, Entries, Entry, PeersServed
<1> QED
  BY <1>1, InitSteady, StepSteady, PeersInvariance, PTL DEF Spec
=============================================================================
