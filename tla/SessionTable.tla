---------------------------- MODULE SessionTable ----------------------------
(***************************************************************************)
(* The server's session table (cmd/server/main.go) over its address pool   *)
(* (internal/tunnel/ippool.go): the handleClient goroutines that assign,   *)
(* reclaim and release tunnel addresses, and the one goroutine that hands  *)
(* packets read from the TUN device to the session that owns their         *)
(* destination.                                                            *)
(*                                                                         *)
(* A session is named by the handleClient goroutine that creates it: each  *)
(* goroutine creates at most one clientSession, so the name plays the part *)
(* of the pointer the code compares.  Addresses are offsets in the pool's  *)
(* subnet: 0 is the network address, Size-1 the broadcast address.         *)
(***************************************************************************)
EXTENDS Integers

CONSTANTS
    Sessions,     \* the handleClient goroutines
    Tokens,       \* the client tokens, as sent in the assign request
    Preferred,    \* the addresses clients ask for
    Size,         \* 1 << (bits - ones), the number of addresses of the subnet
    ServerIP,     \* the server's own address in the subnet
    None          \* nil: no session, no token, no address

Unspecified == -1            \* 0.0.0.0 in an assign request: any address will do

Addrs == 0..(Size - 1)

ASSUME ConstantsAssumption ==
    /\ Size \in Nat \ {0}
    /\ ServerIP \in Addrs
    /\ Preferred \subseteq Nat \cup {Unspecified}
    /\ None \notin Sessions /\ None \notin Tokens /\ None \notin Int

VARIABLES
    allocated,    \* IPPool.allocated
    byIP,         \* sessionTable.byIP
    byToken,      \* sessionTable.byToken
    ip,           \* clientSession.ip, None until assign creates the session
    token,        \* clientSession.token
    published,    \* clientSession.writer and .cipher are set (both or neither)
    pc,           \* where each handleClient goroutine is
    evicted,      \* the session whose stream the goroutine still has to close
    link,         \* the mux stream: "up", "full" while the peer lives, sends
                  \* and takes no data (no send window), "gone" when it
                  \* disappeared without a word (half-open), "closed" here
    first,        \* the first frame written to the stream
    disp          \* the TUN -> clients goroutine

vars == <<allocated, byIP, byToken, ip, token, published, pc, evicted, link,
          first, disp>>

tableVars == <<allocated, byIP, byToken, ip, token>>

DispIdle == [phase |-> "idle", cs |-> None]

Init ==
    /\ allocated = {}
    /\ byIP = [a \in Addrs |-> None]
    /\ byToken = [t \in Tokens |-> None]
    /\ ip = [s \in Sessions |-> None]
    /\ token = [s \in Sessions |-> None]
    /\ published = [s \in Sessions |-> FALSE]
    /\ pc = [s \in Sessions |-> "auth"]
    /\ evicted = [s \in Sessions |-> None]
    /\ link = [s \in Sessions |-> "up"]
    /\ first = [s \in Sessions |-> "none"]
    /\ disp = DispIdle

Goto(s, label) == pc' = [pc EXCEPT ![s] = label]

---------------------------------------------------------------------------
(* IPPool *)

Reserved(a) == a \in {0, Size - 1}          \* network or broadcast address

(* The addresses the scan of nextFree visits and does not skip. *)
Scan == {a \in 2..(Size - 2) : a # ServerIP /\ a \notin allocated}

IsNextFree(a) == a \in Scan /\ \A b \in Scan : a <= b

(* Allocate succeeds and returns a. *)
Allocate(pref, a) ==
    IF pref # Unspecified
    THEN /\ a = pref
         /\ a \in Addrs
         /\ a # ServerIP
         /\ ~Reserved(a)
         /\ a \notin allocated
    ELSE IsNextFree(a)

---------------------------------------------------------------------------
(* sessionTable.assign: the branches are actions of their own, the common  *)
(* tail is Register.                                                       *)

TokenKnown(t) == t # None /\ byToken[t] # None

(* Mutant: the evicted session is not detached from the token index. *)
RegisterKeepsToken(s, t, a, old) ==
    /\ byIP' = [byIP EXCEPT ![a] = s]
    /\ byToken' = IF t # None THEN [byToken EXCEPT ![t] = s] ELSE byToken
    /\ ip' = [ip EXCEPT ![s] = a]
    /\ token' = [token EXCEPT ![s] = t]
    /\ evicted' = [evicted EXCEPT ![s] = old]
    /\ Goto(s, IF old # None THEN "evict" ELSE "respond")
    /\ UNCHANGED <<published, link, first, disp>>

(* Mutant: the caller forgets to close the evicted session's stream. *)
RegisterForgetsEvicted(s, t, a, old) ==
    /\ RegisterKeepsToken(s, t, a, None)

(* Drop the evicted session's entries where they still point at it, then   *)
(* enter the new session under its address and its token.                  *)
Register(s, t, a, old) ==
    LET restIP == IF old # None /\ byIP[ip[old]] = old
                  THEN [byIP EXCEPT ![ip[old]] = None] ELSE byIP
        restToken == IF old # None /\ token[old] # None /\ byToken[token[old]] = old
                     THEN [byToken EXCEPT ![token[old]] = None] ELSE byToken
    IN  /\ byIP' = [restIP EXCEPT ![a] = s]
        /\ byToken' = IF t # None THEN [restToken EXCEPT ![t] = s] ELSE restToken
        /\ ip' = [ip EXCEPT ![s] = a]
        /\ token' = [token EXCEPT ![s] = t]
        /\ evicted' = [evicted EXCEPT ![s] = old]
        /\ Goto(s, IF old # None THEN "evict" ELSE "respond")
        /\ UNCHANGED <<published, link, first, disp>>

(* Mutant: the known token is looked up and its address not reused. *)
AssignAnew(s, t) ==
    /\ pc[s] = "auth"
    /\ TokenKnown(t)
    /\ \E a \in Addrs :
          /\ IsNextFree(a)
          /\ allocated' = allocated \cup {a}
          /\ Register(s, t, a, byToken[t])

(* A known token: the reconnecting client gets its address back. *)
AssignSticky(s, t) ==
    /\ pc[s] = "auth"
    /\ TokenKnown(t)
    /\ Register(s, t, ip[byToken[t]], byToken[t])
    /\ UNCHANGED allocated

(* An unknown or missing token and an address the pool can give. *)
AssignFresh(s, t, pref) ==
    /\ pc[s] = "auth"
    /\ ~TokenKnown(t)
    /\ \E a \in Addrs :
          /\ Allocate(pref, a)
          /\ allocated' = allocated \cup {a}
          /\ Register(s, t, a, None)

(* The pool refuses the requested address and a session holds it: that     *)
(* session, live or not, makes room.                                       *)
AssignReclaim(s, t, pref) ==
    /\ pc[s] = "auth"
    /\ ~TokenKnown(t)
    /\ \A a \in Addrs : ~Allocate(pref, a)
    /\ pref \in Addrs
    /\ byIP[pref] # None
    /\ Register(s, t, ip[byIP[pref]], byIP[pref])
    /\ UNCHANGED allocated

(* Nothing to give: the goroutine returns. *)
AssignReject(s, t, pref) ==
    /\ pc[s] = "auth"
    /\ ~TokenKnown(t)
    /\ \A a \in Addrs : ~Allocate(pref, a)
    /\ pref \in Addrs => byIP[pref] = None
    /\ Goto(s, "close")
    /\ UNCHANGED <<allocated, byIP, byToken, ip, token, published, evicted, link,
                   first, disp>>

(* Mutant: the address goes back to the pool whoever is registered under it. *)
RemoveReleasesAlways(s) ==
    /\ pc[s] = "exit"
    /\ byIP' = [byIP EXCEPT ![ip[s]] = IF @ = s THEN None ELSE @]
    /\ allocated' = allocated \ {ip[s]}
    /\ byToken' = IF token[s] # None /\ byToken[token[s]] = s
                  THEN [byToken EXCEPT ![token[s]] = None] ELSE byToken
    /\ Goto(s, "close")
    /\ UNCHANGED <<ip, token, published, evicted, link, first, disp>>

(* Mutant: entry and address are freed although another session has them. *)
RemoveUnguarded(s) ==
    /\ pc[s] = "exit"
    /\ byIP' = [byIP EXCEPT ![ip[s]] = None]
    /\ allocated' = allocated \ {ip[s]}
    /\ byToken' = IF token[s] # None /\ byToken[token[s]] = s
                  THEN [byToken EXCEPT ![token[s]] = None] ELSE byToken
    /\ Goto(s, "close")
    /\ UNCHANGED <<ip, token, published, evicted, link, first, disp>>

(* sessionTable.remove *)
Remove(s) ==
    /\ pc[s] = "exit"
    /\ IF byIP[ip[s]] = s
       THEN /\ byIP' = [byIP EXCEPT ![ip[s]] = None]
            /\ allocated' = allocated \ {ip[s]}
       ELSE UNCHANGED <<byIP, allocated>>
    /\ byToken' = IF token[s] # None /\ byToken[token[s]] = s
                  THEN [byToken EXCEPT ![token[s]] = None] ELSE byToken
    /\ Goto(s, "close")
    /\ UNCHANGED <<ip, token, published, evicted, link, first, disp>>

---------------------------------------------------------------------------
(* The rest of handleClient *)

(* No assign request, or not a well-formed one: the connection fails or    *)
(* the first frame is of another type.                                     *)
NoAssignRequest(s) ==
    /\ pc[s] = "auth"
    /\ Goto(s, "close")
    /\ UNCHANGED <<tableVars, published, evicted, link, first, disp>>

CloseEvicted(s) ==
    /\ pc[s] = "evict"
    /\ link' = [link EXCEPT ![evicted[s]] = "closed"]
    /\ evicted' = [evicted EXCEPT ![s] = None]
    /\ Goto(s, "respond")
    /\ UNCHANGED <<tableVars, published, first, disp>>

(* A write to the stream returns: the window has room or, on a closed      *)
(* stream, the write fails.  No write of the server has a deadline.        *)
Returns(s) == link[s] # "full"

Written(s, kind) ==
    IF first[s] = "none" THEN [first EXCEPT ![s] = kind] ELSE first

(* The assign response is written. *)
Respond(s) ==
    /\ pc[s] = "respond"
    /\ link[s] # "closed"
    /\ first' = Written(s, "assign")
    /\ Goto(s, "publish")
    /\ UNCHANGED <<tableVars, published, evicted, link, disp>>

(* Mutant: the goroutine returns without removing the session. *)
RespondFailsReturns(s) ==
    /\ pc[s] = "respond"
    /\ Goto(s, "close")
    /\ UNCHANGED <<tableVars, published, evicted, link, first, disp>>

(* It cannot be encoded, or not be written (always so on a closed stream): *)
(* the session is removed before it was ever published.                    *)
RespondFails(s) ==
    /\ pc[s] = "respond"
    /\ Goto(s, "exit")
    /\ UNCHANGED <<tableVars, published, evicted, link, first, disp>>

(* setWriter *)
Publish(s) ==
    /\ pc[s] = "publish"
    /\ published' = [published EXCEPT ![s] = TRUE]
    /\ Goto(s, "serve")
    /\ UNCHANGED <<tableVars, evicted, link, first, disp>>

(* The read loop decodes a ping or a close frame the peer sent.  Data,     *)
(* keepalive, pong and decoy frames leave the session as it is.            *)
Receive(s) ==
    /\ pc[s] = "serve" /\ link[s] \in {"up", "full"}
    /\ \E next \in {"pong", "exit"} : Goto(s, next)
    /\ UNCHANGED <<tableVars, published, evicted, link, first, disp>>

(* A ping is answered; a failed write ends the session. *)
Pong(s) ==
    /\ pc[s] = "pong" /\ Returns(s)
    /\ IF link[s] # "closed" THEN first' = Written(s, "pong") /\ Goto(s, "serve")
                  ELSE Goto(s, "exit") /\ UNCHANGED first
    /\ UNCHANGED <<tableVars, published, evicted, link, disp>>

(* Mutant: the error is logged and the loop reads on. *)
ReadFailsContinues(s) ==
    /\ pc[s] = "serve"
    /\ Goto(s, "serve")
    /\ UNCHANGED <<tableVars, published, evicted, link, first, disp>>

(* Decode returns an error: the stream is closed, or no frame arrived for  *)
(* clientDataReadTimeout.                                                  *)
ReadFails(s) ==
    /\ pc[s] = "serve"
    /\ Goto(s, "exit")
    /\ UNCHANGED <<tableVars, published, evicted, link, first, disp>>

(* The deferred closes of obfsConn, muxSession, pgConn and conn. *)
CloseConn(s) ==
    /\ pc[s] = "close"
    /\ link' = [link EXCEPT ![s] = "closed"]
    /\ Goto(s, "done")
    /\ UNCHANGED <<tableVars, published, evicted, first, disp>>

---------------------------------------------------------------------------
(* The TUN -> clients goroutine: three critical sections, none of them     *)
(* held over the next.                                                     *)

DispLookup(dst) ==
    /\ disp.phase = "idle"
    /\ byIP[dst] # None
    /\ disp' = [phase |-> "cipher", cs |-> byIP[dst]]
    /\ UNCHANGED <<tableVars, published, pc, evicted, link, first>>

(* Mutant: the cipher is known from the handshake on, so the session is    *)
(* taken to be ready before its writer is published.                       *)
DispCipherEarly ==
    /\ disp.phase = "cipher"
    /\ disp' = [disp EXCEPT !.phase = "send"]
    /\ UNCHANGED <<tableVars, published, pc, evicted, link, first>>

DispCipher ==
    /\ disp.phase = "cipher"
    /\ disp' = IF published[disp.cs] THEN [disp EXCEPT !.phase = "send"] ELSE DispIdle
    /\ UNCHANGED <<tableVars, published, pc, evicted, link, first>>

(* Mutant: a write that waits for the window and does not see the close. *)
DispSendWaits ==
    /\ disp.phase = "send"
    /\ link[disp.cs] = "up"
    /\ disp' = DispIdle
    /\ first' = Written(disp.cs, "data")
    /\ UNCHANGED <<tableVars, published, pc, evicted, link>>

DispSend ==
    /\ disp.phase = "send" /\ Returns(disp.cs)
    /\ disp' = DispIdle
    /\ first' = IF link[disp.cs] # "closed" THEN Written(disp.cs, "data") ELSE first
    /\ UNCHANGED <<tableVars, published, pc, evicted, link>>

---------------------------------------------------------------------------
(* The network *)

(* The peer no longer takes data off the stream and the send window fills  *)
(* up, which the assign response alone cannot do, while the peer's own     *)
(* frames and keepalives still arrive.                                     *)
Stall(s) ==
    /\ link[s] = "up" /\ published[s]
    /\ link' = [link EXCEPT ![s] = "full"]
    /\ UNCHANGED <<tableVars, published, pc, evicted, first, disp>>

(* It reads again. *)
Resume(s) ==
    /\ link[s] = "full"
    /\ link' = [link EXCEPT ![s] = "up"]
    /\ UNCHANGED <<tableVars, published, pc, evicted, first, disp>>

(* The peer disappears without closing the connection. *)
PeerGone(s) ==
    /\ link[s] \in {"up", "full"}
    /\ link' = [link EXCEPT ![s] = "gone"]
    /\ UNCHANGED <<tableVars, published, pc, evicted, first, disp>>

(* smux notices (KeepAliveTimeout, or a reset) and closes the session. *)
MuxDown(s) ==
    /\ link[s] = "gone"
    /\ link' = [link EXCEPT ![s] = "closed"]
    /\ UNCHANGED <<tableVars, published, pc, evicted, first, disp>>

---------------------------------------------------------------------------

Handler(s) ==
    \/ \E t \in Tokens : AssignSticky(s, t)
    \/ \E t \in Tokens \cup {None}, pref \in Preferred :
          AssignFresh(s, t, pref) \/ AssignReclaim(s, t, pref) \/ AssignReject(s, t, pref)
    \/ NoAssignRequest(s) \/ CloseEvicted(s)
    \/ Respond(s) \/ RespondFails(s) \/ Publish(s)
    \/ Receive(s) \/ Pong(s) \/ ReadFails(s)
    \/ Remove(s) \/ CloseConn(s)

Dispatcher == (\E dst \in Addrs : DispLookup(dst)) \/ DispCipher \/ DispSend

Network(s) == Stall(s) \/ Resume(s) \/ PeerGone(s) \/ MuxDown(s)

Next == (\E s \in Sessions : Handler(s) \/ Network(s)) \/ Dispatcher

Spec == Init /\ [][Next]_vars

(* Every goroutine that can run does.  A write goes out to a peer that     *)
(* reads, the dispatcher's also to one that reads again and again; it      *)
(* fails on a closed stream; to a half-open peer it may block, and nothing *)
(* makes a peer that stopped reading start again.  The read deadline       *)
(* expires only when the peer is silent.  smux times out a peer that is    *)
(* gone.                                                                   *)
Writable(s) == link[s] \in {"up", "closed"}

Fairness ==
    /\ \A s \in Sessions :
          /\ WF_vars(CloseEvicted(s)) /\ WF_vars(Publish(s))
          /\ WF_vars(Writable(s) /\ (Respond(s) \/ RespondFails(s)))
          /\ WF_vars(Remove(s)) /\ WF_vars(CloseConn(s))
          /\ WF_vars(Writable(s) /\ Pong(s))
          /\ WF_vars(link[s] \in {"gone", "closed"} /\ ReadFails(s))
          /\ WF_vars(MuxDown(s))
    /\ WF_vars(DispCipher)
    /\ SF_vars(DispSend /\ Writable(disp.cs))

FairSpec == Spec /\ Fairness

---------------------------------------------------------------------------
(* Properties *)

(* The control points between assign and remove. *)
Registered == {"evict", "respond", "publish", "serve", "pong", "exit"}

(* The types; a goroutine has a session exactly from assign on, and one to *)
(* evict exactly until it has closed it.                                   *)
TypeOK ==
    /\ allocated \subseteq Addrs
    /\ byIP \in [Addrs -> Sessions \cup {None}]
    /\ byToken \in [Tokens -> Sessions \cup {None}]
    /\ ip \in [Sessions -> Addrs \cup {None}]
    /\ token \in [Sessions -> Tokens \cup {None}]
    /\ published \in [Sessions -> BOOLEAN]
    /\ pc \in [Sessions -> Registered \cup {"auth", "close", "done"}]
    /\ evicted \in [Sessions -> Sessions \cup {None}]
    /\ link \in [Sessions -> {"up", "full", "gone", "closed"}]
    /\ first \in [Sessions -> {"none", "assign", "data", "pong"}]
    /\ disp \in [phase : {"idle", "cipher", "send"}, cs : Sessions \cup {None}]
    /\ disp.phase # "idle" => disp.cs # None
    /\ \A s \in Sessions :
          /\ pc[s] = "auth" => ip[s] = None
          /\ pc[s] \in Registered => ip[s] # None
          /\ evicted[s] # None <=> pc[s] = "evict"

(* The pool and the table agree: an address is taken in the pool exactly   *)
(* when a session is registered under it, so none leaks and none is handed *)
(* out twice, whatever the order of evictions and late removes.            *)
PoolMatchesTable == allocated = {a \in Addrs : byIP[a] # None}

(* The two indexes agree: each entry leads to a session with that address  *)
(* or that token, and a session is in both of its entries or in neither.   *)
IndexesAgree ==
    /\ \A a \in Addrs : byIP[a] # None =>
          /\ ip[byIP[a]] = a
          /\ token[byIP[a]] # None => byToken[token[byIP[a]]] = byIP[a]
    /\ \A t \in Tokens : byToken[t] # None =>
          /\ token[byToken[t]] = t
          /\ byIP[ip[byToken[t]]] = byToken[t]

(* A registered session belongs to a goroutine that still has its remove   *)
(* ahead of it: no early return of handleClient leaves an entry behind.    *)
HeldByRunning ==
    \A a \in Addrs : byIP[a] # None => pc[byIP[a]] \in Registered

(* The addresses clients hold are host addresses other than the server's.  *)
HeldAreHosts ==
    \A a \in Addrs : byIP[a] # None => a # ServerIP /\ ~Reserved(a)

(* A session that lost its address to another one and still runs has been  *)
(* cut off, or the goroutine that took the address is about to do it.      *)
Superseded(s) == pc[s] \in Registered /\ byIP[ip[s]] # s

SupersededIsCut ==
    \A s \in Sessions : Superseded(s) =>
        link[s] = "closed" \/ \E h \in Sessions : pc[h] = "evict" /\ evicted[h] = s

(* The client reads the assign response before anything else: no packet of *)
(* the dispatcher and no pong overtakes it on the stream.                  *)
AssignResponseFirst ==
    \A s \in Sessions :
        /\ first[s] \in {"none", "assign"}
        /\ published[s] => first[s] = "assign"

(* The table implements leases of host addresses: an address becomes free  *)
(* only in the remove of the session that holds it, and the late remove of *)
(* a session that lost its address changes nothing for the new holder.     *)
Hosts == {a \in Addrs : a # ServerIP /\ ~Reserved(a)}

Life(s) ==
    IF pc[s] = "auth" THEN "new"
    ELSE IF pc[s] \in Registered THEN "active" ELSE "ended"

Lease == INSTANCE AddressLease WITH
    Holders <- Sessions,
    Addresses <- Hosts,
    owner <- [a \in Hosts |-> byIP[a]],
    life <- [s \in Sessions |-> Life(s)]

ImplementsLease == Lease!Spec

(* A token keeps its address for as long as it stays in the table, from    *)
(* one session of the client to the next.                                  *)
StickyAddress ==
    [][\A t \in Tokens : byToken[t] # None /\ byToken'[t] # None =>
          ip'[byToken'[t]] = ip[byToken[t]]]_vars

(* A half-open session is reaped, wherever its goroutine is. *)
HalfOpenReaped ==
    \A s \in Sessions : (link[s] = "gone" /\ ip[s] # None) ~> pc[s] = "done"

(* A session that lost its address to another one ends. *)
SupersededEnds == \A s \in Sessions : Superseded(s) ~> pc[s] = "done"

(* The dispatcher's one goroutine writes to all clients.  A client that    *)
(* reads again and again, vanishes or is closed does not hold up the       *)
(* packets of the others for ever.  The premise is needed: send has no     *)
(* write deadline, so a client that lives and reads no more blocks it for  *)
(* as long as its session lasts.                                           *)
DispatcherProgress ==
    \A s \in Sessions :
        []<>(link[s] # "full") =>
            ((disp.phase # "idle" /\ disp.cs = s) ~> disp.phase = "idle")
=============================================================================
