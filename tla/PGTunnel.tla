------------------------------ MODULE PGTunnel ------------------------------
(***************************************************************************)
(* A connection disguised as PostgreSQL replication, from its handshake    *)
(* (PGHandshake) on: PGConn (internal/transport/pgproto/pgconn.go), which  *)
(* carries the frames of the multiplexer above it in CopyData messages,    *)
(* with keepalives in between.                                             *)
(*                                                                         *)
(* Data is counted in units.  The first unit of a message is what the      *)
(* reader tells messages apart by: "w" (XLogData), "k" and "r" (the two    *)
(* keepalives), anything else for raw data.                                *)
(***************************************************************************)
EXTENDS PGHandshake, Naturals

CONSTANTS
    Units,        \* the units the multiplexer's data is made of
    Chunks,       \* what it writes in one call: its version first, then any
                  \* units
    HeaderLen,    \* the XLogData header, in units
    MaxUnits,     \* bound: units written per end
    MaxFlight     \* bound: frames under way per direction

ASSUME ChunksAssumption ==
    /\ HeaderLen \in Nat \ {0} /\ MaxUnits \in Nat /\ MaxFlight \in Nat
    /\ Chunks \subseteq Seq(Units)
    /\ \A c \in Chunks : c # <<>> /\ c[1] \notin {"w", "k", "r"}

VARIABLES
    frame,        \* frame[e]: the message a Write has built, holding writeMu
    walPos,       \* walPos[e], from 0
    sent,         \* sent[e]: the units written at e
    readBuf,      \* readBuf[e]
    rcvd          \* rcvd[e]: the units read at e

connVars == <<frame, walPos, sent, readBuf, rcvd>>
vars == <<hsVars, connVars>>

Init ==
    /\ HandshakeInit
    /\ frame = [e \in Ends |-> <<>>] /\ walPos = [e \in Ends |-> 0]
    /\ sent = [e \in Ends |-> <<>>] /\ rcvd = [e \in Ends |-> <<>>]
    /\ readBuf = [e \in Ends |-> <<>>]

Live(e) == pc[e] = "open" /\ e \notin shut

CopyData(from, to, payload) == [tag |-> "copyData", from |-> from, to |-> to, p |-> payload]

Header == [j \in 1..HeaderLen |-> IF j = 1 THEN "w" ELSE "position"]

(* PGConn.Write: under writeMu the message is built and walPos advanced ... *)
WriteBuild(e, chunk) ==
    /\ Live(e) /\ frame[e] = <<>>
    /\ Len(sent[e]) + Len(chunk) <= MaxUnits
    /\ LET to == walPos[e] + Len(chunk)
       IN  /\ frame' = [frame EXCEPT ![e] =
                  <<CopyData(walPos[e], to, IF e = "s" THEN Header \o chunk ELSE chunk)>>]
           /\ walPos' = [walPos EXCEPT ![e] = to]
    /\ sent' = [sent EXCEPT ![e] = @ \o chunk]
    /\ UNCHANGED <<hsVars, readBuf, rcvd>>

(* ... and the message written, or lost with the connection: after one     *)
(* failed write TLS refuses every other.                                   *)
WriteSend(e) ==
    /\ frame[e] # <<>>
    /\ \/ /\ Live(e) /\ ~cut
          /\ net' = [net EXCEPT ![e] = @ \o frame[e]]
          /\ UNCHANGED shut
       \/ /\ e \in shut \/ Other(e) \in shut \/ cut
          /\ shut' = shut \cup {e}
          /\ UNCHANGED net
    /\ frame' = [frame EXCEPT ![e] = <<>>]
    /\ UNCHANGED <<kind, pc, todo, cut, expired, walPos, sent, readBuf, rcvd>>

KeepaliveMsg(e) == CopyData(walPos[e], walPos[e], <<IF e = "s" THEN "k" ELSE "r">>)

(* Mutant: the keepalive does not wait for writeMu. *)
KeepaliveUnlocked(e) ==
    /\ Live(e) /\ ~cut
    /\ Len(net[e]) < MaxFlight
    /\ net' = [net EXCEPT ![e] = Append(@, KeepaliveMsg(e))]
    /\ UNCHANGED <<kind, pc, todo, shut, cut, expired, connVars>>

(* keepaliveLoop, which ends when the connection does. *)
Keepalive(e) ==
    /\ Live(e) /\ ~cut
    /\ frame[e] = <<>>
    /\ Len(net[e]) < MaxFlight
    /\ net' = [net EXCEPT ![e] = Append(@, KeepaliveMsg(e))]
    /\ UNCHANGED <<kind, pc, todo, shut, cut, expired, connVars>>

(* Mutant: the header is not taken off. *)
ContentWithHeader(m) ==
    IF m.tag # "copyData" \/ m.p = <<>> THEN <<>>
    ELSE IF m.p[1] \in {"k", "r"} THEN <<>> ELSE m.p

(* Mutant: an XLogData message with little in it counts as empty. *)
ContentOffByOne(m) ==
    IF m.tag # "copyData" \/ m.p = <<>> THEN <<>>
    ELSE CASE m.p[1] = "w" /\ Len(m.p) <= HeaderLen + 1 -> <<>>
           [] m.p[1] = "w"          -> SubSeq(m.p, HeaderLen + 1, Len(m.p))
           [] m.p[1] \in {"k", "r"} -> <<>>
           [] OTHER                 -> m.p

(* readFrame: what a message contributes to readBuf. *)
Content(m) ==
    IF m.tag # "copyData" \/ m.p = <<>> THEN <<>>
    ELSE IF m.p[1] \in {"k", "r"} THEN <<>>
    ELSE IF m.p[1] = "w" THEN SubSeq(m.p, HeaderLen + 1, Len(m.p)) ELSE m.p

(* PGConn.Read: messages are read until readBuf holds something ... *)
ReadFrame(e) ==
    /\ Live(e) /\ readBuf[e] = <<>> /\ net[Other(e)] # <<>>
    /\ readBuf' = [readBuf EXCEPT ![e] = Content(Head(net[Other(e)]))]
    /\ net' = [net EXCEPT ![Other(e)] = Tail(@)]
    /\ UNCHANGED <<kind, pc, todo, shut, cut, expired, frame, walPos, sent, rcvd>>

(* ... which is handed out in pieces. *)
ReadPiece(e) ==
    /\ readBuf[e] # <<>>
    /\ \E n \in 1..Len(readBuf[e]) :
          /\ rcvd' = [rcvd EXCEPT ![e] = @ \o SubSeq(readBuf[e], 1, n)]
          /\ readBuf' = [readBuf EXCEPT ![e] = SubSeq(@, n + 1, Len(@))]
    /\ UNCHANGED <<hsVars, frame, walPos, sent>>

(* PGConn.Close, by the multiplexer at either end, for any reason. *)
Close(e) ==
    /\ Live(e)
    /\ shut' = shut \cup {e}
    /\ UNCHANGED <<kind, pc, net, todo, cut, expired, connVars>>

Handshake ==
    /\ \/ ClientStart \/ ClientReads \/ Probe \/ ServerReads \/ ServerWrites \/ Lose
       \/ \E e \in Ends : Deadline(e) \/ IOFails(e)
    /\ UNCHANGED connVars

Next ==
    \/ Handshake
    \/ \E e \in Ends :
          \/ \E c \in Chunks : WriteBuild(e, c)
          \/ WriteSend(e) \/ Keepalive(e) \/ ReadFrame(e) \/ ReadPiece(e) \/ Close(e)

Spec == Init /\ [][Next]_vars

(* Both programs take their steps.  The deadline is counted on only        *)
(* against a client that is not ours: between our two ends nothing may     *)
(* have to wait for it.                                                    *)
Fairness ==
    /\ WF_vars((ClientStart \/ ClientReads) /\ UNCHANGED connVars)
    /\ WF_vars((ServerReads \/ ServerWrites) /\ UNCHANGED connVars)
    /\ \A e \in Ends : WF_vars(IOFails(e) /\ UNCHANGED connVars)
    /\ WF_vars(kind = "probe" /\ Deadline("s") /\ UNCHANGED connVars)
    /\ \A e \in Ends : WF_vars(WriteSend(e)) /\ WF_vars(ReadFrame(e)) /\ WF_vars(ReadPiece(e))

FairSpec == Spec /\ Fairness

---------------------------------------------------------------------------
(* Properties *)

(* Neither end opens unless the client is ours and has our key, and our    *)
(* client not before the server: whatever the other side sends, in         *)
(* whatever order.                                                         *)
Agreement ==
    /\ pc["s"] = "open" => kind = "tunnel"
    /\ pc["c"] = "open" => pc["s"] = "open"

(* What is read at one end is what was written at the other, in order and  *)
(* complete up to there: keepalives, the framing and the handshake's own   *)
(* messages never get into it nor take anything out of it, whatever the    *)
(* data looks like, provided the multiplexer's version comes first.        *)
StreamIntact == \A e \in Ends : IsPrefix(rcvd[e] \o readBuf[e], sent[Other(e)])

(* On the wire every message starts at the WAL position at which the one   *)
(* before it ended, and the last ends where all that was written does: a   *)
(* keepalive never announces data not yet sent.  No message of the         *)
(* handshake follows one of data.                                          *)
WalInOrder ==
    \A e \in Ends :
        LET ms == net[e] \o frame[e]
        IN  /\ \A i \in 1..(Len(ms) - 1) : ms[i].tag = "copyData" =>
                  ms[i + 1].tag = "copyData" /\ ms[i].to = ms[i + 1].from
            /\ ms # <<>> /\ Last(ms).tag = "copyData" /\ e \notin shut =>
                  Last(ms).to = Len(sent[e])

(* A handshake ends at both ends, and between our two ends without the     *)
(* help of the deadline: they never wait for each other.  With the right   *)
(* key it ends with both open, unless the connection is lost, a deadline   *)
(* passes or the server closes what it has opened.                         *)
HandshakeEnds ==
    /\ <>((ours => ~Opening("c")) /\ ~Opening("s"))
    /\ kind = "tunnel" =>
           <>(pc["c"] = "open" \/ cut \/ expired \/ (pc["s"] = "open" /\ "s" \in shut))

(* What is written at one end is read at the other in the end, unless an   *)
(* end closes or the connection is lost: keepalives and empty messages do  *)
(* not hold it up.                                                         *)
Delivered ==
    \A e \in Ends : []<>(Len(rcvd[Other(e)]) = Len(sent[e]) \/ shut # {} \/ cut)
=============================================================================
