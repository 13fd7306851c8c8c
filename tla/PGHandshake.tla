---------------------------- MODULE PGHandshake ----------------------------
(***************************************************************************)
(* The opening of a connection disguised as PostgreSQL replication         *)
(* (internal/transport/pgproto/handshake.go, wire.go): ClientHandshake and *)
(* ServerHandshake over one TCP connection, and PostgreSQL clients that    *)
(* are not ours.                                                           *)
(*                                                                         *)
(* A message is its kind; what a kind carries is in the kind where a       *)
(* handler looks at it.  TLS is one message each way.                      *)
(***************************************************************************)
EXTENDS Sequences, SequencesExt

CONSTANTS Kinds     \* who connects: "tunnel" (our client), "badpsk" (our
                    \* client with another key), "probe" (any other)

ASSUME KindsAssumption == Kinds \subseteq {"tunnel", "badpsk", "probe"}

VARIABLES
    kind,         \* who connects
    pc,           \* where each end, "c" and "s", is
    net,          \* net[e]: what end e has sent and the other has not read
    todo,         \* what the server has still to write before it reads on
    shut,         \* the ends that have closed the connection
    cut,          \* the network has lost the connection
    expired       \* one end's handshake deadline has passed

hsVars == <<kind, pc, net, todo, shut, cut, expired>>

Ends == {"c", "s"}
Other(e) == IF e = "c" THEN "s" ELSE "c"
Msg(t) == [tag |-> t]

HandshakeInit ==
    /\ kind \in Kinds
    /\ pc = [e \in Ends |-> IF e = "c" THEN "start" ELSE "startup"]
    /\ net = [e \in Ends |-> <<>>]
    /\ todo = <<>>
    /\ shut = {} /\ cut = FALSE /\ expired = FALSE

Opening(e) == pc[e] \notin {"open", "failed"}

Say(e, ts) == net' = [net EXCEPT ![e] = @ \o [j \in DOMAIN ts |-> Msg(ts[j])]]

(* e takes the next message, which satisfies P, and answers it. *)
Hears(e, P(_)) == net[Other(e)] # <<>> /\ P(Head(net[Other(e)]).tag)

Answers(e, to, ts) ==
    /\ pc' = [pc EXCEPT ![e] = to]
    /\ net' = [net EXCEPT ![Other(e)] = Tail(@), ![e] = @ \o [j \in DOMAIN ts |-> Msg(ts[j])]]

(* The handshake is given up and the connection closed. *)
GivesUp(e) == pc' = [pc EXCEPT ![e] = "failed"] /\ shut' = shut \cup {e}

---------------------------------------------------------------------------
(* ClientHandshake *)

ours == kind \in {"tunnel", "badpsk"}

ClientStart ==
    /\ ours /\ pc["c"] = "start"
    /\ Say("c", <<"ssl">>)
    /\ pc' = [pc EXCEPT !["c"] = "sslResponse"]
    /\ UNCHANGED <<kind, todo, shut, cut, expired>>

(* Per step of the client: the messages it goes on with, where to, and     *)
(* what it sends then.  After "ready" IDENTIFY_SYSTEM comes first, or not. *)
(* (The 'Y' that older servers sent for 'S' is taken too.)                 *)
ClientTable ==
    {[at |-> "sslResponse", hear |-> "S",           to |-> "tls",      say |-> <<"clientHello">>],
     [at |-> "tls",         hear |-> "serverHello", to |-> "md5",      say |-> <<"startupTunnel">>],
     [at |-> "md5",         hear |-> "authMD5",     to |-> "authOk",
      say |-> <<IF kind = "tunnel" THEN "passwordGood" ELSE "passwordBad">>],
     [at |-> "authOk",      hear |-> "authOk",      to |-> "postAuth", say |-> <<>>],
     [at |-> "postAuth",    hear |-> "ready",       to |-> "identify", say |-> <<"IDENTIFY_SYSTEM">>],
     [at |-> "postAuth",    hear |-> "ready",       to |-> "copyBoth", say |-> <<"START_REPLICATION">>],
     [at |-> "identify",    hear |-> "ready",       to |-> "copyBoth", say |-> <<"START_REPLICATION">>],
     [at |-> "copyBoth",    hear |-> "copyBoth",    to |-> "open",     say |-> <<>>]}

(* Before "ready" everything else is discarded, but an error in answer to  *)
(* IDENTIFY_SYSTEM.                                                        *)
Discarded(t) ==
    \/ pc["c"] = "postAuth" /\ t # "ready"
    \/ pc["c"] = "identify" /\ t \notin {"ready", "error"}

ClientReads ==
    /\ ours
    /\ \/ \E r \in ClientTable :
              /\ pc["c"] = r.at /\ Hears("c", LAMBDA t : t = r.hear)
              /\ Answers("c", r.to, r.say)
              /\ UNCHANGED shut
       \/ /\ Hears("c", Discarded)
          /\ Answers("c", pc["c"], <<>>)
          /\ UNCHANGED shut
       \/ /\ Opening("c") /\ pc["c"] # "start"
          /\ Hears("c", LAMBDA t : ~Discarded(t)
                                   /\ ~\E r \in ClientTable : r.at = pc["c"] /\ r.hear = t)
          /\ GivesUp("c")
          /\ UNCHANGED net
    /\ UNCHANGED <<kind, todo, cut, expired>>

---------------------------------------------------------------------------
(* A client that is not ours sends what it likes, and reads everything. *)

ProbeSays == {"ssl", "gss", "cancel", "clientHello", "startupOther", "startupTunnel", "oldProtocol",
              "passwordBad", "IDENTIFY_SYSTEM", "START_REPLICATION", "select"}

(* Bound: what is under way to and from it when it sends again. *)
MaxProbe == 1

Probe ==
    /\ kind = "probe" /\ "c" \notin shut /\ Opening("c")
    /\ \/ /\ \A e \in Ends : Len(net[e]) < MaxProbe
          /\ \E t \in ProbeSays : Say("c", <<t>>)
          /\ UNCHANGED <<pc, shut>>
       \/ net["s"] # <<>> /\ net' = [net EXCEPT !["s"] = Tail(@)] /\ UNCHANGED <<pc, shut>>
       \/ GivesUp("c") /\ UNCHANGED net
    /\ UNCHANGED <<kind, todo, cut, expired>>

---------------------------------------------------------------------------
(* ServerHandshake *)

(* After the password: AuthenticationOk, the parameters, the key data. *)
AuthBurst == <<"authOk", "param", "keyData", "ready">>
IdentifyResponse == <<"rowDescription", "dataRow", "commandComplete", "ready">>
TimelineResponse == <<"rowDescription", "commandComplete", "ready">>

(* Per step of the server: what it goes on with, where to, what it writes. *)
(* Whoever asks, the answer to a startup message is the challenge.         *)
Row(at, hear, to, say) == [at |-> at, hear |-> hear, to |-> to, say |-> say]

BaseTable ==
    {Row("startup",  "ssl",               "tls",           <<"S">>),
     Row("tls",      "clientHello",       "startup",       <<"serverHello">>),
     Row("startup",  "gss",               "startup",       <<"N">>),
     Row("startup",  "startupTunnel",     "password",      <<"authMD5">>),
     Row("startup",  "startupOther",      "passwordOther", <<"authMD5">>),
     Row("password", "passwordGood",      "query",         AuthBurst),
     Row("query",    "TIMELINE_HISTORY",  "query",         TimelineResponse),
     Row("query",    "START_REPLICATION", "starting",      <<"copyBoth">>)}

(* Mutant: the hash of the password is not compared. *)
ServerTableNoPassword ==
    BaseTable \cup {Row("query", "IDENTIFY_SYSTEM", "query", IdentifyResponse),
                    Row("password", "passwordBad", "query", AuthBurst)}

(* Mutant: the answer to IDENTIFY_SYSTEM is not ended by ReadyForQuery. *)
ServerTableNoReady ==
    BaseTable \cup {Row("query", "IDENTIFY_SYSTEM", "query", Front(IdentifyResponse))}

ServerTable ==
    BaseTable \cup {Row("query", "IDENTIFY_SYSTEM", "query", IdentifyResponse)}

(* Anything else ends it: without a word (a cancel request, broken TLS),   *)
(* or with the error a PostgreSQL server would send.                       *)
Errors(t) == IF t = "cancel" \/ pc["s"] = "tls" THEN <<>> ELSE <<"error">>

ServerReads ==
    /\ Opening("s") /\ pc["s"] # "starting" /\ todo = <<>>
    /\ \/ \E r \in ServerTable :
              /\ pc["s"] = r.at /\ Hears("s", LAMBDA t : t = r.hear)
              /\ Answers("s", r.to, <<>>)
              /\ todo' = r.say
              /\ UNCHANGED shut
       \/ /\ Hears("s", LAMBDA t : ~\E r \in ServerTable : r.at = pc["s"] /\ r.hear = t)
          /\ GivesUp("s")
          /\ Say("s", Errors(Head(net["c"]).tag))
          /\ UNCHANGED todo
    /\ UNCHANGED <<kind, cut, expired>>

(* The answer is written message by message; after the last the server     *)
(* reads on, or, after CopyBothResponse, is open.                          *)
ServerWrites ==
    /\ Opening("s") /\ todo # <<>>
    /\ Say("s", <<Head(todo)>>)
    /\ todo' = Tail(todo)
    /\ pc' = [pc EXCEPT !["s"] = IF @ = "starting" THEN "open" ELSE @]
    /\ UNCHANGED <<kind, shut, cut, expired>>

---------------------------------------------------------------------------
(* Failures *)

(* The deadline of the handshake, 10 s for all of it. *)
Deadline(e) ==
    /\ Opening(e) /\ (e = "c" => ours)
    /\ GivesUp(e)
    /\ expired' = TRUE
    /\ UNCHANGED <<kind, net, todo, cut>>

(* A read or a write fails, because the other end has closed, with or      *)
(* without what it sent having arrived, or because the connection is lost. *)
IOFails(e) ==
    /\ Opening(e) /\ (e = "c" => ours)
    /\ Other(e) \in shut \/ cut
    /\ GivesUp(e)
    /\ UNCHANGED <<kind, net, todo, cut, expired>>

Lose ==
    /\ ~cut
    /\ cut' = TRUE
    /\ UNCHANGED <<kind, pc, net, todo, shut, expired>>
=============================================================================
