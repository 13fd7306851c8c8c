--------------------------- MODULE PGTunnelProofs ---------------------------
(***************************************************************************)
(* Proofs about PGTunnel: that no end opens without our key and our client *)
(* not before the server, that the messages of data are in the order of    *)
(* their WAL positions, and that what is read is what was written.         *)
(***************************************************************************)
EXTENDS PGTunnel, SequenceTheorems, TLAPS

(* The places and the messages of the two handshakes. *)
Places ==
    {"start", "sslResponse", "tls", "md5", "authOk", "postAuth", "identify", "copyBoth", "startup",
     "password", "passwordOther", "query", "starting", "open", "failed"}

Tags ==
    {"ssl", "gss", "cancel", "clientHello", "startupOther", "startupTunnel", "oldProtocol",
     "passwordGood", "passwordBad", "IDENTIFY_SYSTEM", "START_REPLICATION", "select", "S", "N",
     "serverHello", "authMD5", "authOk", "param", "keyData", "ready", "rowDescription", "dataRow",
     "commandComplete", "copyBoth", "error"}

(* What a message of data is made of: the multiplexer's units and those of *)
(* the framing.                                                            *)
Bytes == Units \cup {"w", "k", "r", "position"}

Spoken == [tag : Tags]
DataMsgs == [tag : {"copyData"}, from : Nat, to : Nat, p : Seq(Bytes)]
Messages == Spoken \cup DataMsgs

HandshakeTypes ==
    /\ kind \in Kinds
    /\ pc \in [Ends -> Places]
    /\ net \in [Ends -> Seq(Messages)]
    /\ todo \in Seq(Tags)
    /\ shut \subseteq Ends

ConnTypes ==
    /\ frame \in [Ends -> Seq(Messages)]
    /\ walPos \in [Ends -> Nat]
    /\ sent \in [Ends -> Seq(Bytes)]
    /\ readBuf \in [Ends -> Seq(Bytes)]
    /\ rcvd \in [Ends -> Seq(Bytes)]

Data(m) == m.tag = "copyData"
Says(e, t) == \E i \in 1..Len(net[e]) : net[e][i].tag = t

(* The server lets nobody past the password who does not have our key, and *)
(* nobody but our client says the password that shows it.                  *)
KeyShown ==
    /\ pc["s"] \in {"query", "starting", "open"} => kind = "tunnel"
    /\ Says("c", "passwordGood") => kind = "tunnel"

(* The server is open once CopyBothResponse is under way, and our client   *)
(* has asked for the replication before the server starts it.              *)
Asking == {"copyBoth", "open", "failed"}

OpenTogether ==
    /\ pc["c"] = "open" \/ Says("s", "copyBoth") => pc["s"] = "open"
    /\ \A i \in 1..Len(todo) : todo[i] = "copyBoth" => pc["s"] \in {"starting", "failed"}
    /\ pc["s"] = "starting" => Len(todo) = 1
    /\ kind # "probe" /\ Says("c", "START_REPLICATION") => pc["c"] \in Asking
    /\ pc["s"] \in {"starting", "open"} => pc["c"] \in Asking

(* Data is sent by an end that is open. *)
Quiet ==
    \A e \in Ends : pc[e] # "open" =>
        frame[e] = <<>> /\ \A i \in 1..Len(net[e]) : ~Data(net[e][i])

(* A message of data holds what was written from its first position to its *)
(* last.                                                                   *)
Carries(m, s) ==
    /\ m.from <= m.to /\ m.to <= Len(s)
    /\ Len(Content(m)) = m.to - m.from
    /\ \A i \in 1..(m.to - m.from) : Content(m)[i] = s[m.from + i]

(* From the first message of data on there is nothing else, and each       *)
(* starts where the one before it ends; the first starts at position n.    *)
Ordered(ms) ==
    \A i, j \in 1..Len(ms) : i < j /\ Data(ms[i]) =>
        Data(ms[j]) /\ (j = i + 1 => ms[i].to = ms[j].from)

Begins(ms, n) ==
    \A i \in 1..Len(ms) : Data(ms[i]) /\ (i = 1 \/ ~Data(ms[i - 1])) => ms[i].from = n

(* The data under way from position n on ends at position w. *)
Reaches(ms, n, w) ==
    IF ms # <<>> /\ Data(ms[Len(ms)]) THEN ms[Len(ms)].to = w ELSE n = w

(* Of what was written, s, the other end has taken t, a prefix, and ms is  *)
(* under way: what follows, in order, and all of it if nothing was lost.   *)
Flow(ms, s, t, whole) ==
    /\ Len(t) <= Len(s) /\ \A i \in 1..Len(t) : t[i] = s[i]
    /\ Ordered(ms) /\ Begins(ms, Len(t))
    /\ whole => Reaches(ms, Len(t), Len(s))
    /\ \A i \in 1..Len(ms) : Data(ms[i]) => Carries(ms[i], s)

(* The stream from e to the other end. *)
Wire(e) == net[e] \o frame[e]
Taken(e) == rcvd[e] \o readBuf[e]

Stream(e) ==
    /\ walPos[e] = Len(sent[e])
    /\ frame[e] = <<>> \/ \E m \in Messages : frame[e] = <<m>> /\ Data(m)
    /\ Flow(Wire(e), sent[e], Taken(Other(e)), e \notin shut)

---------------------------------------------------------------------------
(* Sequences *)

LEMMA TailOfConcat ==
    ASSUME NEW S, NEW s \in Seq(S), NEW t \in Seq(S), s # <<>>
    PROVE  Tail(s) \o t = Tail(s \o t) /\ s \o t # <<>> /\ Head(s \o t) = Head(s)
<1>1. /\ s \o t # <<>> /\ Head(s \o t) = Head(s)
      /\ Tail(s) \o t \in Seq(S) /\ Tail(s \o t) \in Seq(S)
      /\ Len(Tail(s) \o t) = Len(Tail(s \o t))
  OBVIOUS
<1>2. \A i \in 1..Len(Tail(s) \o t) : (Tail(s) \o t)[i] = Tail(s \o t)[i]
  OBVIOUS
<1> QED
  BY <1>1, <1>2, SeqEqual

(* Handing out the first n elements of b moves them, and loses none. *)
Splits(S, r, b, n) ==
    /\ r \o SubSeq(b, 1, n) \in Seq(S) /\ SubSeq(b, n + 1, Len(b)) \in Seq(S)
    /\ (r \o SubSeq(b, 1, n)) \o SubSeq(b, n + 1, Len(b)) = r \o b

LEMMA SplitConcat ==
    ASSUME NEW S, NEW r \in Seq(S), NEW b \in Seq(S), NEW n \in 1..Len(b)
    PROVE  Splits(S, r, b, n)
<1> DEFINE x == SubSeq(b, 1, n)  y == SubSeq(b, n + 1, Len(b))  t == r \o x
           w == t \o y  q == r \o b
<1>1. /\ x \in Seq(S) /\ Len(x) = n /\ \A i \in 1..n : x[i] = b[i]
  OBVIOUS
<1>2. y \in Seq(S) /\ Len(y) = Len(b) - n /\ \A i \in 1..(Len(b) - n) : y[i] = b[n + i]
  OBVIOUS
<1>3. n \in Nat /\ Len(r) \in Nat /\ Len(b) \in Nat /\ n <= Len(b)
  OBVIOUS
<1> HIDE DEF x, y
<1>4. /\ t \in Seq(S) /\ Len(t) = Len(r) + n /\ \A i \in 1..Len(r) : t[i] = r[i]
      /\ \A i \in 1..n : t[Len(r) + i] = b[i]
  BY <1>1, <1>3
<1> HIDE DEF t
<1>5. /\ w \in Seq(S) /\ Len(w) = Len(t) + Len(y) /\ \A i \in 1..Len(t) : w[i] = t[i]
      /\ \A i \in 1..Len(y) : w[Len(t) + i] = y[i]
  <2>1. t \in Seq(S) /\ y \in Seq(S)
    BY <1>2, <1>4
  <2> QED
    BY <2>1
<1>6. /\ q \in Seq(S) /\ Len(q) = Len(r) + Len(b) /\ \A i \in 1..Len(r) : q[i] = r[i]
      /\ \A i \in 1..Len(b) : q[Len(r) + i] = b[i]
  OBVIOUS
<1> HIDE DEF w, q
<1>7. Len(w) = Len(q)
  BY <1>2, <1>3, <1>4, <1>5, <1>6
<1>8. ASSUME NEW i \in 1..Len(q) PROVE w[i] = q[i]
  <2>1. CASE i <= Len(r)
    BY <1>3, <1>4, <1>5, <1>6, <2>1
  <2>2. CASE i > Len(r) /\ i <= Len(t)
    <3> DEFINE j == i - Len(r)
    <3>1. j \in 1..n /\ j \in 1..Len(b) /\ i = Len(r) + j /\ i \in 1..Len(t)
      BY <1>3, <1>4, <2>2
    <3> HIDE DEF j
    <3> QED
      BY <1>4, <1>5, <1>6, <3>1
  <2>3. CASE i > Len(t)
    <3> DEFINE j == i - Len(t)
    <3>1. /\ j \in 1..Len(y) /\ j \in 1..(Len(b) - n) /\ i = Len(t) + j /\ n + j \in 1..Len(b)
          /\ i = Len(r) + (n + j)
      BY <1>2, <1>3, <1>4, <1>6, <2>3
    <3> HIDE DEF j
    <3>2. w[i] = y[j] /\ y[j] = b[n + j]
      BY <1>2, <1>5, <3>1
    <3>3. q[i] = b[n + j]
      BY <1>6, <3>1
    <3> QED
      BY <3>2, <3>3
  <2> QED
    BY <1>3, <1>4, <2>1, <2>2, <2>3
<1>9. w = q
  BY <1>5, <1>6, <1>7, <1>8, SeqEqual
<1> QED
  BY <1>2, <1>4, <1>9 DEF w, q, t, x, y, Splits

(* Elementwise, what IsPrefix says. *)
LEMMA PrefixByElements ==
    ASSUME NEW S, NEW s \in Seq(S), NEW t \in Seq(S), Len(s) <= Len(t),
           \A i \in 1..Len(s) : s[i] = t[i]
    PROVE  IsPrefix(s, t)
<1>1. /\ SubSeq(s, 1, Len(s)) \in Seq(S) /\ SubSeq(t, 1, Len(s)) \in Seq(S)
      /\ Len(SubSeq(s, 1, Len(s))) = Len(s) /\ Len(SubSeq(t, 1, Len(s))) = Len(s)
      /\ \A i \in 1..Len(s) : SubSeq(s, 1, Len(s))[i] = SubSeq(t, 1, Len(s))[i]
  OBVIOUS
<1>2. SubSeq(s, 1, Len(s)) = SubSeq(t, 1, Len(s))
  BY <1>1, SeqEqual
<1> QED
  BY <1>2 DEF IsPrefix

(* What Say and Answers put on the wire. *)
Words(ts) == [j \in DOMAIN ts |-> Msg(ts[j])]

LEMMA WordsSpoken ==
    ASSUME NEW ts \in Seq(Tags)
    PROVE  /\ Words(ts) \in Seq(Messages) /\ Len(Words(ts)) = Len(ts)
           /\ \A j \in 1..Len(ts) : Words(ts)[j].tag = ts[j] /\ ~Data(Words(ts)[j])
<1>1. DOMAIN ts = 1..Len(ts) /\ Len(ts) \in Nat
  OBVIOUS
<1>2. \A j \in 1..Len(ts) : Words(ts)[j] = Msg(ts[j])
  BY <1>1 DEF Words
<1>3. \A j \in 1..Len(ts) : Msg(ts[j]) \in Messages /\ Msg(ts[j]).tag = ts[j] /\ ~Data(Msg(ts[j]))
  BY DEF Msg, Messages, Spoken, Data, Tags
<1>4. Words(ts) \in [1..Len(ts) -> Messages]
  BY <1>1, <1>3 DEF Words
<1>5. Words(ts) \in Seq(Messages)
  BY <1>1, <1>4, SeqDef
<1>6. Len(Words(ts)) = Len(ts)
  BY <1>1, <1>4, <1>5, LenProperties DEF Words
<1> QED
  BY <1>2, <1>3, <1>5, <1>6

LEMMA DataTyped ==
    ASSUME NEW m \in Messages, Data(m)
    PROVE  m.from \in Nat /\ m.to \in Nat /\ m.p \in Seq(Bytes)
<1>1. m \in DataMsgs
  BY DEF Messages, Spoken, Tags, Data
<1> QED
  BY <1>1 DEF DataMsgs

(* The head of the wire is read: what it carries is what comes next. *)
LEMMA HeadRead ==
    ASSUME NEW ms \in Seq(Messages), ms # <<>>, NEW n \in Nat, Ordered(ms), Begins(ms, n),
           NEW k \in Nat, ~Data(Head(ms)) => k = n, Data(Head(ms)) => k = Head(ms).to
    PROVE  /\ Ordered(Tail(ms)) /\ Begins(Tail(ms), k)
           /\ \A w : Reaches(ms, n, w) => Reaches(Tail(ms), k, w)
           /\ Data(Head(ms)) => Head(ms).from = n
<1> DEFINE t == Tail(ms)
<1>1. /\ t \in Seq(Messages) /\ Len(ms) \in Nat /\ Len(ms) > 0 /\ Len(t) = Len(ms) - 1
      /\ Head(ms) = ms[1] /\ \A i \in 1..Len(t) : t[i] = ms[i + 1]
  OBVIOUS
<1> HIDE DEF t
<1>2. Ordered(t)
  <2> SUFFICES ASSUME NEW i \in 1..Len(t), NEW j \in 1..Len(t), i < j, Data(t[i])
               PROVE  Data(t[j]) /\ (j = i + 1 => t[i].to = t[j].from)
    BY DEF Ordered
  <2>1. /\ i + 1 \in 1..Len(ms) /\ j + 1 \in 1..Len(ms) /\ i + 1 < j + 1
        /\ t[i] = ms[i + 1] /\ t[j] = ms[j + 1]
    BY <1>1
  <2> QED
    BY <2>1 DEF Ordered
<1>3. Data(ms[1]) => ms[1].from = n
  BY <1>1 DEF Begins
<1>4. Begins(t, k)
  <2> SUFFICES ASSUME NEW i \in 1..Len(t), Data(t[i]), i = 1 \/ ~Data(t[i - 1])
               PROVE  t[i].from = k
    BY DEF Begins
  <2>1. i + 1 \in 1..Len(ms) /\ t[i] = ms[i + 1] /\ (i # 1 => t[i - 1] = ms[i])
    BY <1>1
  <2>2. CASE i = 1
    BY <1>1, <2>1, <2>2 DEF Begins, Ordered
  <2>3. CASE i # 1
    <3>1. ~Data(ms[i]) /\ i \in 1..Len(ms) /\ 1 < i
      BY <2>1, <2>3
    <3>2. ~Data(ms[1])
      BY <1>1, <3>1 DEF Ordered
    <3>3. ms[i + 1].from = n
      BY <2>1, <3>1 DEF Begins
    <3> QED
      BY <1>1, <2>1, <3>2, <3>3
  <2> QED
    BY <2>2, <2>3
<1>5. ASSUME NEW w, Reaches(ms, n, w) PROVE Reaches(t, k, w)
  <2>1. CASE Len(ms) = 1
    <3>1. t = <<>>
      BY <1>1, <2>1
    <3> QED
      BY <1>1, <1>5, <2>1, <3>1 DEF Reaches
  <2>2. CASE Len(ms) # 1
    <3>1. t # <<>> /\ t[Len(t)] = ms[Len(ms)]
      BY <1>1, <2>2
    <3>2. Data(ms[1]) => Data(ms[Len(ms)])
      BY <1>1, <2>2 DEF Ordered
    <3> QED
      BY <1>1, <1>5, <3>1, <3>2 DEF Reaches
  <2> QED
    BY <2>1, <2>2
<1> QED
  BY <1>1, <1>2, <1>3, <1>4, <1>5 DEF t

(* A message of data that starts where the data before it ends is added. *)
LEMMA DataAdded ==
    ASSUME NEW ms \in Seq(Messages), NEW n \in Nat, Ordered(ms), Begins(ms, n),
           NEW m \in Messages, Data(m), Reaches(ms, n, m.from)
    PROVE  LET l == ms \o <<m>>
           IN  Ordered(l) /\ Begins(l, n) /\ Reaches(l, n, m.to)
<1> DEFINE l == ms \o <<m>>
<1>1. /\ l \in Seq(Messages) /\ Len(ms) \in Nat /\ Len(l) = Len(ms) + 1 /\ l # <<>>
      /\ l[Len(ms) + 1] = m /\ \A i \in 1..Len(ms) : l[i] = ms[i]
  OBVIOUS
<1> HIDE DEF l
<1>2. Ordered(l)
  <2> SUFFICES ASSUME NEW i \in 1..Len(l), NEW j \in 1..Len(l), i < j, Data(l[i])
               PROVE  Data(l[j]) /\ (j = i + 1 => l[i].to = l[j].from)
    BY DEF Ordered
  <2>1. i \in 1..Len(ms) /\ l[i] = ms[i]
    BY <1>1
  <2>2. CASE j = Len(ms) + 1
    BY <1>1, <2>1, <2>2 DEF Reaches
  <2>3. CASE j # Len(ms) + 1
    BY <1>1, <2>1, <2>3 DEF Ordered
  <2> QED
    BY <2>2, <2>3
<1>3. Begins(l, n)
  <2> SUFFICES ASSUME NEW i \in 1..Len(l), Data(l[i]), i = 1 \/ ~Data(l[i - 1])
               PROVE  l[i].from = n
    BY DEF Begins
  <2>1. CASE i = Len(ms) + 1
    <3>1. ms = <<>> \/ ~Data(ms[Len(ms)])
      BY <1>1, <2>1
    <3> QED
      BY <1>1, <2>1, <3>1 DEF Reaches
  <2>2. CASE i # Len(ms) + 1
    <3>1. i \in 1..Len(ms) /\ l[i] = ms[i] /\ (i # 1 => l[i - 1] = ms[i - 1])
      BY <1>1, <2>2
    <3> QED
      BY <3>1 DEF Begins
  <2> QED
    BY <2>1, <2>2
<1>4. Reaches(l, n, m.to)
  BY <1>1 DEF Reaches
<1> QED
  BY <1>2, <1>3, <1>4 DEF l

(* While there is no data, words change nothing. *)
LEMMA WithoutData ==
    ASSUME NEW ms \in Seq(Messages), \A i \in 1..Len(ms) : ~Data(ms[i]), NEW n
    PROVE  /\ Ordered(ms) /\ Begins(ms, n)
           /\ \A w : Reaches(ms, n, w) <=> n = w
<1>1. Len(ms) \in Nat /\ (ms # <<>> => Len(ms) \in 1..Len(ms))
  OBVIOUS
<1> QED
  BY <1>1 DEF Ordered, Begins, Reaches

(* What these mean for the stream: a message is read, ... *)
LEMMA FlowRead ==
    ASSUME NEW ms \in Seq(Messages), NEW s \in Seq(Bytes), NEW t \in Seq(Bytes), NEW whole,
           Flow(ms, s, t, whole), ms # <<>>,
           Content(Head(ms)) \in Seq(Bytes), ~Data(Head(ms)) => Content(Head(ms)) = <<>>
    PROVE  Flow(Tail(ms), s, t \o Content(Head(ms)), whole)
<1> DEFINE m == Head(ms)  c == Content(m)  u == t \o c
<1>1. /\ m \in Messages /\ m = ms[1] /\ 1 \in 1..Len(ms) /\ Tail(ms) \in Seq(Messages)
      /\ \A i \in 1..Len(Tail(ms)) : i + 1 \in 1..Len(ms) /\ Tail(ms)[i] = ms[i + 1]
  OBVIOUS
<1>2. /\ u \in Seq(Bytes) /\ Len(u) = Len(t) + Len(c) /\ Len(u) \in Nat
      /\ Len(t) \in Nat /\ Len(c) \in Nat /\ Len(s) \in Nat
      /\ \A i \in 1..Len(t) : u[i] = t[i]
      /\ \A i \in 1..Len(u) : i > Len(t) => u[i] = c[i - Len(t)] /\ i - Len(t) \in 1..Len(c)
  OBVIOUS
<1> HIDE DEF u, c, m
<1>3. ~Data(m) => c = <<>> /\ Len(c) = 0
  BY DEF c, m
<1>4. Data(m) => m.from \in Nat /\ m.to \in Nat /\ m.from = Len(t) /\ Carries(m, s)
  BY <1>1, DataTyped DEF Flow, Begins
<1>5. ASSUME Data(m) PROVE Len(c) = m.to - m.from /\ Len(u) = m.to
  <2>1. Len(c) = m.to - m.from
    BY <1>4, <1>5 DEF Carries, c
  <2> QED
    BY <1>2, <1>4, <1>5, <2>1
<1>6. /\ Ordered(Tail(ms)) /\ Begins(Tail(ms), Len(u))
      /\ \A w : Reaches(ms, Len(t), w) => Reaches(Tail(ms), Len(u), w)
  <2>1. (~Data(Head(ms)) => Len(u) = Len(t)) /\ (Data(Head(ms)) => Len(u) = Head(ms).to)
    BY <1>2, <1>3, <1>5 DEF m
  <2> QED
    BY <1>2, <2>1, HeadRead DEF Flow
<1>7. Len(u) <= Len(s)
  BY <1>2, <1>3, <1>4, <1>5 DEF Flow, Carries
<1>8. ASSUME NEW i \in 1..Len(u) PROVE u[i] = s[i]
  <2>1. CASE i <= Len(t)
    BY <1>2, <2>1 DEF Flow
  <2>2. CASE i > Len(t)
    <3>1. u[i] = c[i - Len(t)] /\ i - Len(t) \in 1..Len(c)
      BY <1>2, <2>2
    <3>2. Data(m)
      BY <1>3, <3>1
    <3>3. c[i - Len(t)] = s[m.from + (i - Len(t))]
      BY <1>4, <1>5, <3>1, <3>2 DEF Carries, c
    <3>4. m.from + (i - Len(t)) = i
      BY <1>2, <1>4, <3>2
    <3> QED
      BY <3>1, <3>3, <3>4
  <2> QED
    BY <1>2, <2>1, <2>2
<1>9. \A i \in 1..Len(Tail(ms)) : Data(Tail(ms)[i]) => Carries(Tail(ms)[i], s)
  BY <1>1 DEF Flow
<1> QED
  BY <1>6, <1>7, <1>8, <1>9 DEF Flow, u, c, m

(* The place of a unit of a message is a place in the stream. *)
LEMMA Within ==
    ASSUME NEW f \in Nat, NEW u \in Nat, NEW n \in Nat, u <= n, NEW q \in 1..(u - f)
    PROVE  f + q \in 1..n
  OBVIOUS

(* ... a message is written that carries what is added, ... *)
LEMMA FlowWritten ==
    ASSUME NEW ms \in Seq(Messages), NEW s \in Seq(Bytes), NEW t \in Seq(Bytes),
           Flow(ms, s, t, TRUE),
           NEW c \in Seq(Bytes), NEW m \in Messages, Data(m), m.from = Len(s),
           Carries(m, s \o c), m.to = Len(s) + Len(c)
    PROVE  Flow(ms \o <<m>>, s \o c, t, TRUE)
<1> DEFINE l == ms \o <<m>>  v == s \o c
<1>1. /\ Len(s) \in Nat /\ Len(t) \in Nat /\ Len(v) = Len(s) + Len(c) /\ Len(c) \in Nat
      /\ \A i \in 1..Len(s) : v[i] = s[i]
  OBVIOUS
<1>2. Ordered(l) /\ Begins(l, Len(t)) /\ Reaches(l, Len(t), m.to)
  BY <1>1, DataAdded DEF Flow
<1>3. /\ Len(ms) \in Nat /\ Len(l) = Len(ms) + 1 /\ l[Len(ms) + 1] = m
      /\ \A i \in 1..Len(ms) : l[i] = ms[i]
  OBVIOUS
<1>4. Carries(m, v)
  OBVIOUS
<1> HIDE DEF l, v
<1>5. ASSUME NEW i \in 1..Len(l), Data(l[i]) PROVE Carries(l[i], v)
  <2>1. CASE i = Len(ms) + 1
    BY <1>3, <1>4, <2>1
  <2>2. CASE i # Len(ms) + 1
    <3>1. i \in 1..Len(ms) /\ l[i] = ms[i] /\ ms[i] \in Messages
      BY <1>3, <2>2
    <3>2. ms[i].from \in Nat /\ ms[i].to \in Nat /\ Carries(ms[i], s)
      BY <1>5, <3>1, DataTyped DEF Flow
    <3>3. \A k \in 1..(ms[i].to - ms[i].from) : v[ms[i].from + k] = s[ms[i].from + k]
      <4> SUFFICES ASSUME NEW k \in 1..(ms[i].to - ms[i].from)
                   PROVE  ms[i].from + k \in 1..Len(s)
        BY <1>1
      <4>1. ms[i].to <= Len(s)
        BY <3>2 DEF Carries
      <4> QED
        BY <1>1, <3>2, <4>1, Within
    <3>4. ms[i].to <= Len(v)
      BY <1>1, <3>2 DEF Carries
    <3> QED
      BY <3>1, <3>2, <3>3, <3>4 DEF Carries
  <2> QED
    BY <2>1, <2>2
<1>6. Len(t) <= Len(v) /\ \A i \in 1..Len(t) : t[i] = v[i]
  <2>1. Len(t) <= Len(s) /\ \A i \in 1..Len(t) : t[i] = s[i]
    BY DEF Flow
  <2>2. Len(t) <= Len(v) /\ \A i \in 1..Len(t) : i \in 1..Len(s)
    BY <1>1, <2>1
  <2> QED
    BY <1>1, <2>1, <2>2
<1> QED
  BY <1>1, <1>2, <1>5, <1>6 DEF Flow, l, v

(* ... the last one is lost, and only words are said. *)
LEMMA FlowLost ==
    ASSUME NEW ms \in Seq(Messages), NEW m \in Messages, NEW s \in Seq(Bytes), NEW t, NEW whole,
           Flow(ms \o <<m>>, s, t, whole)
    PROVE  Flow(ms, s, t, FALSE)
<1> DEFINE l == ms \o <<m>>
<1>1. /\ Len(ms) \in Nat /\ Len(l) = Len(ms) + 1 /\ \A i \in 1..Len(ms) : l[i] = ms[i]
  OBVIOUS
<1> HIDE DEF l
<1>2. Ordered(ms)
  <2> SUFFICES ASSUME NEW i \in 1..Len(ms), NEW j \in 1..Len(ms), i < j, Data(ms[i])
               PROVE  Data(ms[j]) /\ (j = i + 1 => ms[i].to = ms[j].from)
    BY DEF Ordered
  <2>1. i \in 1..Len(l) /\ j \in 1..Len(l) /\ l[i] = ms[i] /\ l[j] = ms[j]
    BY <1>1
  <2>2. Ordered(l)
    BY DEF Flow, l
  <2> QED
    BY <2>1, <2>2 DEF Ordered
<1>3. Begins(ms, Len(t))
  <2> SUFFICES ASSUME NEW i \in 1..Len(ms), Data(ms[i]), i = 1 \/ ~Data(ms[i - 1])
               PROVE  ms[i].from = Len(t)
    BY DEF Begins
  <2>1. Begins(l, Len(t))
    BY DEF Flow, l
  <2>2. i \in 1..Len(l) /\ l[i] = ms[i]
    BY <1>1
  <2>3. i = 1 \/ l[i - 1] = ms[i - 1]
    BY <1>1
  <2> QED
    BY <2>1, <2>2, <2>3 DEF Begins
<1>4. \A i \in 1..Len(ms) : Data(ms[i]) => Carries(ms[i], s)
  <2>1. \A i \in 1..Len(l) : Data(l[i]) => Carries(l[i], s)
    BY DEF Flow, l
  <2>2. \A i \in 1..Len(ms) : i \in 1..Len(l) /\ l[i] = ms[i]
    BY <1>1
  <2> QED
    BY <2>1, <2>2
<1> QED
  BY <1>2, <1>3, <1>4 DEF Flow

LEMMA FlowWords ==
    ASSUME NEW ms \in Seq(Messages), NEW l \in Seq(Messages), NEW s, NEW t, NEW whole,
           \A i \in 1..Len(ms) : ~Data(ms[i]), \A i \in 1..Len(l) : ~Data(l[i]),
           Flow(ms, s, t, whole)
    PROVE  Flow(l, s, t, whole)
<1>1. /\ Ordered(l) /\ Begins(l, Len(t))
      /\ \A w : Reaches(ms, Len(t), w) <=> Reaches(l, Len(t), w)
  BY WithoutData
<1> QED
  BY <1>1 DEF Flow

---------------------------------------------------------------------------
(* The tables of the two handshakes *)

SoundServerRow(r) ==
    /\ r.at \in Places /\ r.to \in Places \ {"open", "failed"} /\ r.say \in Seq(Tags)
    /\ r.hear # "copyData"
    /\ r.to \in {"query", "starting"} => r.at = "query" \/ r.hear = "passwordGood"
    /\ r.to = "starting" => r.at = "query" /\ r.hear = "START_REPLICATION" /\ Len(r.say) = 1
    /\ \A i \in 1..Len(r.say) : r.say[i] = "copyBoth" => r.to = "starting"

(* The server goes past the password only with the good one, and answers   *)
(* CopyBothResponse only to START_REPLICATION.                             *)
LEMMA ServerRows == \A r \in ServerTable : SoundServerRow(r)
<1> USE DEF SoundServerRow, Row, Places, Tags
<1>1. SoundServerRow(Row("startup", "ssl", "tls", <<"S">>))
  OBVIOUS
<1>2. SoundServerRow(Row("tls", "clientHello", "startup", <<"serverHello">>))
  OBVIOUS
<1>3. SoundServerRow(Row("startup", "gss", "startup", <<"N">>))
  OBVIOUS
<1>4. SoundServerRow(Row("startup", "startupTunnel", "password", <<"authMD5">>))
  OBVIOUS
<1>5. SoundServerRow(Row("startup", "startupOther", "passwordOther", <<"authMD5">>))
  OBVIOUS
<1>6. SoundServerRow(Row("password", "passwordGood", "query", AuthBurst))
  BY DEF AuthBurst
<1>7. SoundServerRow(Row("query", "TIMELINE_HISTORY", "query", TimelineResponse))
  BY DEF TimelineResponse
<1>8. SoundServerRow(Row("query", "START_REPLICATION", "starting", <<"copyBoth">>))
  OBVIOUS
<1>9. SoundServerRow(Row("query", "IDENTIFY_SYSTEM", "query", IdentifyResponse))
  BY DEF IdentifyResponse
<1> HIDE DEF SoundServerRow, Row, Places, Tags
<1> QED
  BY <1>1, <1>2, <1>3, <1>4, <1>5, <1>6, <1>7, <1>8, <1>9, Zenon DEF ServerTable, BaseTable

SoundClientRow(r) ==
    /\ r.at \in Places \ {"start", "open", "failed"} /\ r.to \in Places \ {"failed"}
    /\ r.say \in Seq(Tags)
    /\ r.hear # "copyData"
    /\ r.to = "open" => r.hear = "copyBoth"
    /\ r.at \in Asking => r.to \in Asking
    /\ \A i \in 1..Len(r.say) : /\ r.say[i] = "passwordGood" => kind = "tunnel"
                                /\ r.say[i] = "START_REPLICATION" => r.to \in Asking

(* Our client is open only after CopyBothResponse, and shows the password  *)
(* only if it has the key.                                                 *)
LEMMA ClientRows == \A r \in ClientTable : SoundClientRow(r)
<1> DEFINE R(at, hear, to, say) == [at |-> at, hear |-> hear, to |-> to, say |-> say]
           key == IF kind = "tunnel" THEN "passwordGood" ELSE "passwordBad"
<1> USE DEF SoundClientRow, Places, Tags, Asking
<1>1. SoundClientRow(R("sslResponse", "S", "tls", <<"clientHello">>))
  OBVIOUS
<1>2. SoundClientRow(R("tls", "serverHello", "md5", <<"startupTunnel">>))
  OBVIOUS
<1>3. SoundClientRow(R("md5", "authMD5", "authOk", <<key>>))
  OBVIOUS
<1>4. SoundClientRow(R("authOk", "authOk", "postAuth", <<>>))
  OBVIOUS
<1>5. SoundClientRow(R("postAuth", "ready", "identify", <<"IDENTIFY_SYSTEM">>))
  OBVIOUS
<1>6. SoundClientRow(R("postAuth", "ready", "copyBoth", <<"START_REPLICATION">>))
  OBVIOUS
<1>7. SoundClientRow(R("identify", "ready", "copyBoth", <<"START_REPLICATION">>))
  OBVIOUS
<1>8. SoundClientRow(R("copyBoth", "copyBoth", "open", <<>>))
  OBVIOUS
<1> HIDE DEF SoundClientRow, Places, Tags, Asking
<1> QED
  BY <1>1, <1>2, <1>3, <1>4, <1>5, <1>6, <1>7, <1>8, Zenon DEF ClientTable

---------------------------------------------------------------------------
(* The handshake *)

(* What a step of the handshake may do to what is under way: a message     *)
(* that is not data is read, and words are said by an end that is not open *)
(* yet.                                                                    *)
Moves(e) ==
    /\ pc[e] = "open" => pc'[e] = "open"
    /\ \/ net'[e] = net[e]
       \/ net[e] # <<>> /\ ~Data(Head(net[e])) /\ net'[e] = Tail(net[e])
       \/ pc[e] # "open" /\ \E ts \in Seq(Tags) : net'[e] = net[e] \o Words(ts)

(* Where a message under way comes from. *)
LEMMA WordsAdded ==
    ASSUME NEW e, NEW ts \in Seq(Tags), net[e] \in Seq(Messages), net'[e] = net[e] \o Words(ts)
    PROVE  \A t : Says(e, t)' => Says(e, t) \/ \E i \in 1..Len(ts) : ts[i] = t
<1> SUFFICES ASSUME NEW t, Says(e, t)' PROVE Says(e, t) \/ \E i \in 1..Len(ts) : ts[i] = t
  OBVIOUS
<1>1. /\ Words(ts) \in Seq(Messages) /\ Len(Words(ts)) = Len(ts)
      /\ \A j \in 1..Len(ts) : Words(ts)[j].tag = ts[j]
  BY WordsSpoken
<1>2. PICK i \in 1..Len(net'[e]) : net'[e][i].tag = t
  BY DEF Says
<1>3. i \in 1..Len(net[e]) + Len(ts) /\ Len(net[e]) \in Nat /\ Len(ts) \in Nat
  BY <1>1
<1>4. CASE i <= Len(net[e])
  BY <1>1, <1>2, <1>3, <1>4 DEF Says
<1>5. CASE i > Len(net[e])
  <2>1. i - Len(net[e]) \in 1..Len(ts) /\ net'[e][i] = Words(ts)[i - Len(net[e])]
    BY <1>1, <1>3, <1>5
  <2> QED
    BY <1>1, <1>2, <2>1
<1>6. i <= Len(net[e]) \/ i > Len(net[e])
  BY <1>3
<1> QED
  BY <1>4, <1>5, <1>6, Zenon

(* One end reads a message and answers it. *)
LEMMA AnswerMoves ==
    ASSUME HandshakeTypes, NEW e \in Ends, NEW o \in Ends, o # e, NEW to \in Places,
           NEW ts \in Seq(Tags), net[o] # <<>>, Answers(e, to, ts)
    PROVE  /\ pc' \in [Ends -> Places] /\ net' \in [Ends -> Seq(Messages)]
           /\ pc'[e] = to /\ pc'[o] = pc[o]
           /\ net'[e] = net[e] \o Words(ts) /\ net'[o] = Tail(net[o])
           /\ \A t : Says(e, t)' => Says(e, t) \/ \E i \in 1..Len(ts) : ts[i] = t
           /\ \A t : Says(o, t)' => Says(o, t)
<1>1. o = Other(e) /\ \A x \in Ends : x = e \/ x = o
  BY DEF Ends, Other
<1>2. Words(ts) \in Seq(Messages) /\ Len(Words(ts)) = Len(ts)
      /\ \A j \in 1..Len(ts) : Words(ts)[j].tag = ts[j]
  BY WordsSpoken
<1>3. pc' = [pc EXCEPT ![e] = to] /\ net' = [net EXCEPT ![o] = Tail(@), ![e] = @ \o Words(ts)]
  BY <1>1 DEF Answers, Words
<1>4. /\ pc' \in [Ends -> Places] /\ pc'[e] = to /\ pc'[o] = pc[o]
      /\ net'[e] = net[e] \o Words(ts) /\ net'[o] = Tail(net[o])
  BY <1>1, <1>3 DEF HandshakeTypes
<1>5. net[e] \in Seq(Messages) /\ net[o] \in Seq(Messages) /\ net[o] # <<>>
  BY <1>1 DEF HandshakeTypes
<1>6. net[e] \o Words(ts) \in Seq(Messages) /\ Tail(net[o]) \in Seq(Messages)
  BY <1>2, <1>5
<1>7. net' \in [Ends -> Seq(Messages)]
  BY <1>1, <1>3, <1>6 DEF HandshakeTypes
<1>8. \A t : Says(e, t)' => Says(e, t) \/ \E i \in 1..Len(ts) : ts[i] = t
  BY <1>4, <1>5, WordsAdded
<1>9. ASSUME NEW t, Says(o, t)' PROVE Says(o, t)
  <2>1. PICK i \in 1..Len(net'[o]) : net'[o][i].tag = t
    BY <1>9 DEF Says
  <2>2. i + 1 \in 1..Len(net[o]) /\ net'[o][i] = net[o][i + 1]
    BY <1>4, <1>5
  <2> QED
    BY <2>1, <2>2 DEF Says
<1> QED
  BY <1>4, <1>7, <1>8, <1>9

(* One end says something unasked. *)
LEMMA SayMoves ==
    ASSUME HandshakeTypes, NEW e \in Ends, NEW o \in Ends, o # e, NEW ts \in Seq(Tags), Say(e, ts)
    PROVE  /\ net' \in [Ends -> Seq(Messages)]
           /\ net'[e] = net[e] \o Words(ts) /\ net'[o] = net[o]
           /\ \A t : Says(e, t)' => Says(e, t) \/ \E i \in 1..Len(ts) : ts[i] = t
           /\ \A t : Says(o, t)' => Says(o, t)
<1>1. o = Other(e) /\ \A x \in Ends : x = e \/ x = o
  BY DEF Ends, Other
<1>2. Words(ts) \in Seq(Messages) /\ Len(Words(ts)) = Len(ts)
      /\ \A j \in 1..Len(ts) : Words(ts)[j].tag = ts[j]
  BY WordsSpoken
<1>3. net' = [net EXCEPT ![e] = @ \o Words(ts)]
  BY DEF Say, Words
<1>4. net[e] \in Seq(Messages) /\ net[e] \o Words(ts) \in Seq(Messages)
  BY <1>2 DEF HandshakeTypes
<1>5. /\ net'[e] = net[e] \o Words(ts) /\ net'[o] = net[o]
      /\ net' \in [Ends -> Seq(Messages)]
  BY <1>1, <1>3, <1>4 DEF HandshakeTypes
<1>6. \A t : Says(e, t)' => Says(e, t) \/ \E i \in 1..Len(ts) : ts[i] = t
  BY <1>4, <1>5, WordsAdded
<1>7. \A t : Says(o, t)' => Says(o, t)
  BY <1>5 DEF Says
<1> QED
  BY <1>5, <1>6, <1>7

Handshaken == HandshakeTypes /\ KeyShown /\ OpenTogether

(* Either end gives up, which it does only before it is open. *)
LEMMA GiveUpMoves ==
    ASSUME Handshaken, NEW x \in Ends, Opening(x), GivesUp(x), UNCHANGED <<kind, todo, net>>
    PROVE  Handshaken' /\ \A e \in Ends : Moves(e)
<1> USE DEF Handshaken
<1>1. /\ pc' \in [Ends -> Places] /\ pc'[x] = "failed" /\ pc[x] # "open"
      /\ \A e \in Ends \ {x} : pc'[e] = pc[e]
      /\ shut' \subseteq Ends
  BY DEF GivesUp, Opening, HandshakeTypes, Places
<1>2. KeyShown' /\ OpenTogether'
  BY <1>1 DEF KeyShown, OpenTogether, Says, Asking, Ends
<1> QED
  BY <1>1, <1>2 DEF HandshakeTypes, Moves

(* The steps of our client. *)
LEMMA ClientMoves ==
    ASSUME Handshaken, Quiet, ClientStart \/ ClientReads
    PROVE  Handshaken' /\ \A e \in Ends : Moves(e)
<1> USE DEF Handshaken
<1>1. /\ "c" \in Ends /\ "s" \in Ends /\ Other("c") = "s" /\ Other("s") = "c"
      /\ \A e \in Ends : e = "c" \/ e = "s"
  BY DEF Ends, Other
<1>2. CASE ClientStart
  <2>1. <<"ssl">> \in Seq(Tags)
    BY DEF Tags
  <2>2. /\ Say("c", <<"ssl">>) /\ pc["c"] = "start" /\ UNCHANGED <<kind, todo, shut>>
        /\ pc' = [pc EXCEPT !["c"] = "sslResponse"]
    BY <1>2 DEF ClientStart
  <2>3. pc' \in [Ends -> Places] /\ pc'["c"] = "sslResponse" /\ pc'["s"] = pc["s"]
    BY <1>1, <2>2 DEF HandshakeTypes, Places
  <2>4. /\ net' \in [Ends -> Seq(Messages)]
        /\ net'["c"] = net["c"] \o Words(<<"ssl">>) /\ net'["s"] = net["s"]
        /\ \A t : Says("c", t)' => Says("c", t) \/ \E i \in 1..Len(<<"ssl">>) : <<"ssl">>[i] = t
        /\ \A t : Says("s", t)' => Says("s", t)
    BY <1>1, <2>1, <2>2, SayMoves
  <2>5. \A t \in {"passwordGood", "START_REPLICATION"} : Says("c", t)' => Says("c", t)
    BY <2>4
  <2>6. KeyShown' /\ OpenTogether'
    BY <2>2, <2>3, <2>4, <2>5 DEF KeyShown, OpenTogether, Asking
  <2>7. HandshakeTypes'
    BY <1>1, <2>2, <2>3, <2>4 DEF HandshakeTypes
  <2>8. Moves("c")
    BY <2>1, <2>2, <2>4 DEF Moves
  <2>9. Moves("s")
    BY <2>3, <2>4 DEF Moves
  <2> QED
    BY <2>1, <2>2, <2>3, <2>4, <2>6, <2>7, <2>8, <2>9 DEF Ends
<1>3. CASE /\ ours /\ UNCHANGED <<kind, todo, shut>>
           /\ \E r \in ClientTable :
                 /\ pc["c"] = r.at /\ Hears("c", LAMBDA t : t = r.hear)
                 /\ Answers("c", r.to, r.say)
  <2>1. PICK r \in ClientTable : /\ pc["c"] = r.at /\ net["s"] # <<>> /\ Head(net["s"]).tag = r.hear
                                 /\ Answers("c", r.to, r.say)
    BY <1>1, <1>3 DEF Hears
  <2>2. SoundClientRow(r)
    BY ClientRows
  <2>3. r.to \in Places /\ r.say \in Seq(Tags) /\ r.at \notin {"open", "failed"} /\ r.to # "failed"
    BY <2>2 DEF SoundClientRow
  <2>4. /\ pc' \in [Ends -> Places] /\ net' \in [Ends -> Seq(Messages)]
        /\ pc'["c"] = r.to /\ pc'["s"] = pc["s"]
        /\ net'["c"] = net["c"] \o Words(r.say) /\ net'["s"] = Tail(net["s"])
        /\ \A t : Says("c", t)' => Says("c", t) \/ \E i \in 1..Len(r.say) : r.say[i] = t
        /\ \A t : Says("s", t)' => Says("s", t)
    BY <1>1, <2>1, <2>3, AnswerMoves
  <2>5. Says("s", r.hear) /\ ~Data(Head(net["s"]))
    <3>1. net["s"] \in Seq(Messages)
      BY <1>1 DEF HandshakeTypes
    <3>2. 1 \in 1..Len(net["s"]) /\ net["s"][1] = Head(net["s"])
      BY <2>1, <3>1
    <3> QED
      BY <2>1, <2>2, <3>2 DEF Says, Data, SoundClientRow
  <2>6. KeyShown'
    BY <1>3, <2>2, <2>4 DEF KeyShown, SoundClientRow
  <2>7. OpenTogether'
    BY <1>3, <2>1, <2>2, <2>4, <2>5 DEF OpenTogether, SoundClientRow
  <2> QED
    BY <1>1, <1>3, <2>1, <2>3, <2>4, <2>5, <2>6, <2>7 DEF HandshakeTypes, Moves
<1>4. CASE /\ ours /\ UNCHANGED <<kind, todo, shut>>
           /\ Hears("c", Discarded) /\ Answers("c", pc["c"], <<>>)
  <2>1. net["s"] # <<>> /\ pc["c"] \in {"postAuth", "identify"}
    BY <1>1, <1>4 DEF Hears, Discarded
  <2>2. pc["c"] \in Places /\ <<>> \in Seq(Tags)
    BY <1>1 DEF HandshakeTypes
  <2>3. /\ pc' \in [Ends -> Places] /\ net' \in [Ends -> Seq(Messages)]
        /\ pc'["c"] = pc["c"] /\ pc'["s"] = pc["s"]
        /\ net'["c"] = net["c"] \o Words(<<>>) /\ net'["s"] = Tail(net["s"])
        /\ \A t : Says("c", t)' => Says("c", t) \/ \E i \in 1..Len(<<>>) : <<>>[i] = t
        /\ \A t : Says("s", t)' => Says("s", t)
    BY <1>1, <1>4, <2>1, <2>2, AnswerMoves
  <2>4. \A t : Says("c", t)' => Says("c", t)
    BY <2>3
  <2>5. KeyShown' /\ OpenTogether'
    BY <1>4, <2>3, <2>4 DEF KeyShown, OpenTogether
  <2>6. ~Data(Head(net["s"]))
    <3>1. pc["s"] # "open"
      BY <2>1 DEF OpenTogether, Asking
    <3>2. net["s"] \in Seq(Messages)
      BY <1>1 DEF HandshakeTypes
    <3>3. 1 \in 1..Len(net["s"]) /\ net["s"][1] = Head(net["s"])
      BY <2>1, <3>2
    <3> QED
      BY <1>1, <3>1, <3>3 DEF Quiet
  <2> QED
    BY <1>1, <1>4, <2>1, <2>2, <2>3, <2>5, <2>6 DEF HandshakeTypes, Moves
<1>5. CASE ours /\ Opening("c") /\ GivesUp("c") /\ UNCHANGED <<kind, todo, net>>
  BY <1>1, <1>5, GiveUpMoves
<1> QED
  BY <1>2, <1>3, <1>4, <1>5 DEF ClientReads

(* Those of a client that is not ours. *)
LEMMA ProbeMoves ==
    ASSUME Handshaken, Quiet, Probe
    PROVE  Handshaken' /\ \A e \in Ends : Moves(e)
<1> USE DEF Handshaken
<1>1. "c" \in Ends /\ "s" \in Ends /\ \A e \in Ends : e = "c" \/ e = "s"
  BY DEF Ends
<1>2. kind = "probe" /\ Opening("c") /\ UNCHANGED <<kind, todo>>
  BY DEF Probe
<1>3. CASE /\ \E t \in ProbeSays : Say("c", <<t>>)
           /\ UNCHANGED <<pc, shut>>
  <2>1. PICK t \in ProbeSays : Say("c", <<t>>)
    BY <1>3
  <2>2. <<t>> \in Seq(Tags) /\ t # "passwordGood"
    BY DEF ProbeSays, Tags
  <2>3. /\ net' \in [Ends -> Seq(Messages)]
        /\ net'["c"] = net["c"] \o Words(<<t>>) /\ net'["s"] = net["s"]
        /\ \A u : Says("c", u)' => Says("c", u) \/ \E i \in 1..Len(<<t>>) : <<t>>[i] = u
        /\ \A u : Says("s", u)' => Says("s", u)
    BY <1>1, <2>1, <2>2, SayMoves
  <2>4. Says("c", "passwordGood")' => Says("c", "passwordGood")
    BY <2>2, <2>3
  <2>5. KeyShown' /\ OpenTogether'
    BY <1>2, <1>3, <2>3, <2>4 DEF KeyShown, OpenTogether
  <2> QED
    BY <1>1, <1>2, <1>3, <2>2, <2>3, <2>5 DEF HandshakeTypes, Moves, Opening
<1>4. CASE net["s"] # <<>> /\ net' = [net EXCEPT !["s"] = Tail(@)] /\ UNCHANGED <<pc, shut>>
  <2>1. net["s"] \in Seq(Messages) /\ Tail(net["s"]) \in Seq(Messages)
    <3>1. net["s"] \in Seq(Messages)
      BY <1>1 DEF HandshakeTypes
    <3> QED
      BY <1>4, <3>1
  <2>2. /\ net' \in [Ends -> Seq(Messages)]
        /\ net'["s"] = Tail(net["s"]) /\ net'["c"] = net["c"]
    BY <1>1, <1>4, <2>1 DEF HandshakeTypes
  <2>3. /\ 1 \in 1..Len(net["s"]) /\ net["s"][1] = Head(net["s"])
        /\ \A i \in 1..Len(net'["s"]) : i + 1 \in 1..Len(net["s"]) /\ net'["s"][i] = net["s"][i + 1]
    BY <1>4, <2>1, <2>2
  <2>4. \A t : (Says("s", t)' => Says("s", t)) /\ (Says("c", t)' => Says("c", t))
    BY <2>2, <2>3 DEF Says
  <2>5. KeyShown' /\ OpenTogether'
    BY <1>2, <1>4, <2>4 DEF KeyShown, OpenTogether
  <2>6. ~Data(Head(net["s"]))
    BY <1>1, <1>2, <2>3 DEF Quiet, KeyShown
  <2> QED
    BY <1>1, <1>2, <1>4, <2>2, <2>5, <2>6 DEF HandshakeTypes, Moves
<1>5. CASE GivesUp("c") /\ UNCHANGED net
  BY <1>1, <1>2, <1>5, GiveUpMoves
<1> QED
  BY <1>3, <1>4, <1>5 DEF Probe

LEMMA ErrorsOnly ==
    \A t : Errors(t) \in Seq(Tags) /\ \A i \in 1..Len(Errors(t)) : Errors(t)[i] = "error"
<1>1. <<>> \in Seq(Tags) /\ \A i \in 1..Len(<<>>) : <<>>[i] = "error"
  OBVIOUS
<1>2. <<"error">> \in Seq(Tags) /\ \A i \in 1..Len(<<"error">>) : <<"error">>[i] = "error"
  BY DEF Tags
<1> QED
  BY <1>1, <1>2, Zenon DEF Errors

(* Those of the server. *)
LEMMA ServerMoves ==
    ASSUME Handshaken, ServerReads \/ ServerWrites
    PROVE  Handshaken' /\ \A e \in Ends : Moves(e)
<1> USE DEF Handshaken
<1>1. /\ "c" \in Ends /\ "s" \in Ends /\ Other("s") = "c"
      /\ \A e \in Ends : e = "c" \/ e = "s"
  BY DEF Ends, Other
<1>2. pc["s"] # "open" /\ pc["s"] # "failed" /\ UNCHANGED kind
  BY DEF ServerReads, ServerWrites, Opening
<1>3. CASE /\ pc["s"] # "starting" /\ UNCHANGED shut
           /\ \E r \in ServerTable :
                 /\ pc["s"] = r.at /\ Hears("s", LAMBDA t : t = r.hear)
                 /\ Answers("s", r.to, <<>>) /\ todo' = r.say
  <2>1. PICK r \in ServerTable : /\ pc["s"] = r.at /\ net["c"] # <<>> /\ Head(net["c"]).tag = r.hear
                                 /\ Answers("s", r.to, <<>>) /\ todo' = r.say
    BY <1>1, <1>3 DEF Hears
  <2>2. SoundServerRow(r)
    BY ServerRows
  <2>3. r.to \in Places /\ r.to \notin {"open", "failed"} /\ r.say \in Seq(Tags) /\ <<>> \in Seq(Tags)
    BY <2>2 DEF SoundServerRow
  <2>4. /\ pc' \in [Ends -> Places] /\ net' \in [Ends -> Seq(Messages)]
        /\ pc'["s"] = r.to /\ pc'["c"] = pc["c"]
        /\ net'["s"] = net["s"] \o Words(<<>>) /\ net'["c"] = Tail(net["c"])
        /\ \A t : Says("s", t)' => Says("s", t) \/ \E i \in 1..Len(<<>>) : <<>>[i] = t
        /\ \A t : Says("c", t)' => Says("c", t)
    BY <1>1, <2>1, <2>3, AnswerMoves
  <2>5. \A t : Says("s", t)' => Says("s", t)
    BY <2>4
  <2>6. Says("c", r.hear) /\ ~Data(Head(net["c"]))
    <3>1. net["c"] \in Seq(Messages)
      BY <1>1 DEF HandshakeTypes
    <3>2. 1 \in 1..Len(net["c"]) /\ net["c"][1] = Head(net["c"])
      BY <2>1, <3>1
    <3> QED
      BY <2>1, <2>2, <3>2 DEF Says, Data, SoundServerRow
  <2>7. KeyShown'
    BY <1>2, <2>1, <2>2, <2>4, <2>6 DEF KeyShown, SoundServerRow
  <2>8. OpenTogether'
    BY <1>2, <2>1, <2>2, <2>4, <2>5, <2>6 DEF KeyShown, OpenTogether, SoundServerRow
  <2> QED
    BY <1>1, <1>2, <1>3, <2>1, <2>3, <2>4, <2>6, <2>7, <2>8 DEF HandshakeTypes, Moves
<1>4. CASE GivesUp("s") /\ Say("s", Errors(Head(net["c"]).tag)) /\ UNCHANGED todo
  <2> DEFINE ts == Errors(Head(net["c"]).tag)
  <2>1. ts \in Seq(Tags) /\ \A i \in 1..Len(ts) : ts[i] = "error"
    BY ErrorsOnly
  <2> HIDE DEF ts
  <2>2. /\ net' \in [Ends -> Seq(Messages)]
        /\ net'["s"] = net["s"] \o Words(ts) /\ net'["c"] = net["c"]
        /\ \A t : Says("s", t)' => Says("s", t) \/ \E i \in 1..Len(ts) : ts[i] = t
        /\ \A t : Says("c", t)' => Says("c", t)
    BY <1>1, <1>4, <2>1, SayMoves DEF ts
  <2>3. /\ pc' \in [Ends -> Places] /\ pc'["s"] = "failed" /\ pc'["c"] = pc["c"]
        /\ shut' \subseteq Ends
    BY <1>1, <1>4 DEF GivesUp, HandshakeTypes, Places
  <2>4. Says("s", "copyBoth")' => Says("s", "copyBoth")
    BY <2>1, <2>2
  <2>5. KeyShown' /\ OpenTogether'
    BY <1>2, <1>4, <2>2, <2>3, <2>4 DEF KeyShown, OpenTogether
  <2> QED
    BY <1>1, <1>2, <1>4, <2>1, <2>2, <2>3, <2>5 DEF HandshakeTypes, Moves
<1>5. CASE ServerWrites
  <2> DEFINE ts == <<Head(todo)>>
  <2>1. /\ todo # <<>> /\ todo' = Tail(todo) /\ UNCHANGED shut /\ Say("s", ts)
        /\ pc' = [pc EXCEPT !["s"] = IF @ = "starting" THEN "open" ELSE @]
    BY <1>5 DEF ServerWrites
  <2>2. /\ todo \in Seq(Tags) /\ Head(todo) \in Tags /\ Tail(todo) \in Seq(Tags)
        /\ Head(todo) = todo[1] /\ 1 \in 1..Len(todo) /\ Len(todo) \in Nat
        /\ Len(todo') = Len(todo) - 1
        /\ \A i \in 1..Len(todo') : i + 1 \in 1..Len(todo) /\ todo'[i] = todo[i + 1]
    <3>1. todo \in Seq(Tags)
      BY DEF HandshakeTypes
    <3> QED
      BY <2>1, <3>1
  <2>3. ts \in Seq(Tags) /\ \A i \in 1..Len(ts) : ts[i] = todo[1]
    BY <2>2
  <2> HIDE DEF ts
  <2>4. /\ net' \in [Ends -> Seq(Messages)]
        /\ net'["s"] = net["s"] \o Words(ts) /\ net'["c"] = net["c"]
        /\ \A t : Says("s", t)' => Says("s", t) \/ \E i \in 1..Len(ts) : ts[i] = t
        /\ \A t : Says("c", t)' => Says("c", t)
    BY <1>1, <2>1, <2>3, SayMoves
  <2>5. /\ pc' \in [Ends -> Places] /\ pc'["c"] = pc["c"]
        /\ pc'["s"] = IF pc["s"] = "starting" THEN "open" ELSE pc["s"]
    BY <1>1, <2>1 DEF HandshakeTypes, Places
  <2>6. Says("s", "copyBoth")' => Says("s", "copyBoth") \/ todo[1] = "copyBoth"
    BY <2>3, <2>4
  <2>7. KeyShown'
    BY <1>2, <2>4, <2>5 DEF KeyShown
  <2>8. OpenTogether'
    <3>1. CASE pc["s"] = "starting"
      <4>1. pc'["s"] = "open" /\ Len(todo') = 0
        BY <2>2, <2>5, <3>1 DEF OpenTogether
      <4>2. \A i \in 1..Len(todo') : FALSE
        BY <4>1
      <4> QED
        BY <1>2, <2>4, <2>5, <3>1, <4>1, <4>2 DEF OpenTogether
    <3>2. CASE pc["s"] # "starting"
      <4>1. pc'["s"] = pc["s"] /\ todo[1] # "copyBoth"
        BY <1>2, <2>2, <2>5, <3>2 DEF OpenTogether
      <4>2. \A i \in 1..Len(todo') : todo'[i] # "copyBoth"
        BY <1>2, <2>2, <3>2 DEF OpenTogether
      <4> QED
        BY <1>2, <2>4, <2>5, <2>6, <3>2, <4>1, <4>2 DEF OpenTogether
    <3> QED
      BY <3>1, <3>2
  <2> QED
    BY <1>1, <1>2, <2>1, <2>2, <2>3, <2>4, <2>5, <2>7, <2>8 DEF HandshakeTypes, Moves
<1> QED
  BY <1>3, <1>4, <1>5 DEF ServerReads

LEMMA HandshakeMoves ==
    ASSUME Handshaken, Quiet, Handshake
    PROVE  Handshaken' /\ shut \subseteq shut' /\ \A e \in Ends : Moves(e)
<1>1. CASE ClientStart \/ ClientReads
  BY <1>1, ClientMoves DEF ClientStart, ClientReads, GivesUp
<1>2. CASE Probe
  BY <1>2, ProbeMoves DEF Probe, GivesUp
<1>3. CASE ServerReads \/ ServerWrites
  BY <1>3, ServerMoves DEF ServerReads, ServerWrites, GivesUp
<1>4. CASE Lose
  BY <1>4 DEF Lose, Handshaken, HandshakeTypes, KeyShown, OpenTogether, Says, Moves
<1>5. CASE \E e \in Ends : Deadline(e) \/ IOFails(e)
  BY <1>5, GiveUpMoves DEF Deadline, IOFails, GivesUp
<1> QED
  BY <1>1, <1>2, <1>3, <1>4, <1>5 DEF Handshake

---------------------------------------------------------------------------
(* The messages of data *)

LEMMA ContentTyped ==
    ASSUME NEW m \in Messages
    PROVE  Content(m) \in Seq(Bytes) /\ (~Data(m) => Content(m) = <<>>)
<1>1. CASE Data(m)
  <2>1. m.p \in Seq(Bytes)
    BY <1>1, DataTyped
  <2>2. SubSeq(m.p, HeaderLen + 1, Len(m.p)) \in Seq(Bytes)
    BY <2>1, ChunksAssumption
  <2> QED
    BY <1>1, <2>1, <2>2 DEF Content, Data
<1>2. CASE ~Data(m)
  BY <1>2 DEF Content, Data
<1> QED
  BY <1>1, <1>2

LEMMA CopyDataTyped ==
    ASSUME NEW from \in Nat, NEW to \in Nat, NEW p \in Seq(Bytes)
    PROVE  LET m == CopyData(from, to, p)
           IN  m \in Messages /\ Data(m) /\ m.from = from /\ m.to = to /\ m.p = p
  BY DEF CopyData, Messages, DataMsgs, Data

LEMMA HeaderTyped ==
    Header \in Seq(Bytes) /\ Len(Header) = HeaderLen /\ Header[1] = "w"
<1>1. HeaderLen \in Nat /\ 1 \in 1..HeaderLen
  BY ChunksAssumption
<1>2. Header \in [1..HeaderLen -> Bytes] /\ Header[1] = "w"
  BY <1>1 DEF Header, Bytes
<1>3. Header \in Seq(Bytes)
  BY <1>1, <1>2, SeqDef
<1> QED
  BY <1>1, <1>2, <1>3, LenProperties

(* What Write builds carries what was written, whatever that looks like:   *)
(* the reader tells the header of the server's messages by its first unit, *)
(* and the client's have none, but start with the version.                 *)
Built(e, from, to, chunk) == CopyData(from, to, IF e = "s" THEN Header \o chunk ELSE chunk)

LEMMA BuiltContent ==
    ASSUME NEW e, NEW from \in Nat, NEW to \in Nat, NEW chunk \in Chunks
    PROVE  LET m == Built(e, from, to, chunk)
           IN  /\ m \in Messages /\ Data(m) /\ m.from = from /\ m.to = to
               /\ chunk \in Seq(Bytes) /\ Len(Content(m)) = Len(chunk)
               /\ \A i \in 1..Len(chunk) : Content(m)[i] = chunk[i]
<1>1. chunk \in Seq(Bytes) /\ chunk # <<>> /\ chunk[1] \notin {"w", "k", "r"}
  <2>1. chunk \in Seq(Units) /\ Units \subseteq Bytes
    BY ChunksAssumption DEF Bytes
  <2> QED
    BY <2>1, ChunksAssumption, SeqMonotonic
<1>2. CASE e = "s"
  <2> DEFINE p == Header \o chunk
  <2>1. /\ p \in Seq(Bytes) /\ p # <<>> /\ p[1] = "w" /\ Len(p) = HeaderLen + Len(chunk)
        /\ \A i \in 1..Len(chunk) : p[HeaderLen + i] = chunk[i]
    BY <1>1, HeaderTyped, ChunksAssumption
  <2> HIDE DEF p
  <2> DEFINE m == CopyData(from, to, p)
  <2>2. m \in Messages /\ Data(m) /\ m.from = from /\ m.to = to /\ m.p = p
    BY <2>1, CopyDataTyped
  <2> HIDE DEF m
  <2>3. Content(m) = SubSeq(p, HeaderLen + 1, Len(p))
    BY <2>1, <2>2 DEF Content, Data
  <2>4. Len(SubSeq(p, HeaderLen + 1, Len(p))) = Len(chunk)
    BY <1>1, <2>1, ChunksAssumption
  <2>5. \A i \in 1..Len(chunk) : SubSeq(p, HeaderLen + 1, Len(p))[i] = chunk[i]
    BY <1>1, <2>1, ChunksAssumption
  <2> QED
    BY <1>1, <1>2, <2>2, <2>3, <2>4, <2>5 DEF Built, m, p
<1>3. CASE e # "s"
  <2> DEFINE m == CopyData(from, to, chunk)
  <2>1. m \in Messages /\ Data(m) /\ m.from = from /\ m.to = to /\ m.p = chunk
    BY <1>1, CopyDataTyped
  <2> HIDE DEF m
  <2>2. Content(m) = chunk
    BY <1>1, <2>1 DEF Content, Data
  <2> QED
    BY <1>1, <1>3, <2>1, <2>2 DEF Built, m
<1> QED
  BY <1>2, <1>3

LEMMA BuiltCarries ==
    ASSUME NEW e, NEW s \in Seq(Bytes), NEW chunk \in Chunks
    PROVE  LET m == Built(e, Len(s), Len(s) + Len(chunk), chunk)
           IN  /\ m \in Messages /\ Data(m) /\ m.from = Len(s) /\ m.to = Len(s) + Len(chunk)
               /\ chunk \in Seq(Bytes) /\ Carries(m, s \o chunk)
<1> DEFINE from == Len(s)  to == Len(s) + Len(chunk)  m == Built(e, from, to, chunk)
<1>1. chunk \in Seq(Bytes)
  BY BuiltContent
<1>2. from \in Nat /\ to \in Nat
  BY <1>1
<1>3. /\ m \in Messages /\ Data(m) /\ m.from = from /\ m.to = to
      /\ Len(Content(m)) = Len(chunk) /\ \A i \in 1..Len(chunk) : Content(m)[i] = chunk[i]
  BY <1>2, BuiltContent
<1>4. /\ Len(chunk) \in Nat /\ from <= to /\ Len(s \o chunk) = to /\ to - from = Len(chunk)
      /\ \A i \in 1..Len(chunk) : (s \o chunk)[from + i] = chunk[i]
  BY <1>1
<1> HIDE DEF m, from, to
<1>5. Carries(m, s \o chunk)
  BY <1>2, <1>3, <1>4 DEF Carries
<1> QED
  BY <1>1, <1>3, <1>5 DEF m, from, to

(* A keepalive carries nothing. *)
LEMMA KeepaliveCarries ==
    ASSUME NEW s \in Seq(Bytes), NEW k \in {"k", "r"}
    PROVE  LET m == CopyData(Len(s), Len(s), <<k>>)
           IN  m \in Messages /\ Data(m) /\ m.from = Len(s) /\ m.to = Len(s) /\ Carries(m, s)
<1> DEFINE p == <<k>>  n == Len(s)  m == CopyData(n, n, p)
<1>1. n \in Nat /\ p \in Seq(Bytes) /\ p # <<>> /\ p[1] = k
  BY DEF Bytes
<1> HIDE DEF p, n
<1>2. m \in Messages /\ Data(m) /\ m.from = n /\ m.to = n /\ m.p = p
  BY <1>1, CopyDataTyped
<1> HIDE DEF m
<1>3. Content(m) = <<>>
  BY <1>1, <1>2 DEF Content, Data
<1>4. Carries(m, s)
  BY <1>1, <1>2, <1>3 DEF Carries, n
<1> QED
  BY <1>2, <1>4 DEF m, n, p

---------------------------------------------------------------------------
(* The connection *)

IInv == Handshaken /\ ConnTypes /\ Quiet /\ \A e \in Ends : Stream(e)

(* Once the connection is open, data takes nothing from what the handshake *)
(* has established.                                                        *)
LEMMA StaysHandshaken ==
    ASSUME Handshaken, UNCHANGED <<kind, pc, todo>>, shut' \subseteq Ends,
           net' \in [Ends -> Seq(Messages)],
           \A e \in Ends : \A t \in {"passwordGood", "copyBoth", "START_REPLICATION"} :
               Says(e, t)' => Says(e, t)
    PROVE  Handshaken'
<1>1. "c" \in Ends /\ "s" \in Ends
  BY DEF Ends
<1> QED
  BY <1>1 DEF Handshaken, HandshakeTypes, KeyShown, OpenTogether

(* A stream none of whose parts a step touches. *)
LEMMA SameStream ==
    ASSUME NEW e \in Ends, Stream(e), shut \subseteq shut',
           net'[e] = net[e], frame'[e] = frame[e], walPos'[e] = walPos[e], sent'[e] = sent[e],
           Taken(Other(e))' = Taken(Other(e))
    PROVE  Stream(e)'
<1>1. Wire(e)' = Wire(e)
  BY DEF Wire
<1>2. Flow(Wire(e), sent[e], Taken(Other(e)), e \notin shut')
  BY DEF Stream, Flow
<1> QED
  BY <1>1, <1>2 DEF Stream

LEMMA Others ==
    ASSUME NEW e \in Ends
    PROVE  /\ Other(e) \in Ends /\ Other(e) # e /\ Other(Other(e)) = e
           /\ \A x \in Ends : x = e \/ x = Other(e)
  BY DEF Ends, Other

LEMMA PartsTyped ==
    ASSUME IInv, NEW e \in Ends
    PROVE  /\ net[e] \in Seq(Messages) /\ frame[e] \in Seq(Messages) /\ Wire(e) \in Seq(Messages)
           /\ sent[e] \in Seq(Bytes) /\ rcvd[e] \in Seq(Bytes) /\ readBuf[e] \in Seq(Bytes)
           /\ Taken(e) \in Seq(Bytes) /\ walPos[e] = Len(sent[e])
<1>1. /\ net[e] \in Seq(Messages) /\ frame[e] \in Seq(Messages) /\ walPos[e] = Len(sent[e])
      /\ sent[e] \in Seq(Bytes) /\ rcvd[e] \in Seq(Bytes) /\ readBuf[e] \in Seq(Bytes)
  BY DEF IInv, Handshaken, HandshakeTypes, ConnTypes, Stream
<1> QED
  BY <1>1 DEF Wire, Taken

(* Write builds a message. *)
LEMMA BuildStep ==
    ASSUME IInv, NEW e \in Ends, NEW chunk \in Chunks, WriteBuild(e, chunk)
    PROVE  IInv'
<1> DEFINE m == Built(e, walPos[e], walPos[e] + Len(chunk), chunk)
<1>1. /\ pc[e] = "open" /\ e \notin shut /\ frame[e] = <<>> /\ UNCHANGED <<hsVars, readBuf, rcvd>>
      /\ frame' = [frame EXCEPT ![e] = <<m>>]
      /\ walPos' = [walPos EXCEPT ![e] = walPos[e] + Len(chunk)]
      /\ sent' = [sent EXCEPT ![e] = @ \o chunk]
  BY DEF WriteBuild, Live, Built
<1>2. /\ m \in Messages /\ Data(m) /\ m.from = Len(sent[e]) /\ m.to = Len(sent[e]) + Len(chunk)
      /\ chunk \in Seq(Bytes) /\ Carries(m, sent[e] \o chunk)
  <2>1. sent[e] \in Seq(Bytes) /\ walPos[e] = Len(sent[e])
    BY PartsTyped
  <2>2. m = Built(e, Len(sent[e]), Len(sent[e]) + Len(chunk), chunk)
    BY <2>1
  <2> QED
    BY <2>1, <2>2, BuiltCarries
<1> HIDE DEF m
<1>3. /\ <<m>> \in Seq(Messages) /\ sent[e] \o chunk \in Seq(Bytes)
      /\ Len(sent[e] \o chunk) = Len(sent[e]) + Len(chunk) /\ walPos[e] + Len(chunk) \in Nat
  BY <1>2, PartsTyped
<1>4. /\ ConnTypes'
      /\ frame'[e] = <<m>> /\ sent'[e] = sent[e] \o chunk /\ walPos'[e] = walPos[e] + Len(chunk)
      /\ \A x \in Ends \ {e} : frame'[x] = frame[x] /\ sent'[x] = sent[x] /\ walPos'[x] = walPos[x]
  BY <1>1, <1>3 DEF IInv, ConnTypes
<1>5. Handshaken' /\ Quiet'
  BY <1>1, <1>4 DEF IInv, hsVars, Handshaken, HandshakeTypes, KeyShown, OpenTogether, Says, Quiet
<1>6. \A x \in Ends : Taken(x)' = Taken(x) /\ net'[x] = net[x]
  BY <1>1 DEF Taken, hsVars
<1>7. Stream(e)'
  <2>1. Wire(e) = net[e] /\ Wire(e)' = net[e] \o <<m>>
    BY <1>1, <1>4, <1>6, PartsTyped, ConcatEmptySeq DEF Wire
  <2>2. Flow(net[e], sent[e], Taken(Other(e)), TRUE)
    BY <1>1, <2>1 DEF IInv, Stream
  <2>3. Flow(net[e] \o <<m>>, sent[e] \o chunk, Taken(Other(e)), TRUE)
    BY <1>2, <2>2, PartsTyped, Others, FlowWritten
  <2>4. Flow(Wire(e)', sent'[e], Taken(Other(e))', e \notin shut')
    BY <1>1, <1>4, <1>6, <2>1, <2>3, Others DEF hsVars
  <2> QED
    BY <1>2, <1>3, <1>4, <2>4, PartsTyped DEF Stream
<1>8. \A x \in Ends \ {e} : Stream(x)'
  BY <1>1, <1>4, <1>6, SameStream, Others DEF IInv, hsVars
<1> QED
  BY <1>4, <1>5, <1>7, <1>8 DEF IInv

LEMMA DataSaysNothing ==
    ASSUME NEW e, net[e] \in Seq(Messages), NEW t, t # "copyData",
           \/ \E m \in Messages : Data(m) /\ net'[e] = net[e] \o <<m>>
           \/ net[e] # <<>> /\ net'[e] = Tail(net[e])
           \/ net'[e] = net[e]
    PROVE  Says(e, t)' => Says(e, t)
<1> SUFFICES ASSUME NEW i \in 1..Len(net'[e]), net'[e][i].tag = t PROVE Says(e, t)
  BY DEF Says
<1>1. CASE \E m \in Messages : Data(m) /\ net'[e] = net[e] \o <<m>>
  <2>1. PICK m \in Messages : Data(m) /\ net'[e] = net[e] \o <<m>>
    BY <1>1
  <2>2. net'[e][i] # m
    BY <2>1 DEF Data
  <2>3. i \in 1..Len(net[e]) /\ net'[e][i] = net[e][i]
    BY <2>1, <2>2
  <2> QED
    BY <2>3 DEF Says
<1>2. CASE net[e] # <<>> /\ net'[e] = Tail(net[e])
  <2>1. i + 1 \in 1..Len(net[e]) /\ net'[e][i] = net[e][i + 1]
    BY <1>2
  <2> QED
    BY <2>1 DEF Says
<1>3. CASE net'[e] = net[e]
  BY <1>3 DEF Says
<1> QED
  BY <1>1, <1>2, <1>3

(* Write sends what it has built, or loses it with the connection. *)
LEMMA SendStep ==
    ASSUME IInv, NEW e \in Ends, WriteSend(e)
    PROVE  IInv'
<1>1. /\ frame[e] # <<>> /\ frame' = [frame EXCEPT ![e] = <<>>]
      /\ UNCHANGED <<kind, pc, todo, walPos, sent, readBuf, rcvd>>
  BY DEF WriteSend
<1>2. PICK m \in Messages : frame[e] = <<m>> /\ Data(m)
  BY <1>1 DEF IInv, Stream
<1>3. /\ ConnTypes' /\ frame'[e] = <<>> /\ \A x \in Ends \ {e} : frame'[x] = frame[x]
  BY <1>1 DEF IInv, ConnTypes
<1>4. pc[e] = "open"
  BY <1>1 DEF IInv, Quiet
<1>5. \A x \in Ends : Taken(x)' = Taken(x)
  BY <1>1 DEF Taken
<1>6. CASE net' = [net EXCEPT ![e] = @ \o frame[e]] /\ UNCHANGED shut
  <2>1. net[e] \o <<m>> \in Seq(Messages)
    BY PartsTyped
  <2>2. /\ net' \in [Ends -> Seq(Messages)] /\ net'[e] = net[e] \o <<m>>
        /\ \A x \in Ends \ {e} : net'[x] = net[x]
    BY <1>2, <1>6, <2>1 DEF IInv, Handshaken, HandshakeTypes
  <2>3. Handshaken'
    <3>1. \A x \in Ends : \A t \in {"passwordGood", "copyBoth", "START_REPLICATION"} :
              Says(x, t)' => Says(x, t)
      BY <1>2, <2>2, PartsTyped, DataSaysNothing
    <3> QED
      BY <1>1, <1>6, <2>2, <3>1, StaysHandshaken DEF IInv, Handshaken, HandshakeTypes
  <2>4. Quiet'
    BY <1>1, <1>3, <1>4, <2>2 DEF IInv, Quiet
  <2>5. Wire(e)' = Wire(e)
    BY <1>2, <1>3, <2>1, <2>2, ConcatEmptySeq DEF Wire
  <2>6. Stream(e)'
    BY <1>1, <1>3, <1>5, <1>6, <2>5, Others DEF IInv, Stream
  <2>7. \A x \in Ends \ {e} : Stream(x)'
    BY <1>1, <1>3, <1>5, <1>6, <2>2, SameStream, Others DEF IInv
  <2> QED
    BY <1>3, <2>3, <2>4, <2>6, <2>7 DEF IInv
<1>7. CASE shut' = shut \cup {e} /\ UNCHANGED net
  <2>1. Handshaken'
    BY <1>1, <1>7 DEF IInv, Handshaken, HandshakeTypes, KeyShown, OpenTogether, Says
  <2>2. Quiet'
    BY <1>1, <1>3, <1>7 DEF IInv, Quiet
  <2>3. Wire(e)' = net[e] /\ Wire(e) = net[e] \o <<m>>
    BY <1>2, <1>3, <1>7, PartsTyped, ConcatEmptySeq DEF Wire
  <2>4. Flow(net[e], sent[e], Taken(Other(e)), FALSE)
    <3>1. Flow(net[e] \o <<m>>, sent[e], Taken(Other(e)), e \notin shut)
      BY <2>3 DEF IInv, Stream
    <3>2. net[e] \in Seq(Messages) /\ sent[e] \in Seq(Bytes)
      BY PartsTyped
    <3> QED
      BY <3>1, <3>2, FlowLost
  <2>5. Flow(Wire(e)', sent'[e], Taken(Other(e))', e \notin shut')
    <3>1. (e \notin shut') = FALSE
      BY <1>7
    <3> QED
      BY <1>1, <1>5, <2>3, <2>4, <3>1, Others
  <2>6. Stream(e)'
    BY <1>1, <1>3, <2>5, PartsTyped DEF Stream
  <2>7. \A x \in Ends \ {e} : Stream(x)'
    BY <1>1, <1>3, <1>5, <1>7, SameStream, Others DEF IInv
  <2> QED
    BY <1>3, <2>1, <2>2, <2>6, <2>7 DEF IInv
<1> QED
  BY <1>6, <1>7 DEF WriteSend

(* A keepalive is sent between two writes. *)
LEMMA KeepaliveStep ==
    ASSUME IInv, NEW e \in Ends, Keepalive(e)
    PROVE  IInv'
<1> DEFINE m == KeepaliveMsg(e)
<1>1. /\ pc[e] = "open" /\ e \notin shut /\ frame[e] = <<>>
      /\ net' = [net EXCEPT ![e] = Append(@, m)]
      /\ UNCHANGED <<kind, pc, todo, shut, connVars>>
  BY DEF Keepalive, Live
<1>2. m \in Messages /\ Data(m) /\ m.from = Len(sent[e]) /\ m.to = Len(sent[e]) /\ Carries(m, sent[e])
  <2>1. sent[e] \in Seq(Bytes) /\ walPos[e] = Len(sent[e])
    BY PartsTyped
  <2>2. \E k \in {"k", "r"} : m = CopyData(Len(sent[e]), Len(sent[e]), <<k>>)
    BY <2>1 DEF KeepaliveMsg
  <2> QED
    BY <2>1, <2>2, KeepaliveCarries
<1> HIDE DEF m
<1>3. net[e] \o <<m>> \in Seq(Messages) /\ Append(net[e], m) = net[e] \o <<m>>
  BY <1>2, PartsTyped
<1>4. /\ net' \in [Ends -> Seq(Messages)] /\ net'[e] = net[e] \o <<m>>
      /\ \A x \in Ends \ {e} : net'[x] = net[x]
  BY <1>1, <1>3 DEF IInv, Handshaken, HandshakeTypes
<1>5. ConnTypes' /\ Quiet'
  BY <1>1, <1>4 DEF IInv, ConnTypes, Quiet, connVars
<1>6. Handshaken'
  <2>1. \A x \in Ends : \A t \in {"passwordGood", "copyBoth", "START_REPLICATION"} :
            Says(x, t)' => Says(x, t)
    BY <1>2, <1>4, PartsTyped, DataSaysNothing
  <2> QED
    BY <1>1, <1>4, <2>1, StaysHandshaken DEF IInv, Handshaken, HandshakeTypes
<1>7. \A x \in Ends : Taken(x)' = Taken(x) /\ frame'[x] = frame[x] /\ sent'[x] = sent[x]
                      /\ walPos'[x] = walPos[x]
  BY <1>1 DEF Taken, connVars
<1>8. Stream(e)'
  <2>1. Wire(e) = net[e] /\ Wire(e)' = net[e] \o <<m>>
    <3>1. net[e] \o <<>> = net[e] /\ (net[e] \o <<m>>) \o <<>> = net[e] \o <<m>>
      BY <1>3, PartsTyped, ConcatEmptySeq
    <3>2. frame[e] = <<>> /\ frame'[e] = <<>> /\ net'[e] = net[e] \o <<m>>
      BY <1>1, <1>4, <1>7
    <3> QED
      BY <3>1, <3>2 DEF Wire
  <2>2. Flow(net[e], sent[e], Taken(Other(e)), TRUE)
    BY <1>1, <2>1 DEF IInv, Stream
  <2>3. /\ sent[e] \o <<>> = sent[e] /\ <<>> \in Seq(Bytes) /\ Len(<<>>) = 0
        /\ Len(sent[e]) + Len(<<>>) = Len(sent[e])
    BY PartsTyped, ConcatEmptySeq
  <2>4. Flow(net[e] \o <<m>>, sent[e] \o <<>>, Taken(Other(e)), TRUE)
    BY <1>2, <2>2, <2>3, PartsTyped, Others, FlowWritten
  <2>5. Flow(Wire(e)', sent'[e], Taken(Other(e))', e \notin shut')
    BY <1>1, <1>7, <2>1, <2>3, <2>4, Others
  <2> QED
    BY <1>1, <1>7, <2>5 DEF IInv, Stream
<1>9. \A x \in Ends \ {e} : Stream(x)'
  BY <1>1, <1>4, <1>7, SameStream, Others DEF IInv
<1> QED
  BY <1>5, <1>6, <1>8, <1>9 DEF IInv

(* A message at the head of e's wire is read: by the other end, or, before *)
(* there is data, by its handshake.                                        *)
LEMMA HeadLeaves ==
    ASSUME IInv, NEW e \in Ends, net[e] # <<>>, net'[e] = Tail(net[e]), shut \subseteq shut',
           frame'[e] = frame[e], walPos'[e] = walPos[e], sent'[e] = sent[e],
           Taken(Other(e))' = Taken(Other(e)) \o Content(Head(net[e]))
    PROVE  Stream(e)'
<1>1. Wire(e) # <<>> /\ Wire(e)' = Tail(Wire(e)) /\ Head(Wire(e)) = Head(net[e])
  BY PartsTyped, TailOfConcat DEF Wire
<1>2. Head(net[e]) \in Messages
  BY PartsTyped
<1>3. Flow(Wire(e), sent[e], Taken(Other(e)), e \notin shut')
  BY DEF IInv, Stream, Flow
<1>4. Flow(Tail(Wire(e)), sent[e], Taken(Other(e)) \o Content(Head(Wire(e))), e \notin shut')
  BY <1>1, <1>2, <1>3, PartsTyped, Others, ContentTyped, FlowRead
<1> QED
  BY <1>1, <1>4 DEF IInv, Stream

(* Read takes the next message off the wire. *)
LEMMA ReadFrameStep ==
    ASSUME IInv, NEW e \in Ends, ReadFrame(e)
    PROVE  IInv'
<1> DEFINE o == Other(e)  c == Content(Head(net[o]))
<1>1. /\ pc[e] = "open" /\ readBuf[e] = <<>> /\ net[o] # <<>>
      /\ readBuf' = [readBuf EXCEPT ![e] = c] /\ net' = [net EXCEPT ![o] = Tail(@)]
      /\ UNCHANGED <<kind, pc, todo, shut, frame, walPos, sent, rcvd>>
  BY DEF ReadFrame, Live
<1>2. o \in Ends /\ o # e /\ Other(o) = e /\ \A x \in Ends : x = e \/ x = o
  BY Others
<1> HIDE DEF o
<1>3. c \in Seq(Bytes) /\ Tail(net[o]) \in Seq(Messages)
  <2>1. net[o] \in Seq(Messages) /\ Head(net[o]) \in Messages
    BY <1>1, <1>2, PartsTyped
  <2> QED
    BY <1>1, <2>1, ContentTyped
<1> HIDE DEF c
<1>4. /\ net' \in [Ends -> Seq(Messages)] /\ net'[o] = Tail(net[o]) /\ net'[e] = net[e]
      /\ ConnTypes' /\ readBuf'[e] = c /\ readBuf'[o] = readBuf[o]
  BY <1>1, <1>2, <1>3 DEF IInv, Handshaken, HandshakeTypes, ConnTypes
<1>5. Handshaken'
  <2>1. \A x \in Ends : \A t \in {"passwordGood", "copyBoth", "START_REPLICATION"} :
            Says(x, t)' => Says(x, t)
    BY <1>1, <1>2, <1>4, PartsTyped, DataSaysNothing
  <2> QED
    BY <1>1, <1>4, <2>1, StaysHandshaken DEF IInv, Handshaken, HandshakeTypes
<1>6. Quiet'
  <2>1. \A i \in 1..Len(net'[o]) : i + 1 \in 1..Len(net[o]) /\ net'[o][i] = net[o][i + 1]
    BY <1>1, <1>2, <1>4, PartsTyped
  <2> QED
    BY <1>1, <1>2, <1>4, <2>1 DEF IInv, Quiet
<1>7. Taken(e)' = Taken(e) \o c
  <2>1. rcvd[e] \o <<>> = rcvd[e]
    BY PartsTyped, ConcatEmptySeq
  <2> QED
    BY <1>1, <1>4, <2>1 DEF Taken
<1>8. Stream(o)'
  BY <1>1, <1>2, <1>4, <1>7, HeadLeaves DEF c
<1>9. Stream(e)'
  <2>1. Taken(o)' = Taken(o)
    BY <1>1, <1>4 DEF Taken
  <2> QED
    BY <1>1, <1>2, <1>4, <2>1, SameStream DEF IInv, o
<1> QED
  BY <1>2, <1>4, <1>5, <1>6, <1>8, <1>9 DEF IInv

(* Read hands out a piece of what it has. *)
LEMMA ReadPieceStep ==
    ASSUME IInv, NEW e \in Ends, ReadPiece(e)
    PROVE  IInv'
<1>1. PICK n \in 1..Len(readBuf[e]) :
          /\ rcvd' = [rcvd EXCEPT ![e] = @ \o SubSeq(readBuf[e], 1, n)]
          /\ readBuf' = [readBuf EXCEPT ![e] = SubSeq(@, n + 1, Len(@))]
  BY DEF ReadPiece
<1>2. UNCHANGED <<hsVars, frame, walPos, sent>>
  BY DEF ReadPiece
<1>3. /\ rcvd[e] \o SubSeq(readBuf[e], 1, n) \in Seq(Bytes)
      /\ SubSeq(readBuf[e], n + 1, Len(readBuf[e])) \in Seq(Bytes)
      /\ (rcvd[e] \o SubSeq(readBuf[e], 1, n)) \o SubSeq(readBuf[e], n + 1, Len(readBuf[e]))
            = rcvd[e] \o readBuf[e]
  <2>1. rcvd[e] \in Seq(Bytes) /\ readBuf[e] \in Seq(Bytes)
    BY PartsTyped
  <2>2. Splits(Bytes, rcvd[e], readBuf[e], n)
    BY <2>1, SplitConcat
  <2> QED
    BY <2>2 DEF Splits
<1>4. /\ ConnTypes'
      /\ rcvd'[e] = rcvd[e] \o SubSeq(readBuf[e], 1, n)
      /\ readBuf'[e] = SubSeq(readBuf[e], n + 1, Len(readBuf[e]))
      /\ \A x \in Ends \ {e} : rcvd'[x] = rcvd[x] /\ readBuf'[x] = readBuf[x]
  BY <1>1, <1>2, <1>3 DEF IInv, ConnTypes
<1>5. \A x \in Ends : Taken(x)' = Taken(x)
  BY <1>3, <1>4 DEF Taken
<1>6. Handshaken' /\ Quiet'
  BY <1>2 DEF IInv, hsVars, Handshaken, HandshakeTypes, KeyShown, OpenTogether, Says, Quiet
<1>7. \A x \in Ends : Stream(x)'
  BY <1>2, <1>5, SameStream, Others DEF IInv, hsVars
<1> QED
  BY <1>4, <1>6, <1>7 DEF IInv

(* Either end closes. *)
LEMMA CloseStep ==
    ASSUME IInv, NEW e \in Ends, Close(e)
    PROVE  IInv'
<1>1. shut' = shut \cup {e} /\ UNCHANGED <<kind, pc, net, todo, connVars>>
  BY DEF Close
<1>2. Handshaken' /\ Quiet' /\ ConnTypes'
  BY <1>1 DEF IInv, connVars, Handshaken, HandshakeTypes, KeyShown, OpenTogether, Says, Quiet,
              ConnTypes
<1>3. \A x \in Ends : Stream(x)'
  BY <1>1, SameStream, Others DEF IInv, connVars, Taken
<1> QED
  BY <1>2, <1>3 DEF IInv

(* The handshake's messages carry nothing, and come before all data. *)
LEMMA HandshakeStep ==
    ASSUME IInv, Handshake
    PROVE  IInv'
<1>1. UNCHANGED connVars
  BY DEF Handshake
<1>2. Handshaken' /\ shut \subseteq shut' /\ \A e \in Ends : Moves(e)
  BY HandshakeMoves DEF IInv
<1>3. /\ ConnTypes'
      /\ \A e \in Ends : /\ frame'[e] = frame[e] /\ walPos'[e] = walPos[e] /\ sent'[e] = sent[e]
                         /\ Taken(e)' = Taken(e)
  BY <1>1 DEF IInv, ConnTypes, connVars, Taken
<1>4. ASSUME NEW e \in Ends
      PROVE  Stream(e)' /\ (pc'[e] # "open" => \A i \in 1..Len(net'[e]) : ~Data(net'[e][i]))
  <2>1. Other(e) \in Ends /\ net[e] \in Seq(Messages)
    BY Others, PartsTyped
  <2>2. CASE net'[e] = net[e]
    BY <1>2, <1>3, <2>1, <2>2, SameStream DEF IInv, Quiet, Moves
  <2>3. CASE net[e] # <<>> /\ ~Data(Head(net[e])) /\ net'[e] = Tail(net[e])
    <3>1. Head(net[e]) \in Messages
      BY <2>1, <2>3
    <3>2. Content(Head(net[e])) = <<>>
      BY <2>3, <3>1, ContentTyped
    <3>3. Taken(Other(e)) \o <<>> = Taken(Other(e))
      BY <2>1, PartsTyped, ConcatEmptySeq
    <3>4. Stream(e)'
      BY <1>2, <1>3, <2>1, <2>3, <3>2, <3>3, HeadLeaves
    <3>5. \A i \in 1..Len(net'[e]) : i + 1 \in 1..Len(net[e]) /\ net'[e][i] = net[e][i + 1]
      BY <2>1, <2>3
    <3> QED
      BY <1>2, <3>4, <3>5 DEF IInv, Quiet, Moves
  <2>4. CASE pc[e] # "open" /\ \E ts \in Seq(Tags) : net'[e] = net[e] \o Words(ts)
    <3>1. PICK ts \in Seq(Tags) : net'[e] = net[e] \o Words(ts)
      BY <2>4
    <3>2. frame[e] = <<>> /\ \A i \in 1..Len(net[e]) : ~Data(net[e][i])
      BY <2>4 DEF IInv, Quiet
    <3>3. /\ net'[e] \in Seq(Messages) /\ \A i \in 1..Len(net'[e]) : ~Data(net'[e][i])
      <4>1. /\ Words(ts) \in Seq(Messages) /\ Len(Words(ts)) = Len(ts)
            /\ \A j \in 1..Len(Words(ts)) : ~Data(Words(ts)[j])
        BY WordsSpoken
      <4> HIDE DEF Words
      <4>2. net'[e] \in Seq(Messages)
        BY <2>1, <3>1, <4>1
      <4>3. ASSUME NEW i \in 1..Len(net'[e]) PROVE ~Data(net'[e][i])
        <5>1. CASE i <= Len(net[e])
          <6>1. net'[e][i] = net[e][i] /\ i \in 1..Len(net[e])
            BY <2>1, <3>1, <4>1, <5>1
          <6> QED
            BY <3>2, <6>1
        <5>2. CASE i > Len(net[e])
          <6>1. /\ net'[e][i] = Words(ts)[i - Len(net[e])]
                /\ i - Len(net[e]) \in 1..Len(Words(ts))
            BY <2>1, <3>1, <4>1, <5>2
          <6> QED
            BY <4>1, <6>1
        <5> QED
          BY <2>1, <5>1, <5>2
      <4> QED
        BY <4>2, <4>3
    <3>4. Wire(e) = net[e] /\ Wire(e)' = net'[e]
      BY <1>3, <2>1, <3>2, <3>3, ConcatEmptySeq DEF Wire
    <3>5. Flow(net[e], sent[e], Taken(Other(e)), e \notin shut')
      BY <1>2, <3>4 DEF IInv, Stream, Flow
    <3>6. Flow(net'[e], sent[e], Taken(Other(e)), e \notin shut')
      BY <2>1, <3>2, <3>3, <3>5, FlowWords
    <3> QED
      BY <1>3, <2>1, <3>3, <3>4, <3>6 DEF IInv, Stream
  <2> QED
    BY <1>2, <2>2, <2>3, <2>4 DEF Moves
<1>5. Quiet'
  BY <1>2, <1>3, <1>4 DEF IInv, Quiet, Moves
<1> QED
  BY <1>2, <1>3, <1>4, <1>5 DEF IInv

---------------------------------------------------------------------------
(* The invariant and what follows from it *)

LEMMA InitInv == Init => IInv
<1> SUFFICES ASSUME Init PROVE IInv
  OBVIOUS
<1> USE DEF Init, HandshakeInit
<1>1. HandshakeTypes /\ ConnTypes
  BY DEF HandshakeTypes, ConnTypes, Ends, Places
<1>2. /\ pc["c"] = "start" /\ pc["s"] = "startup"
      /\ \A e \in Ends : /\ net[e] = <<>> /\ frame[e] = <<>> /\ sent[e] = <<>> /\ walPos[e] = 0
                         /\ rcvd[e] = <<>> /\ readBuf[e] = <<>>
  BY DEF Ends
<1>3. \A e \in Ends : \A t : ~Says(e, t)
  BY <1>2 DEF Says
<1>4. KeyShown /\ OpenTogether
  BY <1>2, <1>3 DEF KeyShown, OpenTogether, Ends
<1>5. Quiet
  BY <1>2 DEF Quiet
<1>6. ASSUME NEW e \in Ends PROVE Stream(e)
  <2>1. <<>> \o <<>> = <<>>
    OBVIOUS
  <2>2. Wire(e) = <<>> /\ Taken(Other(e)) = <<>>
    BY <1>2, <2>1, Others DEF Wire, Taken
  <2>3. Flow(<<>>, <<>>, <<>>, e \notin shut)
    BY DEF Flow, Ordered, Begins, Reaches
  <2> QED
    BY <1>2, <2>2, <2>3 DEF Stream
<1> QED
  BY <1>1, <1>4, <1>5, <1>6 DEF IInv, Handshaken

LEMMA StepInv == IInv /\ [Next]_vars => IInv'
<1> SUFFICES ASSUME IInv, [Next]_vars PROVE IInv'
  OBVIOUS
<1>1. CASE Handshake
  BY <1>1, HandshakeStep
<1>2. ASSUME NEW e \in Ends, NEW c \in Chunks, WriteBuild(e, c) PROVE IInv'
  BY <1>2, BuildStep
<1>3. ASSUME NEW e \in Ends, WriteSend(e) PROVE IInv'
  BY <1>3, SendStep
<1>4. ASSUME NEW e \in Ends, Keepalive(e) PROVE IInv'
  BY <1>4, KeepaliveStep
<1>5. ASSUME NEW e \in Ends, ReadFrame(e) PROVE IInv'
  BY <1>5, ReadFrameStep
<1>6. ASSUME NEW e \in Ends, ReadPiece(e) PROVE IInv'
  BY <1>6, ReadPieceStep
<1>7. ASSUME NEW e \in Ends, Close(e) PROVE IInv'
  BY <1>7, CloseStep
<1>8. CASE UNCHANGED vars
  <2>1. UNCHANGED <<kind, pc, net, todo, shut, frame, walPos, sent, readBuf, rcvd>>
    BY <1>8 DEF vars, hsVars, connVars
  <2>2. Handshaken' /\ ConnTypes' /\ Quiet'
    BY <2>1 DEF IInv, Handshaken, HandshakeTypes, KeyShown, OpenTogether, Says, ConnTypes, Quiet
  <2>3. \A e \in Ends : Stream(e)'
    BY <2>1, SameStream DEF IInv, Taken
  <2> QED
    BY <2>2, <2>3 DEF IInv
<1> QED
  BY <1>1, <1>2, <1>3, <1>4, <1>5, <1>6, <1>7, <1>8 DEF Next

LEMMA Invariance == Spec => []IInv
  BY InitInv, StepInv, PTL DEF Spec

(* No end opens unless the client is ours and has our key, and our client  *)
(* not before the server, for every kind of client and whatever it sends:  *)
(* ServerHandshake goes past the password only with the good one, and      *)
(* ClientHandshake opens on CopyBothResponse alone.                        *)
THEOREM OpensWithKey == Spec => []Agreement
<1>1. IInv => Agreement
  BY DEF IInv, Handshaken, KeyShown, OpenTogether, Agreement
<1> QED
  BY <1>1, Invariance, PTL

(* What PGConn.Read has taken at one end is a prefix of what PGConn.Write  *)
(* was given at the other, for every set of chunks that start with the     *)
(* multiplexer's version, every header length and any interleaving of      *)
(* writes, keepalives and closings.                                        *)
THEOREM ReadsWhatWasWritten == Spec => []StreamIntact
<1>1. IInv => StreamIntact
  <2> SUFFICES ASSUME IInv, NEW e \in Ends
               PROVE  IsPrefix(rcvd[e] \o readBuf[e], sent[Other(e)])
    BY DEF StreamIntact
  <2>1. Other(e) \in Ends /\ Other(Other(e)) = e
    BY Others
  <2>2. /\ Len(Taken(e)) <= Len(sent[Other(e)])
        /\ \A i \in 1..Len(Taken(e)) : Taken(e)[i] = sent[Other(e)][i]
    BY <2>1 DEF IInv, Stream, Flow
  <2>3. IsPrefix(Taken(e), sent[Other(e)])
    BY <2>1, <2>2, PartsTyped, PrefixByElements
  <2> QED
    BY <2>3 DEF Taken
<1> QED
  BY <1>1, Invariance, PTL

(* The messages under way from either end are in the order of their WAL    *)
(* positions and without gaps, and the last reaches what was written:      *)
(* Write and keepaliveLoop take their positions under writeMu.             *)
THEOREM PositionsInOrder == Spec => []WalInOrder
<1>1. IInv => WalInOrder
  <2> SUFFICES ASSUME IInv, NEW e \in Ends
               PROVE  LET ms == net[e] \o frame[e]
                      IN  /\ \A i \in 1..(Len(ms) - 1) : ms[i].tag = "copyData" =>
                                ms[i + 1].tag = "copyData" /\ ms[i].to = ms[i + 1].from
                          /\ ms # <<>> /\ Last(ms).tag = "copyData" /\ e \notin shut =>
                                Last(ms).to = Len(sent[e])
    BY DEF WalInOrder
  <2> DEFINE ms == net[e] \o frame[e]
  <2>1. ms \in Seq(Messages) /\ Len(ms) \in Nat
    <3>1. ms = Wire(e)
      BY DEF Wire
    <3> QED
      BY <3>1, PartsTyped
  <2>2. Ordered(ms) /\ (e \notin shut => Reaches(ms, Len(Taken(Other(e))), Len(sent[e])))
    BY DEF IInv, Stream, Flow, Wire
  <2> HIDE DEF ms
  <2>3. ASSUME NEW i \in 1..(Len(ms) - 1), ms[i].tag = "copyData"
        PROVE  ms[i + 1].tag = "copyData" /\ ms[i].to = ms[i + 1].from
    <3>1. i \in 1..Len(ms) /\ i + 1 \in 1..Len(ms) /\ i < i + 1
      BY <2>1
    <3> QED
      BY <2>2, <2>3, <3>1 DEF Ordered, Data
  <2>4. ASSUME ms # <<>>, Last(ms).tag = "copyData", e \notin shut
        PROVE  Last(ms).to = Len(sent[e])
    BY <2>2, <2>4 DEF Reaches, Data, Last
  <2> QED
    BY <2>3, <2>4 DEF ms
<1> QED
  BY <1>1, Invariance, PTL
=============================================================================
