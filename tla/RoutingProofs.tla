--------------------------- MODULE RoutingProofs ---------------------------
(***************************************************************************)
(* Proofs about PolicyRouting and DirectSets, for every number of tunnels, *)
(* every set of modes and any number of kills.                             *)
(*                                                                         *)
(* PolicyRouting first: where each command is in Setup's and Teardown's    *)
(* lists; from that the invariant RInv, which says how far the list has    *)
(* come and what the rules and tables hold by then; then Layered, the      *)
(* order of the rules that several processes have left in one chain; and   *)
(* what the two make of a packet.                                          *)
(***************************************************************************)
EXTENDS PolicyRouting, DirectSets, FiniteSetTheorems, SequenceTheorems,
        WellFoundedInduction, TLAPS

-----------------------------------------------------------------------------
(* Numbers and sequences *)

(* A non-empty set of natural numbers has a least element, which is its Min. *)
LEMMA MinIs ==
    ASSUME NEW T, T \subseteq Nat, T # {}
    PROVE  Min(T) \in T /\ \A y \in T : Min(T) <= y
<1>1. PICK x \in T : \A y \in T : ~ (<<y, x>> \in OpToRel(<, Nat))
  BY WFMin, NatLessThanWellFounded
<1>2. \A y \in T : x <= y
  <2> SUFFICES ASSUME NEW y \in T, ~(x <= y) PROVE FALSE
    OBVIOUS
  <2>1. y < x /\ x \in Nat /\ y \in Nat
    OBVIOUS
  <2>2. <<y, x>> \in OpToRel(<, Nat)
    BY <2>1 DEF OpToRel
  <2> QED
    BY <1>1, <2>2
<1> QED
  BY <1>2 DEF Min

(* One that is bounded has a greatest element, which is its Max. *)
LEMMA MaxIs ==
    ASSUME NEW n \in Nat, NEW T, T \subseteq 0..n, T # {}
    PROVE  Max(T) \in T /\ \A y \in T : y <= Max(T)
<1> DEFINE U == {n - x : x \in T}
<1>1. U \subseteq Nat /\ U # {}
  OBVIOUS
<1> HIDE DEF U
<1>2. Min(U) \in U /\ \A u \in U : Min(U) <= u
  BY <1>1, MinIs
<1>3. PICK x \in T : Min(U) = n - x
  BY <1>2 DEF U
<1>4. \A y \in T : x >= y
  <2> SUFFICES ASSUME NEW y \in T PROVE x >= y
    OBVIOUS
  <2>1. n - y \in U
    BY DEF U
  <2>2. n - x <= n - y
    BY <1>2, <1>3, <2>1
  <2>3. x \in 0..n /\ y \in 0..n
    OBVIOUS
  <2> QED
    BY <2>2, <2>3
<1>5. Max(T) \in T /\ \A y \in T : Max(T) >= y
  BY <1>4 DEF Max
<1>6. \A y \in T : Max(T) \in 0..n /\ y \in 0..n
  BY <1>5
<1> QED
  BY <1>5, <1>6

(* u is s without the first e, the gap closed. *)
Removed(s, e, u) ==
    /\ Len(u) = Len(s) - 1
    /\ \E p \in 1..Len(s) :
          /\ s[p] = e /\ \A j \in 1..(p - 1) : s[j] # e
          /\ \A j \in 1..(Len(s) - 1) : u[j] = IF j < p THEN s[j] ELSE s[j + 1]

(* RemoveFirst drops the first occurrence and closes the gap. *)
LEMMA RemoveFirstIs ==
    ASSUME NEW S, NEW s \in Seq(S), NEW e, \E i \in 1..Len(s) : s[i] = e
    PROVE  RemoveFirst(s, e) \in Seq(S) /\ Removed(s, e, RemoveFirst(s, e))
<1> DEFINE I == {i \in 1..Len(s) : s[i] = e}
           p == Min(I)
<1>1. Len(s) \in Nat
  BY LenProperties
<1>2. I \subseteq Nat /\ I # {}
  OBVIOUS
<1> HIDE DEF I
<1>3. p \in I /\ \A y \in I : p <= y
  BY <1>2, MinIs
<1>4. SelectInSeq(s, LAMBDA v : v = e) = p
  BY <1>2 DEF SelectInSeq, I
<1>5. RemoveFirst(s, e) = SubSeq(s, 1, p - 1) \o SubSeq(s, p + 1, Len(s))
  BY <1>4 DEF RemoveFirst, RemoveAt
<1> HIDE DEF p
<1>6. p \in 1..Len(s) /\ s[p] = e /\ \A j \in 1..(p - 1) : s[j] # e
  BY <1>1, <1>3 DEF I
<1> DEFINE a == SubSeq(s, 1, p - 1)
           b == SubSeq(s, p + 1, Len(s))
<1>7. \A i \in 1..Len(s) : s[i] \in S
  BY ElementOfSeq
<1>8. a \in Seq(S) /\ Len(a) = p - 1 /\ \A i \in 1..(p - 1) : a[i] = s[i]
  <2>1. \A i \in 1..(p - 1) : s[i] \in S
    BY <1>1, <1>6, <1>7
  <2>2. 1 \in Int /\ p - 1 \in Int
    BY <1>6
  <2>3. /\ a \in Seq(S)
        /\ Len(a) = IF 1 <= p - 1 THEN (p - 1) - 1 + 1 ELSE 0
        /\ \A i \in 1..((p - 1) - 1 + 1) : a[i] = s[1 + i - 1]
    BY <2>1, <2>2, SubSeqProperties
  <2> HIDE DEF a
  <2> QED
    BY <1>6, <2>3
<1>9. b \in Seq(S) /\ Len(b) = Len(s) - p /\ \A i \in 1..(Len(s) - p) : b[i] = s[p + i]
  <2>1. \A i \in (p + 1)..Len(s) : s[i] \in S
    BY <1>1, <1>6, <1>7
  <2>2. p + 1 \in Int /\ Len(s) \in Int
    BY <1>1, <1>6
  <2>3. /\ b \in Seq(S)
        /\ Len(b) = IF p + 1 <= Len(s) THEN Len(s) - (p + 1) + 1 ELSE 0
        /\ \A i \in 1..(Len(s) - (p + 1) + 1) : b[i] = s[p + 1 + i - 1]
    BY <2>1, <2>2, SubSeqProperties
  <2> HIDE DEF b
  <2> QED
    BY <1>1, <1>6, <2>3
<1> HIDE DEF a, b
<1>10. /\ a \o b \in Seq(S) /\ Len(a \o b) = Len(a) + Len(b)
       /\ \A i \in 1..(Len(a) + Len(b)) : (a \o b)[i] = IF i <= Len(a) THEN a[i] ELSE b[i - Len(a)]
  BY <1>8, <1>9, ConcatProperties
<1>11. RemoveFirst(s, e) = a \o b
  BY <1>5 DEF a, b
<1>12. Len(s) - 1 = Len(a) + Len(b)
  BY <1>1, <1>6, <1>8, <1>9
<1>13. \A j \in 1..(Len(s) - 1) : (a \o b)[j] = IF j < p THEN s[j] ELSE s[j + 1]
  <2> SUFFICES ASSUME NEW j \in 1..(Len(s) - 1)
               PROVE  (a \o b)[j] = IF j < p THEN s[j] ELSE s[j + 1]
    OBVIOUS
  <2>1. (a \o b)[j] = IF j <= p - 1 THEN a[j] ELSE b[j - (p - 1)]
    BY <1>8, <1>10, <1>12
  <2>2. CASE j < p
    BY <1>1, <1>6, <1>8, <2>1, <2>2
  <2>3. CASE ~(j < p)
    <3>1. j - (p - 1) \in 1..(Len(s) - p) /\ p + (j - (p - 1)) = j + 1
      BY <1>1, <1>6, <2>3
    <3>2. b[j - (p - 1)] = s[p + (j - (p - 1))]
      BY <1>9, <3>1
    <3>3. ~(j <= p - 1)
      BY <1>1, <1>6, <2>3
    <3> QED
      BY <2>1, <2>3, <3>1, <3>2, <3>3
  <2> QED
    BY <2>2, <2>3
<1> QED
  BY <1>6, <1>10, <1>11, <1>12, <1>13 DEF Removed

---------------------------------------------------------------------------
(* Where the commands are *)

Words ==
    {"bypass", "load", "rule", "fallback", "route", "pin", "flushSel", "select", "flushOut",
     "appendOut", "append", "nat", "delBypass", "delete", "delRule", "flushTable", "delNat",
     "destroySets", "jump", "restore", "pinned", "proxysel", "directret", "sel", "tunnel",
     "direct", "proxy"}

AnyCmd == [c : Words, i : Nat \cup Words]

(* A command on its own. *)
LEMMA OneIs ==
    ASSUME NEW c \in Words
    PROVE  One(c) \in Seq(AnyCmd) /\ Len(One(c)) = 1 /\ One(c)[1] = Cmd(c, 1)
BY DEF One, Cmd, AnyCmd

(* What is where in the concatenation of two lists of commands. *)
LEMMA CatIs ==
    ASSUME NEW a \in Seq(AnyCmd), NEW b \in Seq(AnyCmd)
    PROVE  /\ a \o b \in Seq(AnyCmd) /\ Len(a \o b) = Len(a) + Len(b)
           /\ \A k \in 1..Len(a) : (a \o b)[k] = a[k]
           /\ \A k \in 1..Len(b) : (a \o b)[Len(a) + k] = b[k]
<1>1. Len(a) \in Nat /\ Len(b) \in Nat
  BY LenProperties
<1>2. /\ a \o b \in Seq(AnyCmd) /\ Len(a \o b) = Len(a) + Len(b)
      /\ \A k \in 1..(Len(a) + Len(b)) : (a \o b)[k] = IF k <= Len(a) THEN a[k] ELSE b[k - Len(a)]
  BY ConcatProperties
<1>3. ASSUME NEW k \in 1..Len(a) PROVE (a \o b)[k] = a[k]
  BY <1>1, <1>2
<1>4. ASSUME NEW k \in 1..Len(b) PROVE (a \o b)[Len(a) + k] = b[k]
  <2>1. Len(a) + k \in 1..(Len(a) + Len(b)) /\ ~(Len(a) + k <= Len(a)) /\ Len(a) + k - Len(a) = k
    BY <1>1
  <2> QED
    BY <1>2, <2>1
<1> QED
  BY <1>2, <1>3, <1>4

(* One command for each of the tunnels, three or two at a time. *)
LEMMA ForTunnelsIs ==
    ASSUME NEW n \in {2, 3}, NEW s \in Seq(Words), Len(s) = n
    PROVE  /\ ForTunnels(s) \in Seq(AnyCmd) /\ Len(ForTunnels(s)) = n * N
           /\ \A t \in 1..N : \A x \in 1..n :
                 ForTunnels(s)[n * t - n + x] = Cmd(s[x], t)
<1> DEFINE e(j) == Cmd(s[((j - 1) % n) + 1], ((j - 1) \div n) + 1)
           f == [j \in 1..(N * n) |-> e(j)]
<1>2. ForTunnels(s) = f
  BY DEF ForTunnels
<1>3. N \in Nat /\ N * n \in Nat /\ n * N \in Nat /\ n * N = N * n
  BY RoutingAssumption
<1>4. ASSUME NEW j \in 1..(N * n) PROVE e(j) \in AnyCmd
  <2>1. (j - 1) % n \in 0..(n - 1) /\ (j - 1) \div n \in Nat
    <3>1. CASE n = 2
      BY <1>3, <3>1
    <3>2. CASE n = 3
      BY <1>3, <3>2
    <3> QED
      BY <3>1, <3>2
  <2>2. ((j - 1) % n) + 1 \in 1..n /\ ((j - 1) \div n) + 1 \in Nat
    BY <2>1
  <2>3. s[((j - 1) % n) + 1] \in Words
    BY <2>2, ElementOfSeq
  <2> QED
    BY <2>2, <2>3 DEF Cmd, AnyCmd
<1>5. ASSUME NEW t \in 1..N, NEW x \in 1..n
      PROVE  /\ n * t - n + x \in 1..(N * n)
             /\ (((n * t - n + x) - 1) % n) + 1 = x
             /\ (((n * t - n + x) - 1) \div n) + 1 = t
  <2>1. CASE n = 2
    BY <1>3, <2>1
  <2>2. CASE n = 3
    BY <1>3, <2>2
  <2> QED
    BY <2>1, <2>2
<1>6. f \in Seq(AnyCmd) /\ Len(f) = N * n
  BY <1>3, <1>4
<1>7. ASSUME NEW t \in 1..N, NEW x \in 1..n PROVE f[n * t - n + x] = Cmd(s[x], t)
  <2> DEFINE j == n * t - n + x
  <2>1. f[j] = e(j)
    BY <1>5
  <2>2. ((j - 1) % n) + 1 = x /\ ((j - 1) \div n) + 1 = t
    BY <1>5
  <2> QED
    BY <2>1, <2>2
<1> QED
  BY <1>2, <1>3, <1>6, <1>7

(* What Setup and Teardown do in every mode, before and after the rest. *)
SetsUp(L, m) ==
    /\ L \in Seq(AnyCmd) /\ Len(L) = Len(m) + 3
    /\ L[1] = Cmd("bypass", 1) /\ L[2] = Cmd("load", 1) /\ L[Len(m) + 3] = Cmd("nat", 1)
    /\ \A k \in 1..Len(m) : L[k + 2] = m[k]

TearsDown(L, m) ==
    /\ L \in Seq(AnyCmd) /\ Len(L) = Len(m) + 3
    /\ L[1] = Cmd("delBypass", 1)
    /\ L[Len(m) + 2] = Cmd("delNat", 1) /\ L[Len(m) + 3] = Cmd("destroySets", 1)
    /\ \A k \in 1..Len(m) : L[k + 1] = m[k]

(* Where the commands around the rest are in Setup. *)
LEMMA SetupWrap ==
    ASSUME NEW m \in Seq(AnyCmd), NEW L, L = One("bypass") \o One("load") \o m \o One("nat")
    PROVE  SetsUp(L, m)
<1> DEFINE b == One("bypass")
           l == One("load")
           n == One("nat")
           x == b \o l
           y == x \o m
<1>0. Len(m) \in Nat
  BY LenProperties
<1>1. /\ b \in Seq(AnyCmd) /\ Len(b) = 1 /\ b[1] = Cmd("bypass", 1)
      /\ l \in Seq(AnyCmd) /\ Len(l) = 1 /\ l[1] = Cmd("load", 1)
      /\ n \in Seq(AnyCmd) /\ Len(n) = 1 /\ n[1] = Cmd("nat", 1)
  BY OneIs DEF Words
<1>2. L = y \o n
  OBVIOUS
<1> HIDE DEF b, l, n
<1>3. /\ x \in Seq(AnyCmd) /\ Len(x) = Len(b) + Len(l)
      /\ \A k \in 1..Len(b) : x[k] = b[k]
      /\ \A k \in 1..Len(l) : x[Len(b) + k] = l[k]
  BY <1>1, CatIs
<1>4. Len(x) = 2 /\ x[1] = Cmd("bypass", 1) /\ x[2] = Cmd("load", 1)
  BY <1>1, <1>3
<1> HIDE DEF x
<1>5. /\ y \in Seq(AnyCmd) /\ Len(y) = Len(x) + Len(m)
      /\ \A k \in 1..Len(x) : y[k] = x[k]
      /\ \A k \in 1..Len(m) : y[Len(x) + k] = m[k]
  BY <1>3, CatIs
<1> HIDE DEF y
<1>a. /\ y \o n \in Seq(AnyCmd) /\ Len(y \o n) = Len(y) + Len(n)
      /\ \A k \in 1..Len(y) : (y \o n)[k] = y[k]
      /\ \A k \in 1..Len(n) : (y \o n)[Len(y) + k] = n[k]
  BY <1>1, <1>5, CatIs
<1>6. /\ L \in Seq(AnyCmd) /\ Len(L) = Len(y) + Len(n)
      /\ \A k \in 1..Len(y) : L[k] = y[k]
      /\ \A k \in 1..Len(n) : L[Len(y) + k] = n[k]
  BY <1>2, <1>a, Zenon
<1>7. Len(y) = Len(m) + 2 /\ Len(L) = Len(m) + 3
  BY <1>0, <1>1, <1>4, <1>5, <1>6
<1>8. L[1] = Cmd("bypass", 1) /\ L[2] = Cmd("load", 1)
  <2>1. 1 \in 1..Len(x) /\ 2 \in 1..Len(x) /\ 1 \in 1..Len(y) /\ 2 \in 1..Len(y)
    BY <1>0, <1>4, <1>7
  <2> QED
    BY <1>4, <1>5, <1>6, <2>1, Zenon
<1>9. L[Len(m) + 3] = Cmd("nat", 1)
  BY <1>0, <1>1, <1>6, <1>7, SMTT(30)
<1>10. ASSUME NEW k \in 1..Len(m) PROVE L[k + 2] = m[k]
  <2>1. k + 2 \in 1..Len(y) /\ k + 2 = Len(x) + k
    BY <1>0, <1>4, <1>7
  <2> QED
    BY <1>5, <1>6, <2>1
<1> QED
  BY <1>6, <1>7, <1>8, <1>9, <1>10 DEF SetsUp

(* The same of Teardown. *)
LEMMA TeardownWrap ==
    ASSUME NEW m \in Seq(AnyCmd), NEW L,
           L = One("delBypass") \o m \o One("delNat") \o One("destroySets")
    PROVE  TearsDown(L, m)
<1> DEFINE b == One("delBypass")
           n == One("delNat")
           d == One("destroySets")
           x == b \o m
           y == x \o n
<1>0. Len(m) \in Nat
  BY LenProperties
<1>1. /\ b \in Seq(AnyCmd) /\ Len(b) = 1 /\ b[1] = Cmd("delBypass", 1)
      /\ n \in Seq(AnyCmd) /\ Len(n) = 1 /\ n[1] = Cmd("delNat", 1)
      /\ d \in Seq(AnyCmd) /\ Len(d) = 1 /\ d[1] = Cmd("destroySets", 1)
  BY OneIs DEF Words
<1>2. L = y \o d
  OBVIOUS
<1> HIDE DEF b, n, d
<1>3. /\ x \in Seq(AnyCmd) /\ Len(x) = Len(b) + Len(m)
      /\ \A k \in 1..Len(b) : x[k] = b[k]
      /\ \A k \in 1..Len(m) : x[Len(b) + k] = m[k]
  BY <1>1, CatIs
<1> HIDE DEF x
<1>5. /\ y \in Seq(AnyCmd) /\ Len(y) = Len(x) + Len(n)
      /\ \A k \in 1..Len(x) : y[k] = x[k]
      /\ \A k \in 1..Len(n) : y[Len(x) + k] = n[k]
  BY <1>1, <1>3, CatIs
<1> HIDE DEF y
<1>a. /\ y \o d \in Seq(AnyCmd) /\ Len(y \o d) = Len(y) + Len(d)
      /\ \A k \in 1..Len(y) : (y \o d)[k] = y[k]
      /\ \A k \in 1..Len(d) : (y \o d)[Len(y) + k] = d[k]
  BY <1>1, <1>5, CatIs
<1>6. /\ L \in Seq(AnyCmd) /\ Len(L) = Len(y) + Len(d)
      /\ \A k \in 1..Len(y) : L[k] = y[k]
      /\ \A k \in 1..Len(d) : L[Len(y) + k] = d[k]
  BY <1>2, <1>a, Zenon
<1>7. Len(x) = Len(m) + 1 /\ Len(y) = Len(m) + 2 /\ Len(L) = Len(m) + 3
  BY <1>0, <1>1, <1>3, <1>5, <1>6
<1>8. L[1] = Cmd("delBypass", 1)
  <2>1. 1 \in 1..Len(b) /\ 1 \in 1..Len(x) /\ 1 \in 1..Len(y)
    BY <1>0, <1>1, <1>7
  <2> QED
    BY <1>1, <1>3, <1>5, <1>6, <2>1, Zenon
<1>9. L[Len(m) + 3] = Cmd("destroySets", 1)
  <2>1. 1 \in 1..Len(d) /\ Len(y) + 1 = Len(m) + 3
    BY <1>0, <1>1, <1>7
  <2>2. L[Len(y) + 1] = d[1]
    BY <1>6, <2>1, Zenon
  <2> QED
    BY <1>1, <2>1, <2>2, Zenon
<1>10. L[Len(m) + 2] = Cmd("delNat", 1)
  <2>1. y[Len(x) + 1] = n[1] /\ Len(x) + 1 = Len(m) + 2 /\ Len(m) + 2 \in 1..Len(y)
    BY <1>0, <1>1, <1>5, <1>7
  <2> QED
    BY <1>1, <1>6, <2>1
<1>11. ASSUME NEW k \in 1..Len(m) PROVE L[k + 1] = m[k]
  <2>1. k + 1 \in 1..Len(x) /\ k + 1 = Len(b) + k /\ k + 1 \in 1..Len(y)
    BY <1>0, <1>1, <1>7
  <2> QED
    <3>1. L[k + 1] = x[k + 1]
      BY <1>5, <1>6, <2>1, Zenon
    <3>2. x[Len(b) + k] = m[k]
      BY <1>3, Zenon
    <3> QED
      BY <2>1, <3>1, <3>2, Zenon
<1> QED
  BY <1>6, <1>7, <1>8, <1>9, <1>10, <1>11 DEF TearsDown

(* The mangle rules that Setup appends and Teardown deletes, in their order. *)
Rules == IF mode = "transit" THEN <<"jump">> ELSE WGRules

NRules == IF mode = "transit" THEN 1 ELSE IF mode = "sticky" THEN 5 ELSE 3

Names ==
    IF mode = "transit" THEN {"jump"}
    ELSE IF mode = "sticky" THEN {"restore", "pinned", "proxysel", "directret", "sel"}
    ELSE {"tunnel", "direct", "proxy"}

(* The rules of each mode, one by one. *)
LEMMA RulesAre ==
    /\ mode = "transit" => Rules[1] = "jump"
    /\ mode = "sticky" => /\ Rules[1] = "restore" /\ Rules[2] = "pinned" /\ Rules[3] = "proxysel"
                          /\ Rules[4] = "directret" /\ Rules[5] = "sel"
    /\ mode \notin {"transit", "sticky"} => /\ Rules[1] = "tunnel" /\ Rules[2] = "direct"
                                            /\ Rules[3] = "proxy"
    /\ Rules \in Seq(Words) /\ Len(Rules) = NRules
<1>1. mode = "transit" => Rules = <<"jump">>
  BY DEF Rules
<1>2. mode = "sticky" => Rules = <<"restore", "pinned", "proxysel", "directret", "sel">>
  BY DEF Rules, WGRules, StickyRules
<1>3. mode \notin {"transit", "sticky"} => Rules = <<"tunnel", "direct", "proxy">>
  BY DEF Rules, WGRules
<1>4. <<"jump">> \in Seq(Words) /\ Len(<<"jump">>) = 1 /\ <<"jump">>[1] = "jump"
  BY DEF Words
<1> DEFINE s == <<"restore", "pinned", "proxysel", "directret", "sel">>
           t == <<"tunnel", "direct", "proxy">>
<1>5. /\ s \in Seq(Words) /\ Len(s) = 5
      /\ s[1] = "restore" /\ s[2] = "pinned" /\ s[3] = "proxysel"
      /\ s[4] = "directret" /\ s[5] = "sel"
  BY DEF Words
<1>6. /\ t \in Seq(Words) /\ Len(t) = 3
      /\ t[1] = "tunnel" /\ t[2] = "direct" /\ t[3] = "proxy"
  BY DEF Words
<1> HIDE DEF s, t
<1>7. CASE mode = "transit"
  <2>1. Rules \in Seq(Words) /\ Len(Rules) = NRules /\ Rules[1] = "jump"
    BY <1>1, <1>4, <1>7 DEF NRules
  <2> QED
    BY <1>7, <2>1
<1>8. CASE mode = "sticky"
  <2>1. Rules = s
    BY <1>2, <1>8 DEF s
  <2> QED
    BY <1>5, <1>8, <2>1 DEF NRules
<1>9. CASE mode \notin {"transit", "sticky"}
  <2>1. Rules = t
    BY <1>3, <1>9 DEF t
  <2> QED
    BY <1>6, <1>9, <2>1 DEF NRules
<1> QED
  BY <1>7, <1>8, <1>9

(* The same, rule by rule. *)
LEMMA RuleNames ==
    /\ NRules \in Nat /\ NRules > 0
    /\ \A a \in 1..NRules : Rules[a] \in Names
    /\ \A a, b \in 1..NRules : Rules[a] = Rules[b] => a = b
<1>1. CASE mode = "transit"
  BY <1>1, RulesAre DEF NRules, Names
<1>2. CASE mode = "sticky"
  <2>1. \A a \in 1..NRules : a \in {1, 2, 3, 4, 5}
    BY <1>2 DEF NRules
  <2>2. \A a \in {1, 2, 3, 4, 5} : Rules[a] \in Names
    BY <1>2, RulesAre DEF Names
  <2>3. \A a, b \in {1, 2, 3, 4, 5} : Rules[a] = Rules[b] => a = b
    BY <1>2, RulesAre
  <2> QED
    BY <1>2, <2>1, <2>2, <2>3 DEF NRules
<1>3. CASE mode \notin {"transit", "sticky"}
  <2>1. \A a \in 1..NRules : a \in {1, 2, 3}
    BY <1>3 DEF NRules
  <2>2. \A a \in {1, 2, 3} : Rules[a] \in Names
    BY <1>3, RulesAre DEF Names
  <2>3. \A a, b \in {1, 2, 3} : Rules[a] = Rules[b] => a = b
    BY <1>3, RulesAre
  <2> QED
    BY <1>3, <2>1, <2>2, <2>3 DEF NRules
<1> QED
  BY <1>1, <1>2, <1>3

(* The list m is the three lists, one after the other. *)
Joins3(m, a, b, c) ==
    /\ m \in Seq(AnyCmd) /\ Len(m) = Len(a) + Len(b) + Len(c)
    /\ \A k \in 1..Len(a) : m[k] = a[k]
    /\ \A k \in 1..Len(b) : m[Len(a) + k] = b[k]
    /\ \A k \in 1..Len(c) : m[Len(a) + Len(b) + k] = c[k]

(* The same for three lists, and for four. *)
LEMMA Cat3Is ==
    ASSUME NEW a \in Seq(AnyCmd), NEW b \in Seq(AnyCmd), NEW c \in Seq(AnyCmd)
    PROVE  Joins3(a \o b \o c, a, b, c)
<1>1. Len(a) \in Nat /\ Len(b) \in Nat /\ Len(c) \in Nat
  BY LenProperties
<1> DEFINE x == a \o b
<1>2. /\ x \in Seq(AnyCmd) /\ Len(x) = Len(a) + Len(b)
      /\ \A k \in 1..Len(a) : x[k] = a[k]
      /\ \A k \in 1..Len(b) : x[Len(a) + k] = b[k]
  BY CatIs
<1> HIDE DEF x
<1> DEFINE y == x \o c
<1>3. /\ y \in Seq(AnyCmd) /\ Len(y) = Len(x) + Len(c)
      /\ \A k \in 1..Len(x) : y[k] = x[k]
      /\ \A k \in 1..Len(c) : y[Len(x) + k] = c[k]
  BY <1>2, CatIs
<1> HIDE DEF y
<1>4. \A k \in 1..Len(a) : y[k] = a[k]
  BY <1>1, <1>2, <1>3
<1>5. ASSUME NEW k \in 1..Len(b) PROVE y[Len(a) + k] = b[k]
  <2>1. Len(a) + k \in 1..Len(x)
    BY <1>1, <1>2
  <2> QED
    BY <1>2, <1>3, <2>1, Zenon
<1>6. \A k \in 1..Len(c) : y[Len(a) + Len(b) + k] = c[k]
  BY <1>2, <1>3, Zenon
<1>7. a \o b \o c = y
  BY DEF x, y
<1>8. Len(y) = Len(a) + Len(b) + Len(c)
  BY <1>2, <1>3, Zenon
<1> QED
  BY <1>3, <1>4, <1>5, <1>6, <1>7, <1>8, Zenon DEF Joins3

Joins(m, a, b, c, d) ==
    /\ m \in Seq(AnyCmd) /\ Len(m) = Len(a) + Len(b) + Len(c) + Len(d)
    /\ \A k \in 1..Len(a) : m[k] = a[k]
    /\ \A k \in 1..Len(b) : m[Len(a) + k] = b[k]
    /\ \A k \in 1..Len(c) : m[Len(a) + Len(b) + k] = c[k]
    /\ \A k \in 1..Len(d) : m[Len(a) + Len(b) + Len(c) + k] = d[k]

(* The same of four lists. *)
LEMMA Cat4Is ==
    ASSUME NEW a \in Seq(AnyCmd), NEW b \in Seq(AnyCmd), NEW c \in Seq(AnyCmd),
           NEW d \in Seq(AnyCmd)
    PROVE  Joins(a \o b \o c \o d, a, b, c, d)
<1>1. Len(a) \in Nat /\ Len(b) \in Nat /\ Len(c) \in Nat /\ Len(d) \in Nat
  BY LenProperties
<1> DEFINE x == a \o b \o c
<1>2. /\ x \in Seq(AnyCmd) /\ Len(x) = Len(a) + Len(b) + Len(c)
      /\ \A k \in 1..Len(a) : x[k] = a[k]
      /\ \A k \in 1..Len(b) : x[Len(a) + k] = b[k]
      /\ \A k \in 1..Len(c) : x[Len(a) + Len(b) + k] = c[k]
  <2>1. Joins3(x, a, b, c)
    BY Cat3Is
  <2> HIDE DEF x
  <2> QED
    BY <2>1 DEF Joins3
<1> HIDE DEF x
<1> DEFINE y == x \o d
<1>3. /\ y \in Seq(AnyCmd) /\ Len(y) = Len(x) + Len(d)
      /\ \A k \in 1..Len(x) : y[k] = x[k]
      /\ \A k \in 1..Len(d) : y[Len(x) + k] = d[k]
  BY <1>2, CatIs
<1> HIDE DEF y
<1>4. \A k \in 1..Len(a) : y[k] = a[k]
  BY <1>1, <1>2, <1>3
<1>5. ASSUME NEW k \in 1..Len(b) PROVE y[Len(a) + k] = b[k]
  <2>1. Len(a) + k \in 1..Len(x)
    BY <1>1, <1>2
  <2> QED
    BY <1>2, <1>3, <2>1, Zenon
<1>6. ASSUME NEW k \in 1..Len(c) PROVE y[Len(a) + Len(b) + k] = c[k]
  <2>1. Len(a) + Len(b) + k \in 1..Len(x)
    BY <1>1, <1>2
  <2> QED
    BY <1>2, <1>3, <2>1, Zenon
<1>7. \A k \in 1..Len(d) : y[Len(a) + Len(b) + Len(c) + k] = d[k]
  BY <1>2, <1>3, Zenon
<1>8. a \o b \o c \o d = y
  BY DEF x, y
<1>9. Len(y) = Len(a) + Len(b) + Len(c) + Len(d)
  BY <1>2, <1>3, Zenon
<1> QED
  BY <1>3, <1>4, <1>5, <1>6, <1>7, <1>8, <1>9, Zenon DEF Joins

(* One command per rule. *)
LEMMA PerRule ==
    ASSUME NEW s \in Seq(Words), NEW c \in Words
    PROVE  LET f == [j \in DOMAIN s |-> Cmd(c, s[j])]
           IN  f \in Seq(AnyCmd) /\ Len(f) = Len(s) /\ \A k \in 1..Len(s) : f[k] = Cmd(c, s[k])
<1>1. Len(s) \in Nat /\ DOMAIN s = 1..Len(s)
  BY LenProperties
<1>2. \A j \in 1..Len(s) : Cmd(c, s[j]) \in AnyCmd
  BY ElementOfSeq DEF Cmd, AnyCmd
<1> QED
  BY <1>1, <1>2

(* The commands that append, or delete, the rules of a list. *)
LEMMA AppendDelete ==
    ASSUME NEW s \in Seq(Words)
    PROVE  /\ Append2(s) \in Seq(AnyCmd) /\ Len(Append2(s)) = Len(s)
           /\ \A k \in 1..Len(s) : Append2(s)[k] = Cmd("append", s[k])
           /\ Delete2(s) \in Seq(AnyCmd) /\ Len(Delete2(s)) = Len(s)
           /\ \A k \in 1..Len(s) : Delete2(s)[k] = Cmd("delete", s[k])
<1>1. "append" \in Words /\ "delete" \in Words
  BY DEF Words
<1> QED
  BY <1>1, PerRule DEF Append2, Delete2

(* The number of tables, and the places of the commands in the two lists:  *)
(* the rules follow place SetupMangle in Setup and TeardownMangle in       *)
(* Teardown, the tables SetupTables and TeardownTables.                    *)
NTables == IF mode = "sticky" THEN N ELSE 1

SetupLen == IF mode = "sticky" THEN 3 * N + 10 ELSE IF mode = "transit" THEN 11 ELSE 9
SetupMangle == IF mode = "sticky" THEN 3 * N + 4 ELSE IF mode = "transit" THEN 6 ELSE 2
SetupTables == IF mode = "sticky" THEN 2 ELSE IF mode = "transit" THEN 7 ELSE 5

TeardownLen == IF mode = "sticky" THEN 2 * N + 9 ELSE IF mode = "transit" THEN 7 ELSE 8
TeardownMangle == IF mode = "sticky" THEN 1 ELSE 3
TeardownTables == IF mode = "sticky" THEN 7 ELSE 1

KnownMode == mode \in {"ecmp", "transit", "sticky"}

(* Where RoutingCmds has the commands of each table. *)
LEMMA RoutingLayout ==
    /\ RoutingCmds \in Seq(AnyCmd) /\ Len(RoutingCmds) = 3 * NTables
    /\ \A t \in 1..NTables :
          /\ RoutingCmds[3 * t - 2] = Cmd("rule", t)
          /\ RoutingCmds[3 * t - 1] = Cmd("fallback", t)
          /\ RoutingCmds[3 * t] = Cmd(IF mode = "sticky" THEN "pin" ELSE "route", t)
<1>1. CASE mode = "sticky"
  <2> DEFINE s == <<"rule", "fallback", "pin">>
             f == ForTunnels(s)
  <2>1. s \in Seq(Words) /\ Len(s) = 3 /\ s[1] = "rule" /\ s[2] = "fallback" /\ s[3] = "pin"
    BY DEF Words
  <2> HIDE DEF s
  <2>2. /\ f \in Seq(AnyCmd) /\ Len(f) = 3 * N
        /\ \A t \in 1..N : \A x \in 1..3 : f[3 * t - 3 + x] = Cmd(s[x], t)
    BY <2>1, ForTunnelsIs
  <2> HIDE DEF f
  <2>3. ASSUME NEW t \in 1..N
        PROVE  f[3 * t - 2] = Cmd("rule", t) /\ f[3 * t - 1] = Cmd("fallback", t)
               /\ f[3 * t] = Cmd("pin", t)
    <3>1. /\ 3 * t - 3 + 1 = 3 * t - 2 /\ 3 * t - 3 + 2 = 3 * t - 1 /\ 3 * t - 3 + 3 = 3 * t
          /\ 1 \in 1..3 /\ 2 \in 1..3 /\ 3 \in 1..3
      BY RoutingAssumption
    <3>2. f[3 * t - 3 + 1] = Cmd(s[1], t) /\ f[3 * t - 3 + 2] = Cmd(s[2], t)
          /\ f[3 * t - 3 + 3] = Cmd(s[3], t)
      BY <2>2, <3>1
    <3> QED
      BY <2>1, <3>1, <3>2
  <2>4. RoutingCmds = f
    BY <1>1 DEF RoutingCmds, f, s
  <2>5. NTables = N
    BY <1>1 DEF NTables
  <2> QED
    BY <1>1, <2>2, <2>3, <2>4, <2>5
<1>2. CASE mode # "sticky"
  <2> DEFINE a == One("rule")
             b == One("fallback")
             c == One("route")
             f == a \o b \o c
  <2>1. /\ a \in Seq(AnyCmd) /\ Len(a) = 1 /\ a[1] = Cmd("rule", 1)
        /\ b \in Seq(AnyCmd) /\ Len(b) = 1 /\ b[1] = Cmd("fallback", 1)
        /\ c \in Seq(AnyCmd) /\ Len(c) = 1 /\ c[1] = Cmd("route", 1)
    BY OneIs DEF Words
  <2>2. RoutingCmds = f
    BY <1>2 DEF RoutingCmds
  <2> HIDE DEF a, b, c
  <2>3. /\ f \in Seq(AnyCmd) /\ Len(f) = Len(a) + Len(b) + Len(c)
        /\ \A k \in 1..Len(a) : f[k] = a[k]
        /\ \A k \in 1..Len(b) : f[Len(a) + k] = b[k]
        /\ \A k \in 1..Len(c) : f[Len(a) + Len(b) + k] = c[k]
    <3>1. Joins3(f, a, b, c)
      BY <2>1, Cat3Is
    <3> HIDE DEF f
    <3> QED
      BY <3>1 DEF Joins3
  <2> HIDE DEF f
  <2>4. Len(f) = 3 /\ f[1] = Cmd("rule", 1) /\ f[2] = Cmd("fallback", 1) /\ f[3] = Cmd("route", 1)
    BY <2>1, <2>3
  <2>5. NTables = 1
    BY <1>2 DEF NTables
  <2>6. \A t \in 1..NTables : t = 1 /\ 3 * t - 2 = 1 /\ 3 * t - 1 = 2 /\ 3 * t = 3
    BY <2>5
  <2>7. (IF mode = "sticky" THEN "pin" ELSE "route") = "route"
    BY <1>2
  <2>8. Len(f) = 3 * NTables
    BY <2>4, <2>5
  <2>9. \A t \in 1..NTables : f[3 * t - 2] = Cmd("rule", t) /\ f[3 * t - 1] = Cmd("fallback", t)
                             /\ f[3 * t] = Cmd("route", t)
    BY <2>4, <2>6, Zenon
  <2> QED
    BY <2>2, <2>3, <2>7, <2>8, <2>9, Zenon
<1> QED
  BY <1>1, <1>2

(* Where the commands of Setup are. *)
LEMMA SetupLayout ==
    ASSUME KnownMode
    PROVE  /\ SetupCmds \in Seq(AnyCmd) /\ Len(SetupCmds) = SetupLen
           /\ SetupCmds[1] = Cmd("bypass", 1) /\ SetupCmds[2] = Cmd("load", 1)
           /\ SetupCmds[SetupLen] = Cmd("nat", 1)
           /\ \A a \in 1..NRules : SetupCmds[SetupMangle + a] = Cmd("append", Rules[a])
           /\ \A t \in 1..NTables :
                 /\ SetupCmds[SetupTables + (3 * t - 2)] = Cmd("rule", t)
                 /\ SetupCmds[SetupTables + (3 * t - 1)] = Cmd("fallback", t)
                 /\ SetupCmds[SetupTables + 3 * t] =
                       Cmd(IF mode = "sticky" THEN "pin" ELSE "route", t)
           /\ mode = "transit" =>
                 /\ SetupCmds[3] = Cmd("flushOut", 1)
                 /\ \A a \in 1..3 : SetupCmds[3 + a] = Cmd("appendOut", OutRules[a])
           /\ mode = "sticky" => /\ SetupCmds[3 * N + 3] = Cmd("flushSel", 1)
                                 /\ SetupCmds[3 * N + 4] = Cmd("select", 1)
<1> DEFINE r == RoutingCmds
           w == Append2(Rules)
           L == SetupCmds
<1>1. /\ r \in Seq(AnyCmd) /\ Len(r) = 3 * NTables
      /\ \A t \in 1..NTables : /\ r[3 * t - 2] = Cmd("rule", t)
                               /\ r[3 * t - 1] = Cmd("fallback", t)
                               /\ r[3 * t] = Cmd(IF mode = "sticky" THEN "pin" ELSE "route", t)
  BY RoutingLayout
<1>2. /\ w \in Seq(AnyCmd) /\ Len(w) = NRules
      /\ \A a \in 1..NRules : w[a] = Cmd("append", Rules[a])
  BY RulesAre, AppendDelete, Zenon
<1>n. N \in Nat
  BY RoutingAssumption
<1>3. CASE mode = "ecmp"
  <2> DEFINE m == w \o r
  <2>1. Rules = WGRules
    BY <1>3 DEF Rules
  <2>2. L = One("bypass") \o One("load") \o m \o One("nat")
    BY <1>3, <2>1 DEF SetupCmds
  <2> HIDE DEF r, w, L
  <2>3. /\ m \in Seq(AnyCmd) /\ Len(m) = Len(w) + Len(r)
        /\ \A k \in 1..Len(w) : m[k] = w[k]
        /\ \A k \in 1..Len(r) : m[Len(w) + k] = r[k]
    BY <1>1, <1>2, CatIs
  <2> HIDE DEF m
  <2>4. /\ L \in Seq(AnyCmd) /\ Len(L) = Len(m) + 3
        /\ L[1] = Cmd("bypass", 1) /\ L[2] = Cmd("load", 1) /\ L[Len(m) + 3] = Cmd("nat", 1)
        /\ \A k \in 1..Len(m) : L[k + 2] = m[k]
    <3>1. m \in Seq(AnyCmd)
      BY <2>3
    <3>2. SetsUp(L, m)
      BY <2>2, <3>1, SetupWrap
    <3> QED
      BY <3>2 DEF SetsUp
  <2>5. NRules = 3 /\ NTables = 1 /\ SetupMangle = 2 /\ SetupTables = 5 /\ SetupLen = 9
    BY <1>3 DEF NRules, NTables, SetupMangle, SetupTables, SetupLen
  <2>6. Len(w) = 3 /\ Len(r) = 3 /\ Len(m) = 6
    BY <1>1, <1>2, <2>3, <2>5
  <2>7. ASSUME NEW a \in 1..NRules PROVE L[SetupMangle + a] = Cmd("append", Rules[a])
    <3>1. a \in 1..Len(m) /\ a \in 1..Len(w) /\ SetupMangle + a = a + 2
      BY <2>5, <2>6
    <3> QED
      BY <1>2, <2>3, <2>4, <3>1, Zenon
  <2>8. ASSUME NEW k \in 1..3 PROVE L[SetupTables + k] = r[k]
    <3>1. /\ Len(w) + k \in 1..Len(m) /\ k \in 1..Len(r)
          /\ SetupTables + k = (Len(w) + k) + 2
      BY <2>5, <2>6
    <3> QED
      BY <2>3, <2>4, <3>1, Zenon
  <2>9. \A t \in 1..NTables : 3 * t - 2 \in 1..3 /\ 3 * t - 1 \in 1..3 /\ 3 * t \in 1..3
    BY <2>5
  <2>10. L[SetupLen] = Cmd("nat", 1) /\ Len(L) = SetupLen
    <3>1. Len(m) + 3 = SetupLen
      BY <2>5, <2>6
    <3> QED
      BY <2>4, <3>1, Zenon
  <2>11. mode # "sticky" /\ mode # "transit"
    BY <1>3
  <2>12. L = SetupCmds
    BY DEF L
  <2>13. \A t \in 1..NTables :
            /\ L[SetupTables + (3 * t - 2)] = Cmd("rule", t)
            /\ L[SetupTables + (3 * t - 1)] = Cmd("fallback", t)
            /\ L[SetupTables + 3 * t] = Cmd(IF mode = "sticky" THEN "pin" ELSE "route", t)
    BY <1>1, <2>8, <2>9, Zenon
  <2> QED
    BY <2>4, <2>7, <2>10, <2>11, <2>12, <2>13, Zenon
<1>4. CASE mode = "transit"
  <2> DEFINE f == One("flushOut")
             o == [j \in DOMAIN OutRules |-> Cmd("appendOut", OutRules[j])]
             m == f \o o \o w \o r
  <2>1. Rules = <<"jump">>
    BY <1>4 DEF Rules
  <2>2. L = One("bypass") \o One("load") \o m \o One("nat")
    BY <1>4, <2>1 DEF SetupCmds
  <2>3. f \in Seq(AnyCmd) /\ Len(f) = 1 /\ f[1] = Cmd("flushOut", 1)
    BY OneIs DEF Words
  <2>4. o \in Seq(AnyCmd) /\ Len(o) = 3 /\ \A a \in 1..3 : o[a] = Cmd("appendOut", OutRules[a])
    <3>1. OutRules \in Seq(Words) /\ Len(OutRules) = 3 /\ "appendOut" \in Words
      BY DEF OutRules, Words
    <3> QED
      BY <3>1, PerRule
  <2> HIDE DEF r, w, L, f, o
  <2>5. /\ m \in Seq(AnyCmd) /\ Len(m) = Len(f) + Len(o) + Len(w) + Len(r)
        /\ \A k \in 1..Len(f) : m[k] = f[k]
        /\ \A k \in 1..Len(o) : m[Len(f) + k] = o[k]
        /\ \A k \in 1..Len(w) : m[Len(f) + Len(o) + k] = w[k]
        /\ \A k \in 1..Len(r) : m[Len(f) + Len(o) + Len(w) + k] = r[k]
    <3>1. f \in Seq(AnyCmd) /\ o \in Seq(AnyCmd) /\ w \in Seq(AnyCmd) /\ r \in Seq(AnyCmd)
      BY <1>1, <1>2, <2>3, <2>4
    <3>2. Joins(m, f, o, w, r)
      BY <3>1, Cat4Is
    <3> QED
      BY <3>2 DEF Joins
  <2> HIDE DEF m
  <2>6. /\ L \in Seq(AnyCmd) /\ Len(L) = Len(m) + 3
        /\ L[1] = Cmd("bypass", 1) /\ L[2] = Cmd("load", 1) /\ L[Len(m) + 3] = Cmd("nat", 1)
        /\ \A k \in 1..Len(m) : L[k + 2] = m[k]
    <3>1. m \in Seq(AnyCmd)
      BY <2>5
    <3>2. SetsUp(L, m)
      BY <2>2, <3>1, SetupWrap
    <3> QED
      BY <3>2 DEF SetsUp
  <2>7. NRules = 1 /\ NTables = 1 /\ SetupMangle = 6 /\ SetupTables = 7 /\ SetupLen = 11
    BY <1>4 DEF NRules, NTables, SetupMangle, SetupTables, SetupLen
  <2>8. Len(w) = 1 /\ Len(r) = 3 /\ Len(m) = 8
    BY <1>1, <1>2, <2>3, <2>4, <2>5, <2>7
  <2>9. ASSUME NEW a \in 1..NRules PROVE L[SetupMangle + a] = Cmd("append", Rules[a])
    <3>1. /\ Len(f) + Len(o) + a \in 1..Len(m) /\ a \in 1..Len(w)
          /\ SetupMangle + a = (Len(f) + Len(o) + a) + 2
      BY <2>3, <2>4, <2>7, <2>8
    <3>2. m[Len(f) + Len(o) + a] = w[a]
      BY <2>5, <3>1, Zenon
    <3>3. L[(Len(f) + Len(o) + a) + 2] = m[Len(f) + Len(o) + a]
      BY <2>6, <3>1, Zenon
    <3>4. w[a] = Cmd("append", Rules[a])
      BY <1>2, Zenon
    <3> QED
      BY <3>1, <3>2, <3>3, <3>4, Zenon
  <2>10. ASSUME NEW k \in 1..3 PROVE L[SetupTables + k] = r[k]
    <3>1. /\ Len(f) + Len(o) + Len(w) + k \in 1..Len(m) /\ k \in 1..Len(r)
          /\ SetupTables + k = (Len(f) + Len(o) + Len(w) + k) + 2
      BY <2>3, <2>4, <2>7, <2>8
    <3> QED
      BY <2>5, <2>6, <3>1, Zenon
  <2>11. \A t \in 1..NTables : 3 * t - 2 \in 1..3 /\ 3 * t - 1 \in 1..3 /\ 3 * t \in 1..3
    BY <2>7
  <2>12. L[SetupLen] = Cmd("nat", 1) /\ Len(L) = SetupLen
    <3>1. Len(m) + 3 = SetupLen
      BY <2>7, <2>8
    <3> QED
      BY <2>6, <3>1, Zenon
  <2>13. \A t \in 1..NTables :
            /\ L[SetupTables + (3 * t - 2)] = Cmd("rule", t)
            /\ L[SetupTables + (3 * t - 1)] = Cmd("fallback", t)
            /\ L[SetupTables + 3 * t] = Cmd(IF mode = "sticky" THEN "pin" ELSE "route", t)
    BY <1>1, <2>10, <2>11, Zenon
  <2>14. L[3] = Cmd("flushOut", 1)
    <3>1. 1 \in 1..Len(m) /\ 1 \in 1..Len(f) /\ 3 = 1 + 2
      BY <2>3, <2>8
    <3> QED
      BY <2>3, <2>5, <2>6, <3>1, Zenon
  <2>15. ASSUME NEW a \in 1..3 PROVE L[3 + a] = Cmd("appendOut", OutRules[a])
    <3>1. Len(f) + a \in 1..Len(m) /\ a \in 1..Len(o) /\ 3 + a = (Len(f) + a) + 2
      BY <2>3, <2>4, <2>8
    <3>2. m[Len(f) + a] = o[a] /\ L[(Len(f) + a) + 2] = m[Len(f) + a]
      BY <2>5, <2>6, <3>1, Zenon
    <3> QED
      BY <2>4, <3>1, <3>2, Zenon
  <2>16. L = SetupCmds
    BY DEF L
  <2>17. mode # "sticky"
    BY <1>4
  <2> QED
    BY <2>6, <2>9, <2>12, <2>13, <2>14, <2>15, <2>16, <2>17, Zenon
<1>5. CASE mode = "sticky"
  <2> DEFINE f == One("flushSel")
             s == One("select")
             m == r \o f \o s \o w
  <2>1. Rules = WGRules
    BY <1>5 DEF Rules
  <2>2. L = One("bypass") \o One("load") \o m \o One("nat")
    BY <1>5, <2>1 DEF SetupCmds
  <2>3. /\ f \in Seq(AnyCmd) /\ Len(f) = 1 /\ f[1] = Cmd("flushSel", 1)
        /\ s \in Seq(AnyCmd) /\ Len(s) = 1 /\ s[1] = Cmd("select", 1)
    BY OneIs DEF Words
  <2> HIDE DEF r, w, L, f, s
  <2>5. /\ m \in Seq(AnyCmd) /\ Len(m) = Len(r) + Len(f) + Len(s) + Len(w)
        /\ \A k \in 1..Len(r) : m[k] = r[k]
        /\ \A k \in 1..Len(f) : m[Len(r) + k] = f[k]
        /\ \A k \in 1..Len(s) : m[Len(r) + Len(f) + k] = s[k]
        /\ \A k \in 1..Len(w) : m[Len(r) + Len(f) + Len(s) + k] = w[k]
    <3>1. f \in Seq(AnyCmd) /\ s \in Seq(AnyCmd) /\ w \in Seq(AnyCmd) /\ r \in Seq(AnyCmd)
      BY <1>1, <1>2, <2>3
    <3>2. Joins(m, r, f, s, w)
      BY <3>1, Cat4Is
    <3> QED
      BY <3>2 DEF Joins
  <2> HIDE DEF m
  <2>6. /\ L \in Seq(AnyCmd) /\ Len(L) = Len(m) + 3
        /\ L[1] = Cmd("bypass", 1) /\ L[2] = Cmd("load", 1) /\ L[Len(m) + 3] = Cmd("nat", 1)
        /\ \A k \in 1..Len(m) : L[k + 2] = m[k]
    <3>1. m \in Seq(AnyCmd)
      BY <2>5
    <3>2. SetsUp(L, m)
      BY <2>2, <3>1, SetupWrap
    <3> QED
      BY <3>2 DEF SetsUp
  <2>7. /\ NRules = 5 /\ NTables = N /\ SetupMangle = 3 * N + 4 /\ SetupTables = 2
        /\ SetupLen = 3 * N + 10
    BY <1>5 DEF NRules, NTables, SetupMangle, SetupTables, SetupLen
  <2>8. Len(w) = 5 /\ Len(r) = 3 * N /\ Len(m) = 3 * N + 7
    BY <1>n, <1>1, <1>2, <2>3, <2>5, <2>7
  <2>9. ASSUME NEW a \in 1..NRules PROVE L[SetupMangle + a] = Cmd("append", Rules[a])
    <3>1. /\ Len(r) + Len(f) + Len(s) + a \in 1..Len(m) /\ a \in 1..Len(w)
          /\ SetupMangle + a = (Len(r) + Len(f) + Len(s) + a) + 2
      BY <1>n, <2>3, <2>7, <2>8
    <3>2. m[Len(r) + Len(f) + Len(s) + a] = w[a]
      BY <2>5, <3>1, Zenon
    <3>3. L[(Len(r) + Len(f) + Len(s) + a) + 2] = m[Len(r) + Len(f) + Len(s) + a]
      BY <2>6, <3>1, Zenon
    <3>4. w[a] = Cmd("append", Rules[a])
      BY <1>2, Zenon
    <3> QED
      BY <3>1, <3>2, <3>3, <3>4, Zenon
  <2>10. ASSUME NEW k \in 1..(3 * N) PROVE L[SetupTables + k] = r[k]
    <3>1. k \in 1..Len(m) /\ k \in 1..Len(r) /\ SetupTables + k = k + 2
      BY <1>n, <2>7, <2>8
    <3> QED
      BY <2>5, <2>6, <3>1, Zenon
  <2>11. \A t \in 1..NTables : /\ 3 * t - 2 \in 1..(3 * N) /\ 3 * t - 1 \in 1..(3 * N)
                               /\ 3 * t \in 1..(3 * N)
    BY <1>n, <2>7
  <2>12. L[SetupLen] = Cmd("nat", 1) /\ Len(L) = SetupLen
    <3>1. Len(m) + 3 = SetupLen
      BY <1>n, <2>7, <2>8
    <3> QED
      BY <2>6, <3>1, Zenon
  <2>13. \A t \in 1..NTables :
            /\ L[SetupTables + (3 * t - 2)] = Cmd("rule", t)
            /\ L[SetupTables + (3 * t - 1)] = Cmd("fallback", t)
            /\ L[SetupTables + 3 * t] = Cmd(IF mode = "sticky" THEN "pin" ELSE "route", t)
    BY <1>1, <2>10, <2>11, Zenon
  <2>14. L[3 * N + 3] = Cmd("flushSel", 1)
    <3>1. /\ Len(r) + 1 \in 1..Len(m) /\ 1 \in 1..Len(f)
          /\ 3 * N + 3 = (Len(r) + 1) + 2
      BY <1>n, <2>3, <2>8
    <3> QED
      BY <2>3, <2>5, <2>6, <3>1, Zenon
  <2>15. L[3 * N + 4] = Cmd("select", 1)
    <3>1. /\ Len(r) + Len(f) + 1 \in 1..Len(m) /\ 1 \in 1..Len(s)
          /\ 3 * N + 4 = (Len(r) + Len(f) + 1) + 2
      BY <1>n, <2>3, <2>8
    <3> QED
      BY <2>3, <2>5, <2>6, <3>1, Zenon
  <2>16. L = SetupCmds
    BY DEF L
  <2>17. mode # "transit"
    BY <1>5
  <2> QED
    BY <2>6, <2>9, <2>12, <2>13, <2>14, <2>15, <2>16, <2>17, Zenon
<1> QED
  BY <1>3, <1>4, <1>5 DEF KnownMode

(* Where the commands of Teardown are. *)
LEMMA TeardownLayout ==
    ASSUME KnownMode
    PROVE  /\ TeardownCmds \in Seq(AnyCmd) /\ Len(TeardownCmds) = TeardownLen
           /\ TeardownCmds[1] = Cmd("delBypass", 1)
           /\ TeardownCmds[TeardownLen - 1] = Cmd("delNat", 1)
           /\ TeardownCmds[TeardownLen] = Cmd("destroySets", 1)
           /\ \A a \in 1..NRules : TeardownCmds[TeardownMangle + a] = Cmd("delete", Rules[a])
           /\ \A t \in 1..NTables :
                 /\ TeardownCmds[TeardownTables + (2 * t - 1)] = Cmd("delRule", t)
                 /\ TeardownCmds[TeardownTables + 2 * t] = Cmd("flushTable", t)
           /\ mode = "transit" => TeardownCmds[5] = Cmd("flushOut", 1)
           /\ mode = "sticky" => TeardownCmds[7] = Cmd("flushSel", 1)
<1> DEFINE w == Delete2(Rules)
           p == One("delRule")
           q == One("flushTable")
           L == TeardownCmds
<1>1. /\ w \in Seq(AnyCmd) /\ Len(w) = NRules
      /\ \A a \in 1..NRules : w[a] = Cmd("delete", Rules[a])
  BY RulesAre, AppendDelete, Zenon
<1>2. /\ p \in Seq(AnyCmd) /\ Len(p) = 1 /\ p[1] = Cmd("delRule", 1)
      /\ q \in Seq(AnyCmd) /\ Len(q) = 1 /\ q[1] = Cmd("flushTable", 1)
  BY OneIs DEF Words
<1>n. N \in Nat
  BY RoutingAssumption
<1>3. CASE mode = "ecmp"
  <2> DEFINE m == p \o q \o w
  <2>1. Rules = WGRules
    BY <1>3 DEF Rules
  <2>2. L = One("delBypass") \o m \o One("delNat") \o One("destroySets")
    BY <1>3, <2>1 DEF TeardownCmds
  <2> HIDE DEF w, p, q, L
  <2>3. /\ m \in Seq(AnyCmd) /\ Len(m) = Len(p) + Len(q) + Len(w)
        /\ \A k \in 1..Len(p) : m[k] = p[k]
        /\ \A k \in 1..Len(q) : m[Len(p) + k] = q[k]
        /\ \A k \in 1..Len(w) : m[Len(p) + Len(q) + k] = w[k]
    <3>1. Joins3(m, p, q, w)
      BY <1>1, <1>2, Cat3Is
    <3> HIDE DEF m
    <3> QED
      BY <3>1 DEF Joins3
  <2> HIDE DEF m
  <2>4. /\ L \in Seq(AnyCmd) /\ Len(L) = Len(m) + 3
        /\ L[1] = Cmd("delBypass", 1)
        /\ L[Len(m) + 2] = Cmd("delNat", 1) /\ L[Len(m) + 3] = Cmd("destroySets", 1)
        /\ \A k \in 1..Len(m) : L[k + 1] = m[k]
    <3>1. m \in Seq(AnyCmd)
      BY <2>3
    <3>2. TearsDown(L, m)
      BY <2>2, <3>1, TeardownWrap
    <3> QED
      BY <3>2 DEF TearsDown
  <2>5. NRules = 3 /\ NTables = 1 /\ TeardownMangle = 3 /\ TeardownTables = 1 /\ TeardownLen = 8
    BY <1>3 DEF NRules, NTables, TeardownMangle, TeardownTables, TeardownLen
  <2>6. Len(w) = 3 /\ Len(m) = 5
    BY <1>1, <1>2, <2>3, <2>5
  <2>7. ASSUME NEW a \in 1..NRules PROVE L[TeardownMangle + a] = Cmd("delete", Rules[a])
    <3>1. /\ Len(p) + Len(q) + a \in 1..Len(m) /\ a \in 1..Len(w)
          /\ TeardownMangle + a = (Len(p) + Len(q) + a) + 1
      BY <1>2, <2>5, <2>6
    <3>2. m[Len(p) + Len(q) + a] = w[a]
      BY <2>3, <3>1, Zenon
    <3>3. L[(Len(p) + Len(q) + a) + 1] = m[Len(p) + Len(q) + a]
      BY <2>4, <3>1, Zenon
    <3>4. w[a] = Cmd("delete", Rules[a])
      BY <1>1, Zenon
    <3> QED
      BY <3>1, <3>2, <3>3, <3>4, Zenon
  <2>8. L[2] = Cmd("delRule", 1) /\ L[3] = Cmd("flushTable", 1)
    <3>1. /\ 1 \in 1..Len(m) /\ Len(p) + 1 \in 1..Len(m) /\ 1 \in 1..Len(p) /\ 1 \in 1..Len(q)
          /\ 2 = 1 + 1 /\ 3 = (Len(p) + 1) + 1
      BY <1>2, <2>6
    <3>2. m[1] = p[1] /\ m[Len(p) + 1] = q[1]
      BY <2>3, <3>1, Zenon
    <3>3. L[1 + 1] = m[1] /\ L[(Len(p) + 1) + 1] = m[Len(p) + 1]
      BY <2>4, <3>1, Zenon
    <3> QED
      BY <1>2, <3>1, <3>2, <3>3, Zenon
  <2>9. \A t \in 1..NTables :
           t = 1 /\ TeardownTables + (2 * t - 1) = 2 /\ TeardownTables + 2 * t = 3
    BY <2>5
  <2>10. Len(m) + 2 = TeardownLen - 1 /\ Len(m) + 3 = TeardownLen
    BY <2>5, <2>6
  <2>11. mode # "sticky" /\ mode # "transit"
    BY <1>3
  <2>12. L = TeardownCmds
    BY DEF L
  <2> QED
    BY <2>4, <2>7, <2>8, <2>9, <2>10, <2>11, <2>12, Zenon
<1>4. CASE mode = "transit"
  <2> DEFINE f == One("flushOut")
             m == p \o q \o w \o f
  <2>1. Rules = <<"jump">>
    BY <1>4 DEF Rules
  <2>2. L = One("delBypass") \o m \o One("delNat") \o One("destroySets")
    BY <1>4, <2>1 DEF TeardownCmds
  <2>3. f \in Seq(AnyCmd) /\ Len(f) = 1 /\ f[1] = Cmd("flushOut", 1)
    BY OneIs DEF Words
  <2> HIDE DEF w, p, q, L, f
  <2>a. Joins(m, p, q, w, f)
    BY <1>1, <1>2, <2>3, Cat4Is
  <2>b. /\ m \in Seq(AnyCmd) /\ Len(m) = Len(p) + Len(q) + Len(w) + Len(f)
        /\ \A k \in 1..Len(p) : m[k] = p[k]
        /\ \A k \in 1..Len(q) : m[Len(p) + k] = q[k]
        /\ \A k \in 1..Len(w) : m[Len(p) + Len(q) + k] = w[k]
        /\ \A k \in 1..Len(f) : m[Len(p) + Len(q) + Len(w) + k] = f[k]
    BY <2>a DEF Joins
  <2> HIDE DEF m
  <2>4. /\ L \in Seq(AnyCmd) /\ Len(L) = Len(m) + 3
        /\ L[1] = Cmd("delBypass", 1)
        /\ L[Len(m) + 2] = Cmd("delNat", 1) /\ L[Len(m) + 3] = Cmd("destroySets", 1)
        /\ \A k \in 1..Len(m) : L[k + 1] = m[k]
    <3>1. m \in Seq(AnyCmd)
      BY <2>b
    <3>2. TearsDown(L, m)
      BY <2>2, <3>1, TeardownWrap
    <3> QED
      BY <3>2 DEF TearsDown
  <2>5. NRules = 1 /\ NTables = 1 /\ TeardownMangle = 3 /\ TeardownTables = 1 /\ TeardownLen = 7
    BY <1>4 DEF NRules, NTables, TeardownMangle, TeardownTables, TeardownLen
  <2>6. Len(w) = 1 /\ Len(m) = 4
    BY <1>1, <1>2, <2>3, <2>b, <2>5
  <2>7. ASSUME NEW a \in 1..NRules PROVE L[TeardownMangle + a] = Cmd("delete", Rules[a])
    <3>1. /\ Len(p) + Len(q) + a \in 1..Len(m) /\ a \in 1..Len(w)
          /\ TeardownMangle + a = (Len(p) + Len(q) + a) + 1
      BY <1>2, <2>5, <2>6
    <3>2. m[Len(p) + Len(q) + a] = w[a]
      BY <2>b, <3>1, Zenon
    <3>3. L[(Len(p) + Len(q) + a) + 1] = m[Len(p) + Len(q) + a]
      BY <2>4, <3>1, Zenon
    <3>4. w[a] = Cmd("delete", Rules[a])
      BY <1>1, Zenon
    <3> QED
      BY <3>1, <3>2, <3>3, <3>4, Zenon
  <2>8. L[2] = Cmd("delRule", 1) /\ L[3] = Cmd("flushTable", 1)
    <3>1. /\ 1 \in 1..Len(m) /\ Len(p) + 1 \in 1..Len(m) /\ 1 \in 1..Len(p) /\ 1 \in 1..Len(q)
          /\ 2 = 1 + 1 /\ 3 = (Len(p) + 1) + 1
      BY <1>2, <2>6
    <3>2. m[1] = p[1] /\ m[Len(p) + 1] = q[1]
      BY <2>b, <3>1, Zenon
    <3>3. L[1 + 1] = m[1] /\ L[(Len(p) + 1) + 1] = m[Len(p) + 1]
      BY <2>4, <3>1, Zenon
    <3> QED
      BY <1>2, <3>1, <3>2, <3>3, Zenon
  <2>9. \A t \in 1..NTables :
           t = 1 /\ TeardownTables + (2 * t - 1) = 2 /\ TeardownTables + 2 * t = 3
    BY <2>5
  <2>10. Len(m) + 2 = TeardownLen - 1 /\ Len(m) + 3 = TeardownLen
    BY <2>5, <2>6
  <2>11. L[5] = Cmd("flushOut", 1)
    <3>1. /\ Len(p) + Len(q) + Len(w) + 1 \in 1..Len(m) /\ 1 \in 1..Len(f)
          /\ 5 = (Len(p) + Len(q) + Len(w) + 1) + 1
      BY <1>2, <2>3, <2>6
    <3> QED
      BY <2>3, <2>b, <2>4, <3>1, Zenon
  <2>12. L = TeardownCmds
    BY DEF L
  <2>13. mode # "sticky"
    BY <1>4
  <2> QED
    BY <2>4, <2>7, <2>8, <2>9, <2>10, <2>11, <2>12, <2>13, Zenon
<1>5. CASE mode = "sticky"
  <2> DEFINE f == One("flushSel")
             s == <<"delRule", "flushTable">>
             r == ForTunnels(s)
             m == w \o f \o r
  <2>1. Rules = WGRules
    BY <1>5 DEF Rules
  <2>2. L = One("delBypass") \o m \o One("delNat") \o One("destroySets")
    BY <1>5, <2>1 DEF TeardownCmds
  <2>3. f \in Seq(AnyCmd) /\ Len(f) = 1 /\ f[1] = Cmd("flushSel", 1)
    BY OneIs DEF Words
  <2>a. s \in Seq(Words) /\ Len(s) = 2 /\ s[1] = "delRule" /\ s[2] = "flushTable"
    BY DEF Words
  <2> HIDE DEF w, L, f, s
  <2>b. /\ r \in Seq(AnyCmd) /\ Len(r) = 2 * N
        /\ \A t \in 1..N : \A x \in 1..2 : r[2 * t - 2 + x] = Cmd(s[x], t)
    BY <2>a, ForTunnelsIs
  <2> HIDE DEF r
  <2>c. /\ m \in Seq(AnyCmd) /\ Len(m) = Len(w) + Len(f) + Len(r)
        /\ \A k \in 1..Len(w) : m[k] = w[k]
        /\ \A k \in 1..Len(f) : m[Len(w) + k] = f[k]
        /\ \A k \in 1..Len(r) : m[Len(w) + Len(f) + k] = r[k]
    <3>1. w \in Seq(AnyCmd) /\ f \in Seq(AnyCmd) /\ r \in Seq(AnyCmd)
      BY <1>1, <2>3, <2>b
    <3>2. Joins3(m, w, f, r)
      BY <3>1, Cat3Is
    <3> HIDE DEF m
    <3> QED
      BY <3>2 DEF Joins3
  <2> HIDE DEF m
  <2>4. /\ L \in Seq(AnyCmd) /\ Len(L) = Len(m) + 3
        /\ L[1] = Cmd("delBypass", 1)
        /\ L[Len(m) + 2] = Cmd("delNat", 1) /\ L[Len(m) + 3] = Cmd("destroySets", 1)
        /\ \A k \in 1..Len(m) : L[k + 1] = m[k]
    <3>1. m \in Seq(AnyCmd)
      BY <2>c
    <3>2. TearsDown(L, m)
      BY <2>2, <3>1, TeardownWrap
    <3> QED
      BY <3>2 DEF TearsDown
  <2>5. /\ NRules = 5 /\ NTables = N /\ TeardownMangle = 1 /\ TeardownTables = 7
        /\ TeardownLen = 2 * N + 9
    BY <1>5 DEF NRules, NTables, TeardownMangle, TeardownTables, TeardownLen
  <2>6. Len(w) = 5 /\ Len(m) = 2 * N + 6
    BY <1>n, <1>1, <2>3, <2>b, <2>c, <2>5
  <2>7. ASSUME NEW a \in 1..NRules PROVE L[TeardownMangle + a] = Cmd("delete", Rules[a])
    <3>1. a \in 1..Len(m) /\ a \in 1..Len(w) /\ TeardownMangle + a = a + 1
      BY <1>n, <2>5, <2>6
    <3> QED
      BY <1>1, <2>c, <2>4, <3>1, Zenon
  <2>8. ASSUME NEW t \in 1..NTables, NEW x \in 1..2
        PROVE  L[TeardownTables + (2 * t - 2 + x)] = Cmd(s[x], t)
    <3> DEFINE k == 2 * t - 2 + x
    <3>1. /\ Len(w) + Len(f) + k \in 1..Len(m) /\ k \in 1..Len(r)
          /\ TeardownTables + k = (Len(w) + Len(f) + k) + 1
      BY <1>n, <2>3, <2>b, <2>5, <2>6
    <3>2. r[k] = Cmd(s[x], t)
      BY <2>b, <2>5
    <3> HIDE DEF k
    <3>3. m[Len(w) + Len(f) + k] = r[k] /\ L[(Len(w) + Len(f) + k) + 1] = m[Len(w) + Len(f) + k]
      BY <2>c, <2>4, <3>1, Zenon
    <3>4. L[TeardownTables + k] = Cmd(s[x], t)
      BY <3>1, <3>2, <3>3, Zenon
    <3> QED
      BY <3>4 DEF k
  <2>9. \A t \in 1..NTables : /\ 2 * t - 2 + 1 = 2 * t - 1 /\ 2 * t - 2 + 2 = 2 * t
                              /\ 1 \in 1..2 /\ 2 \in 1..2
    BY <1>n, <2>5
  <2>10. Len(m) + 2 = TeardownLen - 1 /\ Len(m) + 3 = TeardownLen
    BY <1>n, <2>5, <2>6
  <2>11. L[7] = Cmd("flushSel", 1)
    <3>1. Len(w) + 1 \in 1..Len(m) /\ 1 \in 1..Len(f) /\ 7 = (Len(w) + 1) + 1
      BY <1>n, <2>3, <2>6
    <3> QED
      BY <2>3, <2>c, <2>4, <3>1, Zenon
  <2>12. L = TeardownCmds
    BY DEF L
  <2>13. mode # "transit"
    BY <1>5
  <2>14. \A t \in 1..NTables : /\ L[TeardownTables + (2 * t - 1)] = Cmd("delRule", t)
                               /\ L[TeardownTables + 2 * t] = Cmd("flushTable", t)
    <3> SUFFICES ASSUME NEW t \in 1..NTables
                 PROVE  /\ L[TeardownTables + (2 * t - 1)] = Cmd("delRule", t)
                        /\ L[TeardownTables + 2 * t] = Cmd("flushTable", t)
      OBVIOUS
    <3>1. /\ L[TeardownTables + (2 * t - 2 + 1)] = Cmd(s[1], t)
          /\ L[TeardownTables + (2 * t - 2 + 2)] = Cmd(s[2], t)
      BY <2>8, <2>9, Zenon
    <3> QED
      BY <2>a, <2>9, <3>1, Zenon
  <2> QED
    BY <2>4, <2>7, <2>10, <2>11, <2>12, <2>13, <2>14, Zenon
<1> QED
  BY <1>3, <1>4, <1>5 DEF KnownMode

---------------------------------------------------------------------------
(* Which command does what when *)

(* What the k-th command of Setup is about: x is that command. *)
SetupKind(k, x) ==
    /\ \/ \E a \in 1..NRules : k = SetupMangle + a /\ x.c = "append" /\ x.i = Rules[a]
       \/ /\ x.c \notin {"append", "delete"}
          /\ \A a \in 1..NRules : k # SetupMangle + a
    /\ \A t \in 1..NTables : /\ k = SetupTables + (3 * t - 2) => x.c = "rule" /\ x.i = t
                             /\ k = SetupTables + (3 * t - 1) => x.c = "fallback" /\ x.i = t
    /\ x.c \in {"rule", "fallback", "pin"} => x.i \in 1..NTables
    /\ x.c = "pin" => mode = "sticky"
    /\ x.c = "route" => mode # "sticky"
    /\ x.c \in {"flushSel", "select"} => mode = "sticky"
    /\ IF mode = "transit"
       THEN /\ k = 3 => x.c = "flushOut"
            /\ \A a \in 1..3 : k = 3 + a => x.c = "appendOut" /\ x.i = OutRules[a]
            /\ k \notin 3..6 => x.c \notin {"flushOut", "appendOut"}
       ELSE x.c \notin {"flushOut", "appendOut"}
    /\ k = 1 => x.c = "bypass"
    /\ x.c = "nat" <=> k = SetupLen
    /\ x.c \notin {"delBypass", "delRule", "flushTable", "delNat", "destroySets"}

(* Every command of Setup is what its place says. *)
LEMMA SetupKinds ==
    ASSUME KnownMode, NEW k \in 1..SetupLen
    PROVE  SetupKind(k, SetupCmds[k])
<1> DEFINE x == SetupCmds[k]
<1>n. N \in Nat /\ N > 0
  BY RoutingAssumption
<1>c. ASSUME NEW c, NEW i PROVE Cmd(c, i).c = c /\ Cmd(c, i).i = i
  BY DEF Cmd
<1>1. CASE mode = "ecmp"
  <2>1. /\ SetupLen = 9 /\ SetupMangle = 2 /\ SetupTables = 5 /\ NRules = 3 /\ NTables = 1
    BY <1>1 DEF SetupLen, SetupMangle, SetupTables, NRules, NTables
  <2>2. k \in {1, 2, 3, 4, 5, 6, 7, 8, 9}
    BY <2>1
  <2>3. /\ \A t \in 1..NTables : t = 1
        /\ 1 \in 1..NRules /\ 2 \in 1..NRules /\ 3 \in 1..NRules /\ 1 \in 1..NTables
    BY <2>1
  <2>4. /\ k = 1 => x = Cmd("bypass", 1)
        /\ k = 2 => x = Cmd("load", 1)
        /\ k = 3 => x = Cmd("append", Rules[1])
        /\ k = 4 => x = Cmd("append", Rules[2])
        /\ k = 5 => x = Cmd("append", Rules[3])
        /\ k = 6 => x = Cmd("rule", 1)
        /\ k = 7 => x = Cmd("fallback", 1)
        /\ k = 8 => x = Cmd("route", 1)
        /\ k = 9 => x = Cmd("nat", 1)
    <3>1. /\ SetupCmds[1] = Cmd("bypass", 1) /\ SetupCmds[2] = Cmd("load", 1)
          /\ SetupCmds[9] = Cmd("nat", 1)
      BY <2>1, SetupLayout, Zenon
    <3>2. /\ SetupCmds[2 + 1] = Cmd("append", Rules[1])
          /\ SetupCmds[2 + 2] = Cmd("append", Rules[2])
          /\ SetupCmds[2 + 3] = Cmd("append", Rules[3])
      BY <2>1, <2>3, SetupLayout, Zenon
    <3>3. /\ SetupCmds[5 + (3 * 1 - 2)] = Cmd("rule", 1)
          /\ SetupCmds[5 + (3 * 1 - 1)] = Cmd("fallback", 1)
          /\ SetupCmds[5 + 3 * 1] = Cmd("route", 1)
      BY <1>1, <2>1, <2>3, SetupLayout
    <3> QED
      BY <3>1, <3>2, <3>3
  <2> HIDE DEF x
  <2>5. SetupKind(k, x)
    <3>1. CASE k \in {1, 2}
      BY <1>1, <1>c, <2>1, <2>4, <3>1 DEF SetupKind
    <3>2. CASE k \in {3, 4, 5}
      BY <1>1, <1>c, <2>1, <2>4, <3>2 DEF SetupKind
    <3>3. CASE k \in {6, 7}
      BY <1>1, <1>c, <2>1, <2>4, <3>3 DEF SetupKind
    <3>4. CASE k \in {8, 9}
      BY <1>1, <1>c, <2>1, <2>4, <3>4 DEF SetupKind
    <3> QED
      BY <2>2, <3>1, <3>2, <3>3, <3>4
  <2> QED
    BY <2>5 DEF x
<1>2. CASE mode = "transit"
  <2>1. /\ SetupLen = 11 /\ SetupMangle = 6 /\ SetupTables = 7 /\ NRules = 1 /\ NTables = 1
    BY <1>2 DEF SetupLen, SetupMangle, SetupTables, NRules, NTables
  <2>2. k \in {1, 2, 3, 4, 5, 6, 7, 8, 9, 10, 11}
    BY <2>1
  <2>3. /\ \A t \in 1..NTables : t = 1
        /\ 1 \in 1..NRules /\ 1 \in 1..NTables /\ 1 \in 1..3 /\ 2 \in 1..3 /\ 3 \in 1..3
    BY <2>1
  <2>4. /\ k = 1 => x = Cmd("bypass", 1)
        /\ k = 2 => x = Cmd("load", 1)
        /\ k = 3 => x = Cmd("flushOut", 1)
        /\ k = 4 => x = Cmd("appendOut", OutRules[1])
        /\ k = 5 => x = Cmd("appendOut", OutRules[2])
        /\ k = 6 => x = Cmd("appendOut", OutRules[3])
        /\ k = 7 => x = Cmd("append", Rules[1])
        /\ k = 8 => x = Cmd("rule", 1)
        /\ k = 9 => x = Cmd("fallback", 1)
        /\ k = 10 => x = Cmd("route", 1)
        /\ k = 11 => x = Cmd("nat", 1)
    <3>1. /\ SetupCmds[1] = Cmd("bypass", 1) /\ SetupCmds[2] = Cmd("load", 1)
          /\ SetupCmds[11] = Cmd("nat", 1) /\ SetupCmds[3] = Cmd("flushOut", 1)
      BY <1>2, <2>1, SetupLayout, Zenon
    <3>2. /\ SetupCmds[3 + 1] = Cmd("appendOut", OutRules[1])
          /\ SetupCmds[3 + 2] = Cmd("appendOut", OutRules[2])
          /\ SetupCmds[3 + 3] = Cmd("appendOut", OutRules[3])
      BY <1>2, <2>3, SetupLayout, Zenon
    <3>3. SetupCmds[6 + 1] = Cmd("append", Rules[1])
      BY <2>1, <2>3, SetupLayout, Zenon
    <3>4. /\ SetupCmds[7 + (3 * 1 - 2)] = Cmd("rule", 1)
          /\ SetupCmds[7 + (3 * 1 - 1)] = Cmd("fallback", 1)
          /\ SetupCmds[7 + 3 * 1] = Cmd("route", 1)
      BY <1>2, <2>1, <2>3, SetupLayout
    <3> QED
      BY <3>1, <3>2, <3>3, <3>4
  <2> HIDE DEF x
  <2>5. SetupKind(k, x)
    <3>1. CASE k \in {1, 2, 3}
      BY <1>2, <1>c, <2>1, <2>4, <3>1 DEF SetupKind
    <3>2. CASE k \in {4, 5, 6}
      BY <1>2, <1>c, <2>1, <2>4, <3>2 DEF SetupKind
    <3>3. CASE k \in {7, 8, 9}
      BY <1>2, <1>c, <2>1, <2>4, <3>3 DEF SetupKind
    <3>4. CASE k \in {10, 11}
      BY <1>2, <1>c, <2>1, <2>4, <3>4 DEF SetupKind
    <3> QED
      BY <2>2, <3>1, <3>2, <3>3, <3>4
  <2> QED
    BY <2>5 DEF x
<1>3. CASE mode = "sticky"
  <2>1. /\ SetupLen = 3 * N + 10 /\ SetupMangle = 3 * N + 4 /\ SetupTables = 2 /\ NRules = 5
        /\ NTables = N
    BY <1>3 DEF SetupLen, SetupMangle, SetupTables, NRules, NTables
  <2> HIDE DEF x
  <2>2. CASE k \in {1, 2}
    <3>1. /\ k = 1 => x = Cmd("bypass", 1)
          /\ k = 2 => x = Cmd("load", 1)
      BY SetupLayout DEF x
    <3>2. SetupKind(k, x)
      BY <1>3, <1>n, <1>c, <2>1, <2>2, <3>1 DEF SetupKind
    <3> QED
      BY <3>2 DEF x
  <2>3. ASSUME NEW t \in 1..N, k \in {2 + (3 * t - 2), 2 + (3 * t - 1), 2 + 3 * t}
        PROVE  SetupKind(k, x)
    <3>1. /\ k = 2 + (3 * t - 2) => x = Cmd("rule", t)
          /\ k = 2 + (3 * t - 1) => x = Cmd("fallback", t)
          /\ k = 2 + 3 * t => x = Cmd("pin", t)
      <4>1. /\ SetupCmds[2 + (3 * t - 2)] = Cmd("rule", t)
            /\ SetupCmds[2 + (3 * t - 1)] = Cmd("fallback", t)
            /\ SetupCmds[2 + 3 * t] = Cmd("pin", t)
        BY <1>3, <2>1, SetupLayout
      <4> QED
        BY <4>1, Zenon DEF x
    <3>2. CASE k = 2 + (3 * t - 2)
      BY <1>3, <1>n, <1>c, <2>1, <3>1, <3>2 DEF SetupKind
    <3>3. CASE k = 2 + (3 * t - 1)
      BY <1>3, <1>n, <1>c, <2>1, <3>1, <3>3 DEF SetupKind
    <3>4. CASE k = 2 + 3 * t
      BY <1>3, <1>n, <1>c, <2>1, <3>1, <3>4 DEF SetupKind
    <3> QED
      BY <2>3, <3>2, <3>3, <3>4
  <2>4. CASE k \in {3 * N + 3, 3 * N + 4}
    <3>1. /\ k = 3 * N + 3 => x = Cmd("flushSel", 1)
          /\ k = 3 * N + 4 => x = Cmd("select", 1)
      BY <1>3, SetupLayout DEF x
    <3>2. SetupKind(k, x)
      BY <1>3, <1>n, <1>c, <2>1, <2>4, <3>1 DEF SetupKind
    <3> QED
      BY <3>2 DEF x
  <2>5. ASSUME NEW a \in 1..5, k = 3 * N + 4 + a
        PROVE  SetupKind(k, x)
    <3>1. x = Cmd("append", Rules[a])
      BY <2>1, <2>5, SetupLayout DEF x
    <3> QED
      BY <1>3, <1>n, <1>c, <2>1, <2>5, <3>1 DEF SetupKind
  <2>6. CASE k = 3 * N + 10
    <3>1. x = Cmd("nat", 1)
      BY <2>1, <2>6, SetupLayout DEF x
    <3>2. SetupKind(k, x)
      BY <1>3, <1>n, <1>c, <2>1, <2>6, <3>1 DEF SetupKind
    <3> QED
      BY <3>2 DEF x
  <2>7. CASE k \in 3..(3 * N + 2)
    <3> DEFINE t == k \div 3
    <3>1. t \in 1..N /\ k \in {2 + (3 * t - 2), 2 + (3 * t - 1), 2 + 3 * t}
      BY <1>n, <2>1, <2>7
    <3> QED
      BY <2>3, <3>1 DEF x
  <2>8. CASE k \in (3 * N + 5)..(3 * N + 9)
    <3> DEFINE a == k - (3 * N + 4)
    <3>1. a \in 1..5 /\ k = 3 * N + 4 + a
      BY <1>n, <2>8
    <3> QED
      BY <2>5, <3>1 DEF x
  <2>9. \/ k \in {1, 2} \/ k \in 3..(3 * N + 2) \/ k \in {3 * N + 3, 3 * N + 4}
        \/ k \in (3 * N + 5)..(3 * N + 9) \/ k = 3 * N + 10
    BY <1>n, <2>1
  <2> QED
    BY <2>2, <2>4, <2>6, <2>7, <2>8, <2>9
<1> QED
  BY <1>1, <1>2, <1>3 DEF KnownMode

(* What the k-th command of Teardown is about. *)
TeardownKind(k, x) ==
    /\ \/ \E a \in 1..NRules : k = TeardownMangle + a /\ x.c = "delete" /\ x.i = Rules[a]
       \/ /\ x.c \notin {"append", "delete"}
          /\ \A a \in 1..NRules : k # TeardownMangle + a
    /\ \A t \in 1..NTables : /\ k = TeardownTables + (2 * t - 1) => x.c = "delRule" /\ x.i = t
                             /\ k = TeardownTables + 2 * t => x.c = "flushTable" /\ x.i = t
    /\ x.c = "flushTable" => x.i \in 1..NTables
    /\ mode = "transit" /\ k = 5 => x.c = "flushOut"
    /\ mode = "sticky" /\ k = 7 => x.c = "flushSel"
    /\ k = 1 => x.c = "delBypass"
    /\ x.c = "delNat" <=> k = TeardownLen - 1
    /\ x.c = "destroySets" <=> k = TeardownLen
    /\ x.c \notin {"bypass", "load", "rule", "fallback", "route", "pin", "select", "appendOut",
                   "nat"}

(* Every command of Teardown is what its place says. *)
LEMMA TeardownKinds ==
    ASSUME KnownMode, NEW k \in 1..TeardownLen
    PROVE  TeardownKind(k, TeardownCmds[k])
<1> DEFINE x == TeardownCmds[k]
<1>n. N \in Nat /\ N > 0
  BY RoutingAssumption
<1>c. ASSUME NEW c, NEW i PROVE Cmd(c, i).c = c /\ Cmd(c, i).i = i
  BY DEF Cmd
<1>1. CASE mode = "ecmp"
  <2>1. /\ TeardownLen = 8 /\ TeardownMangle = 3 /\ TeardownTables = 1 /\ NRules = 3
        /\ NTables = 1
    BY <1>1 DEF TeardownLen, TeardownMangle, TeardownTables, NRules, NTables
  <2>2. k \in {1, 2, 3, 4, 5, 6, 7, 8}
    BY <2>1
  <2>3. /\ \A t \in 1..NTables : t = 1
        /\ 1 \in 1..NRules /\ 2 \in 1..NRules /\ 3 \in 1..NRules /\ 1 \in 1..NTables
    BY <2>1
  <2>4. /\ k = 1 => x = Cmd("delBypass", 1)
        /\ k = 2 => x = Cmd("delRule", 1)
        /\ k = 3 => x = Cmd("flushTable", 1)
        /\ k = 4 => x = Cmd("delete", Rules[1])
        /\ k = 5 => x = Cmd("delete", Rules[2])
        /\ k = 6 => x = Cmd("delete", Rules[3])
        /\ k = 7 => x = Cmd("delNat", 1)
        /\ k = 8 => x = Cmd("destroySets", 1)
    <3>1. /\ TeardownCmds[1] = Cmd("delBypass", 1) /\ TeardownCmds[8] = Cmd("destroySets", 1)
          /\ TeardownCmds[8 - 1] = Cmd("delNat", 1)
      BY <2>1, TeardownLayout, Zenon
    <3>2. /\ TeardownCmds[3 + 1] = Cmd("delete", Rules[1])
          /\ TeardownCmds[3 + 2] = Cmd("delete", Rules[2])
          /\ TeardownCmds[3 + 3] = Cmd("delete", Rules[3])
      BY <2>1, <2>3, TeardownLayout, Zenon
    <3>3. /\ TeardownCmds[1 + (2 * 1 - 1)] = Cmd("delRule", 1)
          /\ TeardownCmds[1 + 2 * 1] = Cmd("flushTable", 1)
      BY <2>1, <2>3, TeardownLayout
    <3> QED
      BY <3>1, <3>2, <3>3
  <2> HIDE DEF x
  <2>5. TeardownKind(k, x)
    <3>1. CASE k \in {1, 2, 3}
      BY <1>1, <1>c, <2>1, <2>4, <3>1 DEF TeardownKind
    <3>2. CASE k \in {4, 5, 6}
      BY <1>1, <1>c, <2>1, <2>4, <3>2 DEF TeardownKind
    <3>3. CASE k \in {7, 8}
      BY <1>1, <1>c, <2>1, <2>4, <3>3 DEF TeardownKind
    <3> QED
      BY <2>2, <3>1, <3>2, <3>3
  <2> QED
    BY <2>5 DEF x
<1>2. CASE mode = "transit"
  <2>1. /\ TeardownLen = 7 /\ TeardownMangle = 3 /\ TeardownTables = 1 /\ NRules = 1
        /\ NTables = 1
    BY <1>2 DEF TeardownLen, TeardownMangle, TeardownTables, NRules, NTables
  <2>2. k \in {1, 2, 3, 4, 5, 6, 7}
    BY <2>1
  <2>3. /\ \A t \in 1..NTables : t = 1
        /\ 1 \in 1..NRules /\ 1 \in 1..NTables
    BY <2>1
  <2>4. /\ k = 1 => x = Cmd("delBypass", 1)
        /\ k = 2 => x = Cmd("delRule", 1)
        /\ k = 3 => x = Cmd("flushTable", 1)
        /\ k = 4 => x = Cmd("delete", Rules[1])
        /\ k = 5 => x = Cmd("flushOut", 1)
        /\ k = 6 => x = Cmd("delNat", 1)
        /\ k = 7 => x = Cmd("destroySets", 1)
    <3>1. /\ TeardownCmds[1] = Cmd("delBypass", 1) /\ TeardownCmds[7] = Cmd("destroySets", 1)
          /\ TeardownCmds[7 - 1] = Cmd("delNat", 1) /\ TeardownCmds[5] = Cmd("flushOut", 1)
      BY <1>2, <2>1, TeardownLayout, Zenon
    <3>2. TeardownCmds[3 + 1] = Cmd("delete", Rules[1])
      BY <2>1, <2>3, TeardownLayout, Zenon
    <3>3. /\ TeardownCmds[1 + (2 * 1 - 1)] = Cmd("delRule", 1)
          /\ TeardownCmds[1 + 2 * 1] = Cmd("flushTable", 1)
      BY <2>1, <2>3, TeardownLayout
    <3> QED
      BY <3>1, <3>2, <3>3
  <2> HIDE DEF x
  <2>5. TeardownKind(k, x)
    <3>1. CASE k \in {1, 2, 3}
      BY <1>2, <1>c, <2>1, <2>4, <3>1 DEF TeardownKind
    <3>2. CASE k \in {4, 5}
      BY <1>2, <1>c, <2>1, <2>4, <3>2 DEF TeardownKind
    <3>3. CASE k \in {6, 7}
      BY <1>2, <1>c, <2>1, <2>4, <3>3 DEF TeardownKind
    <3> QED
      BY <2>2, <3>1, <3>2, <3>3
  <2> QED
    BY <2>5 DEF x
<1>3. CASE mode = "sticky"
  <2>1. /\ TeardownLen = 2 * N + 9 /\ TeardownMangle = 1 /\ TeardownTables = 7 /\ NRules = 5
        /\ NTables = N
    BY <1>3 DEF TeardownLen, TeardownMangle, TeardownTables, NRules, NTables
  <2> HIDE DEF x
  <2>2. CASE k \in {1, 7}
    <3>1. /\ k = 1 => x = Cmd("delBypass", 1)
          /\ k = 7 => x = Cmd("flushSel", 1)
      BY <1>3, TeardownLayout DEF x
    <3>2. TeardownKind(k, x)
      BY <1>3, <1>n, <1>c, <2>1, <2>2, <3>1 DEF TeardownKind
    <3> QED
      BY <3>2 DEF x
  <2>3. ASSUME NEW t \in 1..N, k \in {7 + (2 * t - 1), 7 + 2 * t}
        PROVE  TeardownKind(k, x)
    <3>1. /\ k = 7 + (2 * t - 1) => x = Cmd("delRule", t)
          /\ k = 7 + 2 * t => x = Cmd("flushTable", t)
      <4>1. /\ TeardownCmds[7 + (2 * t - 1)] = Cmd("delRule", t)
            /\ TeardownCmds[7 + 2 * t] = Cmd("flushTable", t)
        BY <1>3, <2>1, TeardownLayout
      <4> QED
        BY <4>1, Zenon DEF x
    <3>2. CASE k = 7 + (2 * t - 1)
      BY <1>3, <1>n, <1>c, <2>1, <3>1, <3>2 DEF TeardownKind
    <3>3. CASE k = 7 + 2 * t
      BY <1>3, <1>n, <1>c, <2>1, <3>1, <3>3 DEF TeardownKind
    <3> QED
      BY <2>3, <3>2, <3>3
  <2>4. ASSUME NEW a \in 1..5, k = 1 + a
        PROVE  TeardownKind(k, x)
    <3>1. x = Cmd("delete", Rules[a])
      BY <2>1, <2>4, TeardownLayout DEF x
    <3> QED
      BY <1>3, <1>n, <1>c, <2>1, <2>4, <3>1 DEF TeardownKind
  <2>5. CASE k \in {2 * N + 8, 2 * N + 9}
    <3>1. (2 * N + 9) - 1 = 2 * N + 8
      BY <1>n
    <3>2. /\ k = 2 * N + 8 => x = Cmd("delNat", 1)
          /\ k = 2 * N + 9 => x = Cmd("destroySets", 1)
      BY <2>1, <3>1, TeardownLayout DEF x
    <3>3. TeardownKind(k, x)
      BY <1>3, <1>n, <1>c, <2>1, <2>5, <3>2 DEF TeardownKind
    <3> QED
      BY <3>3 DEF x
  <2>6. CASE k \in 8..(2 * N + 7)
    <3> DEFINE t == (k - 6) \div 2
    <3>1. t \in 1..N /\ k \in {7 + (2 * t - 1), 7 + 2 * t}
      BY <1>n, <2>1, <2>6
    <3> QED
      BY <2>3, <3>1 DEF x
  <2>7. CASE k \in 2..6
    <3> DEFINE a == k - 1
    <3>1. a \in 1..5 /\ k = 1 + a
      BY <2>7
    <3> QED
      BY <2>4, <3>1 DEF x
  <2>8. \/ k \in {1, 7} \/ k \in 2..6 \/ k \in 8..(2 * N + 7) \/ k \in {2 * N + 8, 2 * N + 9}
    BY <1>n, <2>1
  <2> QED
    BY <2>2, <2>5, <2>6, <2>7, <2>8
<1> QED
  BY <1>1, <1>2, <1>3 DEF KnownMode

---------------------------------------------------------------------------
(* The invariant *)

(* How many commands of Setup or of Teardown have run. *)
At ==
    IF job = "setup" THEN SetupLen - Len(cmds)
    ELSE IF job = "teardown" THEN TeardownLen - Len(cmds) ELSE 0

(* What is left to run is the end of the list. *)
Aligned ==
    /\ cmds \in Seq(AnyCmd)
    /\ job \in {"off", "run"} => cmds = <<>>
    /\ job = "setup" =>
          Len(cmds) <= SetupLen /\ \A j \in 1..Len(cmds) : cmds[j] = SetupCmds[At + j]
    /\ job = "teardown" =>
          Len(cmds) <= TeardownLen /\ \A j \in 1..Len(cmds) : cmds[j] = TeardownCmds[At + j]

(* The types, in more detail than TypeOK: which rules and tables there are *)
(* in which mode, and that FTYB_OUT is always the beginning of its list.   *)
Shape ==
    /\ mode \in Modes /\ job \in {"off", "setup", "run", "teardown"}
    /\ direct \subseteq Dests /\ proxy \subseteq Dests
    /\ pre \in Seq(Names)
    /\ out \in Seq({"tunnel", "direct", "proxy"}) /\ Len(out) <= 3
    /\ \A j \in 1..Len(out) : out[j] = OutRules[j]
    /\ mode # "transit" => out = <<>>
    /\ chain \in Seq(Tunnels) /\ Len(chain) <= N
    /\ mode # "sticky" => chain = <<>>
    /\ rules \subseteq 1..NTables /\ fallback \subseteq 1..NTables
    /\ dev \subseteq Tunnels
    /\ route \in [Tunnels -> SUBSET Tunnels]
    /\ \A t \in Tunnels : route[t] \subseteq dev /\ (t > NTables => route[t] = {})
    /\ mode = "sticky" => \A t \in Tunnels : route[t] \subseteq {t}
    /\ bypass \in BOOLEAN /\ nat \in Nat
    /\ connmark \in [Flows -> 0..N]
    /\ crashes \in 0..MaxCrashes /\ armed \in BOOLEAN /\ halfTorn \in BOOLEAN

(* Of n commands, those that are about a rule. *)
Clip(n) == IF n < 0 THEN 0 ELSE IF n > NRules THEN NRules ELSE n

(* The rules and the NAT rules the present process has installed and not   *)
(* removed again.  A killed one leaves all of its own.                     *)
OwnRules ==
    IF job = "setup" THEN Clip(At - SetupMangle)
    ELSE IF job = "run" THEN NRules
    ELSE IF job = "teardown" THEN NRules - Clip(At - TeardownMangle) ELSE 0

OwnNat ==
    IF \/ job = "setup" /\ At >= SetupLen
       \/ job = "run"
       \/ job = "teardown" /\ At < TeardownLen - 1
    THEN 1 ELSE 0

Copies ==
    /\ Len(pre) <= 5 * crashes + OwnRules
    /\ nat <= crashes + OwnNat
    /\ OwnNat = 1 => nat > 0

(* The last rules of the chain are those this process has appended, in     *)
(* their order.                                                            *)
Appended ==
    job \in {"setup", "run"} =>
        /\ Len(pre) >= OwnRules
        /\ \A a \in 1..OwnRules : pre[Len(pre) - OwnRules + a] = Rules[a]

In(r) == \E j \in 1..Len(pre) : pre[j] = r

(* Every rule that Teardown has still to delete is there. *)
ToDelete ==
    job = "teardown" => \A a \in 1..NRules : At < TeardownMangle + a => In(Rules[a])

(* What Setup has done. *)
SetupDid ==
    /\ job = "setup" =>
          /\ At >= 1 => bypass
          /\ \A t \in 1..NTables : /\ At >= SetupTables + (3 * t - 2) => t \in rules
                                   /\ At >= SetupTables + (3 * t - 1) => t \in fallback
          /\ mode = "transit" /\ At >= 3 => Len(out) = IF At > 6 THEN 3 ELSE At - 3
    /\ job = "run" => bypass /\ armed /\ (mode = "transit" => Len(out) = 3)

(* What Teardown has undone. *)
TeardownDid ==
    job = "teardown" =>
        /\ At >= 1 => ~bypass
        /\ \A t \in 1..NTables :
              /\ At >= TeardownTables + (2 * t - 1) => t \notin rules
              /\ At >= TeardownTables + 2 * t => t \notin fallback /\ route[t] = {}
        /\ mode = "transit" /\ At >= 5 => out = <<>>
        /\ mode = "sticky" /\ At >= 7 => chain = <<>>
        /\ At = TeardownLen /\ crashes = 0 => direct = {} /\ proxy = {}

(* What is left when no process runs. *)
OffClean ==
    job = "off" =>
        /\ dev = {}
        /\ crashes = 0 => /\ out = <<>> /\ chain = <<>> /\ rules = {} /\ fallback = {}
                          /\ ~bypass /\ direct = {} /\ proxy = {}

(* What a completed Setup has installed is there until the Teardown. *)
ArmedHas ==
    armed => /\ job # "teardown"
             /\ \A a \in 1..NRules : In(Rules[a])
             /\ 1..NTables \subseteq rules /\ 1..NTables \subseteq fallback

RInv == Aligned /\ Shape /\ Copies /\ Appended /\ ToDelete /\ SetupDid /\ TeardownDid
        /\ OffClean /\ ArmedHas

---------------------------------------------------------------------------
(* The steps *)

(* A set of tunnels as a sequence. *)
LEMMA SetToSeqIs ==
    ASSUME NEW S \in SUBSET Tunnels
    PROVE  SetToSeq(S) \in Seq(Tunnels) /\ Len(SetToSeq(S)) <= N
<1>1. N \in Nat
  BY RoutingAssumption
<1>2. IsFiniteSet(Tunnels) /\ Cardinality(Tunnels) = N
  BY <1>1, FS_Interval DEF Tunnels
<1>3. IsFiniteSet(S) /\ Cardinality(S) <= N
  BY <1>2, FS_Subset
<1>4. Cardinality(S) \in Nat /\ ExistsBijection(1..Cardinality(S), S)
  BY <1>3, FS_CardinalityType
<1>5. \E f \in [1..Cardinality(S) -> S] : IsInjective(f)
  BY <1>4 DEF ExistsBijection, Bijection, Injection
<1>6. SetToSeq(S) \in [1..Cardinality(S) -> S]
  BY <1>5 DEF SetToSeq
<1>7. SetToSeq(S) \in [1..Cardinality(S) -> Tunnels]
  BY <1>6
<1> QED
  BY <1>3, <1>4, <1>7

(* The effect of a command, variable by variable. *)
LEMMA EffectIs ==
    ASSUME NEW c, NEW i, Effect(c, i)
    PROVE  /\ c = "append" => pre' = Append(pre, i)
           /\ c = "delete" => pre' = RemoveFirst(pre, i)
           /\ c \notin {"append", "delete"} => pre' = pre
           /\ c = "flushOut" => out' = <<>>
           /\ c = "appendOut" => out' = Append(out, i)
           /\ c \notin {"flushOut", "appendOut"} => out' = out
           /\ c = "flushSel" => chain' = <<>>
           /\ c = "select" => chain' = SetToSeq(dev)
           /\ c \notin {"flushSel", "select"} => chain' = chain
           /\ c = "rule" => rules' = rules \cup {i}
           /\ c = "delRule" => rules' = rules \ {i}
           /\ c \notin {"rule", "delRule"} => rules' = rules
           /\ c = "fallback" => fallback' = fallback \cup {i}
           /\ c = "flushTable" => fallback' = fallback \ {i}
           /\ c \notin {"fallback", "flushTable"} => fallback' = fallback
           /\ c = "route" => route' = [route EXCEPT ![1] = dev]
           /\ c = "pin" => route' = [route EXCEPT ![i] = dev \cap {i}]
           /\ c = "flushTable" => route' = [route EXCEPT ![i] = {}]
           /\ c \notin {"route", "pin", "flushTable"} => route' = route
           /\ c = "bypass" => bypass' = TRUE
           /\ c = "delBypass" => bypass' = FALSE
           /\ c \notin {"bypass", "delBypass"} => bypass' = bypass
           /\ c = "nat" => nat' = nat + 1
           /\ c = "delNat" => nat' = IF nat > 0 THEN nat - 1 ELSE nat
           /\ c \notin {"nat", "delNat"} => nat' = nat
BY DEF Effect

(* The mode never changes, nor what follows from it. *)
LEMMA ModeFixed ==
    ASSUME mode' = mode
    PROVE  /\ NRules' = NRules /\ NTables' = NTables /\ Rules' = Rules /\ Names' = Names
           /\ SetupLen' = SetupLen /\ SetupMangle' = SetupMangle /\ SetupTables' = SetupTables
           /\ TeardownLen' = TeardownLen /\ TeardownMangle' = TeardownMangle
           /\ TeardownTables' = TeardownTables
           /\ SetupCmds' = SetupCmds /\ TeardownCmds' = TeardownCmds
<1>1. /\ NRules' = NRules /\ NTables' = NTables /\ Names' = Names
      /\ SetupLen' = SetupLen /\ SetupMangle' = SetupMangle /\ SetupTables' = SetupTables
      /\ TeardownLen' = TeardownLen /\ TeardownMangle' = TeardownMangle
      /\ TeardownTables' = TeardownTables
  BY DEF NRules, NTables, Names, SetupLen, SetupMangle, SetupTables, TeardownLen,
         TeardownMangle, TeardownTables
<1>2. WGRules' = WGRules /\ RoutingCmds' = RoutingCmds
  BY DEF WGRules, RoutingCmds
<1>3. Rules' = Rules
  BY <1>2 DEF Rules
<1>4. SetupCmds' = SetupCmds
  BY <1>2, Zenon DEF SetupCmds
<1>5. TeardownCmds' = TeardownCmds
  BY <1>2, Zenon DEF TeardownCmds
<1> QED
  BY <1>1, <1>3, <1>4, <1>5

(* The places are numbers, and the rules are deleted and the tables        *)
(* emptied before the end.                                                 *)
LEMMA Places ==
    ASSUME mode \in Modes
    PROVE  /\ KnownMode /\ N \in Nat /\ N > 0 /\ MaxCrashes \in Nat
           /\ NRules \in 1..5 /\ NTables \in 1..N
           /\ SetupLen \in Nat /\ SetupMangle \in Nat /\ SetupTables \in Nat
           /\ SetupLen > SetupMangle + NRules /\ SetupLen > SetupTables + 3 * NTables
           /\ SetupLen > 6 /\ SetupMangle >= 2 /\ SetupTables >= 2
           /\ TeardownLen \in Nat /\ TeardownMangle \in Nat /\ TeardownTables \in Nat
           /\ TeardownLen - 1 > TeardownMangle + NRules
           /\ TeardownLen - 1 > TeardownTables + 2 * NTables
           /\ TeardownLen > 6 /\ TeardownMangle >= 1 /\ TeardownTables >= 1
<1>1. KnownMode /\ N \in Nat /\ N > 0 /\ MaxCrashes \in Nat
  BY RoutingAssumption DEF KnownMode
<1> QED
  BY <1>1 DEF KnownMode, NRules, NTables, SetupLen, SetupMangle, SetupTables, TeardownLen,
              TeardownMangle, TeardownTables

(* A command is taken off the list, and is the next one of Setup's or of   *)
(* Teardown's.                                                             *)
LEMMA CmdStep ==
    ASSUME Aligned, mode \in Modes, job \in {"off", "setup", "run", "teardown"}, RunCmd
    PROVE  /\ mode' = mode /\ job' = job /\ job \in {"setup", "teardown"}
           /\ At \in Nat /\ At' = At + 1
           /\ job = "setup" => At < SetupLen /\ Head(cmds) = SetupCmds[At + 1]
           /\ job = "teardown" => At < TeardownLen /\ Head(cmds) = TeardownCmds[At + 1]
           /\ Aligned'
<1>1. /\ cmds # <<>> /\ cmds' = Tail(cmds) /\ mode' = mode /\ job' = job
  BY DEF RunCmd
<1>2. job \in {"setup", "teardown"}
  BY <1>1 DEF Aligned
<1>3. /\ cmds \in Seq(AnyCmd) /\ Len(cmds) \in Nat /\ Len(cmds) > 0 /\ Head(cmds) = cmds[1]
      /\ Tail(cmds) \in Seq(AnyCmd) /\ Len(Tail(cmds)) = Len(cmds) - 1
      /\ \A j \in 1..Len(Tail(cmds)) : Tail(cmds)[j] = cmds[j + 1]
  BY <1>1, HeadTailProperties, LenProperties, EmptySeq DEF Aligned
<1>4. /\ SetupLen' = SetupLen /\ TeardownLen' = TeardownLen
      /\ SetupCmds' = SetupCmds /\ TeardownCmds' = TeardownCmds
      /\ SetupLen \in Nat /\ TeardownLen \in Nat
  BY <1>1, ModeFixed, Places
<1>5. cmds' \in Seq(AnyCmd) /\ Len(cmds') = Len(cmds) - 1
  BY <1>1, <1>3
<1>6. CASE job = "setup"
  <2>1. Len(cmds) <= SetupLen /\ \A j \in 1..Len(cmds) : cmds[j] = SetupCmds[At + j]
    BY <1>6 DEF Aligned
  <2>2. At = SetupLen - Len(cmds) /\ At' = SetupLen - Len(cmds')
    BY <1>1, <1>4, <1>6 DEF At
  <2>3. At \in Nat /\ At' = At + 1 /\ At < SetupLen
    BY <1>3, <1>4, <1>5, <2>1, <2>2
  <2>4. Head(cmds) = SetupCmds[At + 1]
    BY <1>3, <2>1
  <2>5. ASSUME NEW j \in 1..Len(cmds') PROVE cmds'[j] = SetupCmds[At' + j]
    <3>1. cmds'[j] = cmds[j + 1] /\ j + 1 \in 1..Len(cmds) /\ At + (j + 1) = At' + j
      BY <1>1, <1>3, <1>5, <2>3
    <3> QED
      BY <2>1, <3>1
  <2>6. Aligned'
    BY <1>1, <1>3, <1>4, <1>5, <1>6, <2>1, <2>5 DEF Aligned
  <2> QED
    BY <1>1, <1>2, <1>6, <2>3, <2>4, <2>6
<1>7. CASE job = "teardown"
  <2>1. Len(cmds) <= TeardownLen /\ \A j \in 1..Len(cmds) : cmds[j] = TeardownCmds[At + j]
    BY <1>7 DEF Aligned
  <2>2. At = TeardownLen - Len(cmds) /\ At' = TeardownLen - Len(cmds')
    BY <1>1, <1>4, <1>7 DEF At
  <2>3. At \in Nat /\ At' = At + 1 /\ At < TeardownLen
    BY <1>3, <1>4, <1>5, <2>1, <2>2
  <2>4. Head(cmds) = TeardownCmds[At + 1]
    BY <1>3, <2>1
  <2>5. ASSUME NEW j \in 1..Len(cmds') PROVE cmds'[j] = TeardownCmds[At' + j]
    <3>1. cmds'[j] = cmds[j + 1] /\ j + 1 \in 1..Len(cmds) /\ At + (j + 1) = At' + j
      BY <1>1, <1>3, <1>5, <2>3
    <3> QED
      BY <2>1, <3>1
  <2>6. Aligned'
    BY <1>1, <1>3, <1>4, <1>5, <1>7, <2>1, <2>5 DEF Aligned
  <2> QED
    BY <1>1, <1>2, <1>7, <2>3, <2>4, <2>6
<1> QED
  BY <1>2, <1>6, <1>7

(* An element more at the end of a chain. *)
LEMMA AppendIs ==
    ASSUME NEW S, NEW s \in Seq(S), NEW e \in S
    PROVE  /\ Append(s, e) \in Seq(S) /\ Len(Append(s, e)) = Len(s) + 1 /\ Len(s) \in Nat
           /\ Append(s, e)[Len(s) + 1] = e /\ \A j \in 1..Len(s) : Append(s, e)[j] = s[j]
OBVIOUS

(* Every command of Setup keeps the invariant. *)
LEMMA SetupCmdRInv ==
    ASSUME RInv, RunCmd, job = "setup"
    PROVE  RInv'
<1> DEFINE x == Head(cmds)
           k == At + 1
<1>1. /\ mode \in Modes /\ job \in {"off", "setup", "run", "teardown"}
      /\ mode' = mode /\ job' = "setup" /\ At \in Nat /\ At' = k /\ At < SetupLen
      /\ x = SetupCmds[k] /\ Aligned'
  <2>1. Aligned /\ mode \in Modes /\ job \in {"off", "setup", "run", "teardown"}
    BY DEF RInv, Shape
  <2> QED
    BY <2>1, CmdStep
<1>2. /\ NRules' = NRules /\ NTables' = NTables /\ Rules' = Rules /\ Names' = Names
      /\ SetupLen' = SetupLen /\ SetupMangle' = SetupMangle /\ SetupTables' = SetupTables
  BY <1>1, ModeFixed
<1>3. /\ KnownMode /\ N \in Nat /\ N > 0 /\ NRules \in 1..5 /\ NTables \in 1..N
      /\ SetupLen \in Nat /\ SetupMangle \in Nat /\ SetupTables \in Nat
      /\ SetupLen > SetupMangle + NRules /\ SetupLen > SetupTables + 3 * NTables
      /\ SetupMangle >= 2 /\ SetupTables >= 2 /\ SetupLen > 6
  BY <1>1, Places
<1>4. SetupKind(k, x)
  BY <1>1, <1>3, SetupKinds
<1>5. /\ Effect(x.c, x.i)
      /\ dev' = dev /\ connmark' = connmark /\ crashes' = crashes /\ armed' = armed
      /\ halfTorn' = halfTorn
  BY DEF RunCmd
<1>6. direct' \subseteq Dests /\ proxy' \subseteq Dests
  <2>1. x.c # "destroySets"
    BY <1>4 DEF SetupKind
  <2>2. direct \subseteq Dests /\ proxy \subseteq Dests
    BY DEF RInv, Shape
  <2>3. CASE x.c = "load"
    BY <2>2, <2>3 DEF RunCmd
  <2>4. CASE x.c # "load"
    BY <2>1, <2>2, <2>4 DEF RunCmd, setVars
  <2> QED
    BY <2>3, <2>4
<1> HIDE DEF x, k
<1>k. k = At + 1 /\ k \in Nat /\ k <= SetupLen
  BY <1>1, <1>3 DEF k
<1>p. pre \in Seq(Names) /\ Len(pre) \in Nat
  BY LenProperties DEF RInv, Shape
<1>7. \/ \E a \in 1..NRules : k = SetupMangle + a /\ pre' = Append(pre, Rules[a])
      \/ pre' = pre /\ \A a \in 1..NRules : k # SetupMangle + a
  BY <1>4, <1>5, EffectIs DEF SetupKind
<1>8. OwnRules' = Clip(k - SetupMangle) /\ OwnRules = Clip(At - SetupMangle)
  BY <1>1, <1>2 DEF OwnRules, Clip
<1>o. /\ Len(pre) <= 5 * crashes + OwnRules /\ crashes \in Nat
      /\ Len(pre) >= OwnRules /\ \A a \in 1..OwnRules : pre[Len(pre) - OwnRules + a] = Rules[a]
  BY <1>1 DEF RInv, Copies, Appended, Shape
<1>9. /\ pre' \in Seq(Names) /\ Len(pre') <= 5 * crashes + OwnRules' /\ Appended'
      /\ \A j \in 1..Len(pre) : j \in 1..Len(pre') /\ pre'[j] = pre[j]
  <2>1. CASE pre' = pre /\ \A a \in 1..NRules : k # SetupMangle + a
    <3>1. k - SetupMangle \notin 1..NRules
      <4>1. ASSUME k - SetupMangle \in 1..NRules PROVE FALSE
        <5>1. k = SetupMangle + (k - SetupMangle)
          BY <1>3, <1>k
        <5> QED
          BY <2>1, <4>1, <5>1
      <4> QED
        BY <4>1
    <3>2. OwnRules' = OwnRules
      BY <1>1, <1>3, <1>8, <1>k, <3>1 DEF Clip
    <3>3. /\ Len(pre') = Len(pre)
          /\ \A a \in 1..OwnRules' : pre'[Len(pre') - OwnRules' + a] = Rules'[a]
      BY <1>2, <1>o, <2>1, <3>2
    <3> QED
      BY <1>p, <1>o, <2>1, <3>2, <3>3 DEF Appended
  <2>2. ASSUME NEW a \in 1..NRules, k = SetupMangle + a, pre' = Append(pre, Rules[a])
        PROVE  /\ pre' \in Seq(Names) /\ Len(pre') <= 5 * crashes + OwnRules' /\ Appended'
               /\ \A j \in 1..Len(pre) : j \in 1..Len(pre') /\ pre'[j] = pre[j]
    <3>1. OwnRules' = a /\ OwnRules = a - 1
      BY <1>1, <1>3, <1>8, <1>k, <2>2 DEF Clip
    <3>2. Rules[a] \in Names
      BY RuleNames
    <3>3. /\ pre' \in Seq(Names) /\ Len(pre') = Len(pre) + 1 /\ pre'[Len(pre) + 1] = Rules[a]
          /\ \A j \in 1..Len(pre) : pre'[j] = pre[j]
      BY <1>p, <2>2, <3>2, AppendIs
    <3>4. ASSUME NEW b \in 1..a PROVE pre'[Len(pre') - a + b] = Rules[b]
      <4>1. CASE b = a
        <5>1. Len(pre') - a + b = Len(pre) + 1
          BY <1>3, <1>p, <3>3, <4>1
        <5> QED
          BY <3>3, <4>1, <5>1
      <4>2. CASE b # a
        <5>1. /\ b \in 1..(a - 1) /\ Len(pre') - a + b = Len(pre) - (a - 1) + b
              /\ Len(pre) - (a - 1) + b \in 1..Len(pre)
          BY <1>3, <1>p, <1>o, <3>1, <3>3, <4>2
        <5>2. pre[Len(pre) - (a - 1) + b] = Rules[b]
          BY <1>o, <3>1, <5>1
        <5> QED
          BY <3>3, <5>1, <5>2
      <4> QED
        BY <4>1, <4>2
    <3>5. Appended'
      <4>1. Len(pre') >= OwnRules'
        BY <1>3, <1>p, <1>o, <3>1, <3>3
      <4>2. \A b \in 1..OwnRules' : pre'[Len(pre') - OwnRules' + b] = Rules'[b]
        BY <1>2, <3>1, <3>4
      <4> QED
        BY <4>1, <4>2 DEF Appended
    <3>6. Len(pre') <= 5 * crashes + OwnRules'
      BY <1>3, <1>p, <1>o, <3>1, <3>3
    <3>7. \A j \in 1..Len(pre) : j \in 1..Len(pre')
      BY <1>p, <3>3
    <3> QED
      BY <3>3, <3>5, <3>6, <3>7
  <2> QED
    BY <1>7, <2>1, <2>2
<1>10. /\ rules \subseteq rules' /\ fallback \subseteq fallback'
       /\ rules' \subseteq 1..NTables /\ fallback' \subseteq 1..NTables
       /\ \A t \in 1..NTables : /\ k = SetupTables + (3 * t - 2) => t \in rules'
                                /\ k = SetupTables + (3 * t - 1) => t \in fallback'
  <2>1. rules \subseteq 1..NTables /\ fallback \subseteq 1..NTables
    BY DEF RInv, Shape
  <2>2. /\ rules' = rules \/ (rules' = rules \cup {x.i} /\ x.c = "rule")
        /\ x.c = "rule" => rules' = rules \cup {x.i}
    BY <1>4, <1>5, EffectIs DEF SetupKind
  <2>3. /\ fallback' = fallback \/ (fallback' = fallback \cup {x.i} /\ x.c = "fallback")
        /\ x.c = "fallback" => fallback' = fallback \cup {x.i}
    BY <1>4, <1>5, EffectIs DEF SetupKind
  <2>4. /\ x.c \in {"rule", "fallback"} => x.i \in 1..NTables
        /\ \A t \in 1..NTables : /\ k = SetupTables + (3 * t - 2) => x.c = "rule" /\ x.i = t
                                 /\ k = SetupTables + (3 * t - 1) => x.c = "fallback" /\ x.i = t
    BY <1>4 DEF SetupKind
  <2>5. rules \subseteq rules' /\ rules' \subseteq 1..NTables
    BY <2>1, <2>2, <2>4
  <2>6. fallback \subseteq fallback' /\ fallback' \subseteq 1..NTables
    BY <2>1, <2>3, <2>4
  <2>7. \A t \in 1..NTables : /\ k = SetupTables + (3 * t - 2) => t \in rules'
                              /\ k = SetupTables + (3 * t - 1) => t \in fallback'
    BY <2>2, <2>3, <2>4
  <2> QED
    BY <2>5, <2>6, <2>7
<1>11. /\ route' \in [Tunnels -> SUBSET Tunnels]
       /\ \A t \in Tunnels : route'[t] \subseteq dev' /\ (t > NTables => route'[t] = {})
       /\ mode' = "sticky" => \A t \in Tunnels : route'[t] \subseteq {t}
  <2>1. /\ route \in [Tunnels -> SUBSET Tunnels] /\ dev \subseteq Tunnels
        /\ \A t \in Tunnels : route[t] \subseteq dev /\ (t > NTables => route[t] = {})
        /\ mode = "sticky" => \A t \in Tunnels : route[t] \subseteq {t}
    BY DEF RInv, Shape
  <2>2. 1 \in Tunnels /\ 1..NTables \subseteq Tunnels /\ \A t \in 1..NTables : ~(t > NTables)
    BY <1>3 DEF Tunnels
  <2>3. \/ route' = route
        \/ route' = [route EXCEPT ![1] = dev] /\ mode # "sticky"
        \/ route' = [route EXCEPT ![x.i] = dev \cap {x.i}] /\ x.i \in 1..NTables
    BY <1>4, <1>5, EffectIs DEF SetupKind
  <2>4. CASE route' = route
    BY <1>1, <1>5, <2>1, <2>4
  <2>5. CASE route' = [route EXCEPT ![1] = dev] /\ mode # "sticky"
    <3>1. ~(1 > NTables)
      BY <1>3
    <3>2. \A t \in Tunnels : route'[t] = IF t = 1 THEN dev ELSE route[t]
      BY <2>1, <2>5
    <3>3. route' \in [Tunnels -> SUBSET Tunnels]
      BY <2>1, <2>2, <2>5
    <3> QED
      BY <1>1, <1>5, <2>1, <2>5, <3>1, <3>2, <3>3
  <2>6. CASE route' = [route EXCEPT ![x.i] = dev \cap {x.i}] /\ x.i \in 1..NTables
    <3>1. ~(x.i > NTables) /\ x.i \in Tunnels
      BY <2>2, <2>6
    <3>2. \A t \in Tunnels : route'[t] = IF t = x.i THEN dev \cap {x.i} ELSE route[t]
      BY <2>1, <2>6
    <3>3. route' \in [Tunnels -> SUBSET Tunnels]
      BY <2>1, <2>6, <3>1
    <3> QED
      BY <1>1, <1>5, <2>1, <3>1, <3>2, <3>3
  <2> QED
    BY <2>3, <2>4, <2>5, <2>6
<1>12. /\ chain' \in Seq(Tunnels) /\ Len(chain') <= N
       /\ mode' # "sticky" => chain' = <<>>
  <2>1. /\ chain \in Seq(Tunnels) /\ Len(chain) <= N /\ dev \in SUBSET Tunnels
        /\ mode # "sticky" => chain = <<>>
    BY DEF RInv, Shape
  <2>2. \/ chain' = chain
        \/ chain' = <<>>
        \/ chain' = SetToSeq(dev) /\ mode = "sticky"
    BY <1>4, <1>5, EffectIs DEF SetupKind
  <2>3. <<>> \in Seq(Tunnels) /\ Len(<<>>) <= N
    BY <1>3
  <2> QED
    BY <1>1, <2>1, <2>2, <2>3, SetToSeqIs
<1>13. /\ (k >= 1 => bypass') /\ bypass' \in BOOLEAN
       /\ nat' \in Nat /\ nat' <= crashes + OwnNat' /\ (OwnNat' = 1 => nat' > 0)
  <2>1. bypass \in BOOLEAN /\ (At >= 1 => bypass)
    BY <1>1 DEF RInv, Shape, SetupDid
  <2>2. bypass' = bypass \/ bypass' = TRUE
    BY <1>4, <1>5, EffectIs DEF SetupKind
  <2>3. k = 1 => bypass' = TRUE
    BY <1>4, <1>5, EffectIs DEF SetupKind
  <2>4. bypass' /\ bypass' \in BOOLEAN
    <3>1. CASE k = 1
      BY <2>3, <3>1
    <3>2. CASE k # 1
      <4>1. At >= 1
        BY <1>1, <1>k, <3>2
      <4> QED
        BY <2>1, <2>2, <4>1
    <3> QED
      BY <3>1, <3>2
  <2>5. OwnNat = 0 /\ OwnNat' = IF k >= SetupLen THEN 1 ELSE 0
    BY <1>1, <1>2, <1>3 DEF OwnNat
  <2>6. nat \in Nat /\ nat <= crashes
    BY <1>o, <2>5 DEF RInv, Shape, Copies
  <2>7. /\ k = SetupLen => nat' = nat + 1
        /\ k # SetupLen => nat' = nat
    BY <1>4, <1>5, EffectIs DEF SetupKind
  <2>8. nat' \in Nat /\ nat' <= crashes + OwnNat' /\ (OwnNat' = 1 => nat' > 0)
    BY <1>3, <1>k, <1>o, <2>5, <2>6, <2>7
  <2> QED
    BY <2>4, <2>8
<1>14. /\ out' \in Seq({"tunnel", "direct", "proxy"}) /\ Len(out') <= 3
       /\ \A j \in 1..Len(out') : out'[j] = OutRules[j]
       /\ mode' # "transit" => out' = <<>>
       /\ mode = "transit" /\ k >= 3 => Len(out') = IF k > 6 THEN 3 ELSE k - 3
  <2>1. /\ out \in Seq({"tunnel", "direct", "proxy"}) /\ Len(out) <= 3 /\ Len(out) \in Nat
        /\ \A j \in 1..Len(out) : out[j] = OutRules[j]
        /\ mode # "transit" => out = <<>>
        /\ mode = "transit" /\ At >= 3 => Len(out) = IF At > 6 THEN 3 ELSE At - 3
    BY <1>1, LenProperties DEF RInv, Shape, SetupDid
  <2>2. CASE mode # "transit"
    <3>1. out' = out
      BY <1>4, <1>5, <2>2, EffectIs DEF SetupKind
    <3> QED
      BY <1>1, <2>1, <2>2, <3>1
  <2>3. CASE mode = "transit" /\ k \notin 3..6
    <3>1. out' = out
      BY <1>4, <1>5, <2>3, EffectIs DEF SetupKind
    <3>2. k >= 3 => At > 6 \/ At = 6
      BY <1>k, <1>1, <2>3
    <3>3. k >= 3 => k > 6 /\ Len(out) = 3
      <4>1. k >= 3 => At >= 3 /\ (IF At > 6 THEN 3 ELSE At - 3) = 3 /\ k > 6
        BY <1>1, <1>k, <3>2
      <4> QED
        BY <2>1, <2>3, <4>1
    <3>4. k >= 3 => Len(out') = IF k > 6 THEN 3 ELSE k - 3
      BY <3>1, <3>3
    <3>5. mode' = "transit"
      BY <1>1, <2>3
    <3> QED
      BY <2>1, <3>1, <3>4, <3>5
  <2>4. CASE mode = "transit" /\ k = 3
    <3>1. out' = <<>>
      BY <1>4, <1>5, <2>4, EffectIs DEF SetupKind
    <3>2. /\ <<>> \in Seq({"tunnel", "direct", "proxy"}) /\ Len(<<>>) = 0
      OBVIOUS
    <3>3. out' \in Seq({"tunnel", "direct", "proxy"}) /\ Len(out') = 0
      BY <3>1, <3>2
    <3>4. (IF k > 6 THEN 3 ELSE k - 3) = 0
      BY <2>4
    <3> QED
      BY <1>1, <2>4, <3>3, <3>4
  <2>5. ASSUME mode = "transit", NEW a \in 1..3, k = 3 + a
        PROVE  /\ out' \in Seq({"tunnel", "direct", "proxy"}) /\ Len(out') = a
               /\ \A j \in 1..a : out'[j] = OutRules[j]
    <3>1. out' = Append(out, OutRules[a])
      BY <1>4, <1>5, <2>5, EffectIs DEF SetupKind
    <3>2. Len(out) = a - 1
      BY <1>1, <1>k, <2>1, <2>5
    <3>3. OutRules[a] \in {"tunnel", "direct", "proxy"}
      BY DEF OutRules
    <3>4. /\ out' \in Seq({"tunnel", "direct", "proxy"}) /\ Len(out') = Len(out) + 1
          /\ out'[Len(out) + 1] = OutRules[a] /\ \A j \in 1..Len(out) : out'[j] = out[j]
      BY <2>1, <3>1, <3>3, AppendIs
    <3> QED
      BY <2>1, <3>2, <3>4
  <2>6. CASE mode = "transit" /\ k \in 4..6
    <3> DEFINE a == k - 3
    <3>1. a \in 1..3 /\ k = 3 + a
      BY <1>k, <2>6
    <3> HIDE DEF a
    <3>2. /\ out' \in Seq({"tunnel", "direct", "proxy"}) /\ Len(out') = a
          /\ \A j \in 1..a : out'[j] = OutRules[j]
      BY <2>5, <2>6, <3>1
    <3> QED
      BY <1>1, <2>6, <3>1, <3>2
  <2>7. mode # "transit" \/ k \notin 3..6 \/ k = 3 \/ k \in 4..6
    BY <1>k
  <2> QED
    BY <2>2, <2>3, <2>4, <2>6, <2>7
<1>15. Shape'
  <2>1. /\ mode' \in Modes /\ job' \in {"off", "setup", "run", "teardown"}
        /\ pre' \in Seq(Names') /\ rules' \subseteq 1..NTables' /\ fallback' \subseteq 1..NTables'
    BY <1>1, <1>2, <1>9, <1>10
  <2>2. dev' \subseteq Tunnels /\ connmark' \in [Flows -> 0..N] /\ crashes' \in 0..MaxCrashes
        /\ armed' \in BOOLEAN /\ halfTorn' \in BOOLEAN
    BY <1>5 DEF RInv, Shape
  <2>3. \A t \in Tunnels : route'[t] \subseteq dev' /\ (t > NTables' => route'[t] = {})
    BY <1>2, <1>11
  <2> QED
    BY <1>6, <1>11, <1>12, <1>13, <1>14, <2>1, <2>2, <2>3 DEF Shape
<1>16. Copies'
  BY <1>5, <1>9, <1>13 DEF Copies
<1>17. SetupDid'
  <2>1. ASSUME NEW t \in 1..NTables
        PROVE  /\ k >= SetupTables + (3 * t - 2) => t \in rules'
               /\ k >= SetupTables + (3 * t - 1) => t \in fallback'
    <3>1. /\ At >= SetupTables + (3 * t - 2) => t \in rules
          /\ At >= SetupTables + (3 * t - 1) => t \in fallback
      BY <1>1 DEF RInv, SetupDid
    <3>2. /\ k >= SetupTables + (3 * t - 2) => At >= SetupTables + (3 * t - 2)
                                                \/ k = SetupTables + (3 * t - 2)
          /\ k >= SetupTables + (3 * t - 1) => At >= SetupTables + (3 * t - 1)
                                                \/ k = SetupTables + (3 * t - 1)
      BY <1>1, <1>3, <1>k
    <3> QED
      BY <1>10, <3>1, <3>2
  <2> QED
    BY <1>1, <1>2, <1>13, <1>14, <2>1 DEF SetupDid
<1>18. ArmedHas'
  <2>1. armed => /\ \A a \in 1..NRules : In(Rules[a])
                 /\ 1..NTables \subseteq rules /\ 1..NTables \subseteq fallback
    BY DEF RInv, ArmedHas
  <2>2. armed' => \A a \in 1..NRules : \E j \in 1..Len(pre') : pre'[j] = Rules[a]
    BY <1>5, <1>9, <2>1 DEF In
  <2>3. armed' => \A a \in 1..NRules' : \E j \in 1..Len(pre') : pre'[j] = Rules'[a]
    BY <1>2, <2>2
  <2>4. armed' => 1..NTables' \subseteq rules' /\ 1..NTables' \subseteq fallback'
    BY <1>2, <1>5, <1>10, <2>1
  <2> QED
    BY <1>1, <2>3, <2>4 DEF ArmedHas, In
<1>19. ToDelete' /\ TeardownDid' /\ OffClean'
  BY <1>1 DEF ToDelete, TeardownDid, OffClean
<1> QED
  BY <1>1, <1>9, <1>15, <1>16, <1>17, <1>18, <1>19 DEF RInv

(* Deleting one rule leaves the others. *)
LEMMA RemoveFirstKeeps ==
    ASSUME NEW S, NEW s \in Seq(S), NEW h \in 1..Len(s), NEW i \in 1..Len(s), s[i] # s[h]
    PROVE  \E j \in 1..Len(RemoveFirst(s, s[h])) : RemoveFirst(s, s[h])[j] = s[i]
<1> DEFINE e == s[h]
           r == s[i]
           u == RemoveFirst(s, e)
<1>0. \E j \in 1..Len(s) : s[j] = e
  OBVIOUS
<1>4. s[i] = r /\ r # e
  OBVIOUS
<1> HIDE DEF e, r
<1>1. Len(s) \in Nat
  BY LenProperties
<1>r. Removed(s, e, u)
  BY <1>0, RemoveFirstIs
<1> HIDE DEF u
<1>2. Len(u) = Len(s) - 1
  BY <1>r DEF Removed
<1>3. PICK p \in 1..Len(s) :
         s[p] = e /\ \A j \in 1..(Len(s) - 1) : u[j] = IF j < p THEN s[j] ELSE s[j + 1]
  BY <1>r DEF Removed
<1>5. i # p
  BY <1>3, <1>4
<1>6. CASE i < p
  <2>1. i \in 1..(Len(s) - 1)
    BY <1>1, <1>6
  <2> QED
    BY <1>2, <1>3, <1>4, <1>6, <2>1 DEF u, e, r
<1>7. CASE i > p
  <2>1. i - 1 \in 1..(Len(s) - 1) /\ ~(i - 1 < p) /\ (i - 1) + 1 = i
    BY <1>1, <1>7
  <2>2. u[i - 1] = r
    BY <1>3, <1>4, <2>1
  <2> QED
    BY <1>2, <2>1, <2>2 DEF u, e, r
<1> QED
  BY <1>1, <1>5, <1>6, <1>7

(* Every command of Teardown keeps the invariant. *)
LEMMA TeardownCmdRInv ==
    ASSUME RInv, RunCmd, job = "teardown"
    PROVE  RInv'
<1> DEFINE x == Head(cmds)
           k == At + 1
<1>1. /\ mode \in Modes /\ job \in {"off", "setup", "run", "teardown"}
      /\ mode' = mode /\ job' = "teardown" /\ At \in Nat /\ At' = k /\ At < TeardownLen
      /\ x = TeardownCmds[k] /\ Aligned'
  <2>1. Aligned /\ mode \in Modes /\ job \in {"off", "setup", "run", "teardown"}
    BY DEF RInv, Shape
  <2> QED
    BY <2>1, CmdStep
<1>2. /\ NRules' = NRules /\ NTables' = NTables /\ Rules' = Rules /\ Names' = Names
      /\ TeardownLen' = TeardownLen /\ TeardownMangle' = TeardownMangle
      /\ TeardownTables' = TeardownTables
  BY <1>1, ModeFixed
<1>3. /\ KnownMode /\ N \in Nat /\ N > 0 /\ NRules \in 1..5 /\ NTables \in 1..N
      /\ TeardownLen \in Nat /\ TeardownMangle \in Nat /\ TeardownTables \in Nat
      /\ TeardownLen - 1 > TeardownMangle + NRules
      /\ TeardownLen - 1 > TeardownTables + 2 * NTables
      /\ TeardownMangle >= 1 /\ TeardownTables >= 1 /\ TeardownLen > 6
  BY <1>1, Places
<1>4. TeardownKind(k, x)
  BY <1>1, <1>3, TeardownKinds
<1>5. /\ Effect(x.c, x.i)
      /\ dev' = dev /\ connmark' = connmark /\ crashes' = crashes /\ armed' = armed
      /\ halfTorn' = halfTorn
  BY DEF RunCmd
<1>6. /\ x.c # "destroySets" => direct' = direct /\ proxy' = proxy
      /\ x.c = "destroySets" =>
            /\ direct' = IF Named({"direct", "directret"}) THEN direct ELSE {}
            /\ proxy' = IF Named({"proxy", "proxysel"}) THEN proxy ELSE {}
  <2>1. x.c # "load"
    BY <1>4 DEF TeardownKind
  <2> QED
    BY <2>1 DEF RunCmd, setVars
<1>e. /\ x.c = "delete" => pre' = RemoveFirst(pre, x.i)
      /\ x.c \notin {"append", "delete"} => pre' = pre
      /\ x.c = "delRule" => rules' = rules \ {x.i}
      /\ x.c \notin {"rule", "delRule"} => rules' = rules
      /\ x.c = "flushTable" => fallback' = fallback \ {x.i} /\ route' = [route EXCEPT ![x.i] = {}]
      /\ x.c \notin {"fallback", "flushTable"} => fallback' = fallback
      /\ x.c \notin {"route", "pin", "flushTable"} => route' = route
  BY <1>5, EffectIs
<1> HIDE DEF x, k
<1>k. k = At + 1 /\ k \in Nat /\ k <= TeardownLen
  BY <1>1, <1>3 DEF k
<1>p. pre \in Seq(Names) /\ Len(pre) \in Nat
  BY LenProperties DEF RInv, Shape
<1>7. \/ \E a \in 1..NRules : k = TeardownMangle + a /\ pre' = RemoveFirst(pre, Rules[a])
      \/ pre' = pre /\ \A a \in 1..NRules : k # TeardownMangle + a
  BY <1>4, <1>e DEF TeardownKind
<1>8. /\ OwnRules' = NRules - Clip(k - TeardownMangle)
      /\ OwnRules = NRules - Clip(At - TeardownMangle)
  BY <1>1, <1>2 DEF OwnRules, Clip
<1>o. /\ Len(pre) <= 5 * crashes + OwnRules /\ crashes \in Nat
      /\ \A a \in 1..NRules : At < TeardownMangle + a => \E j \in 1..Len(pre) : pre[j] = Rules[a]
  BY DEF RInv, Copies, ToDelete, Shape, In
<1>9. /\ pre' \in Seq(Names) /\ Len(pre') <= 5 * crashes + OwnRules'
      /\ \A a \in 1..NRules : k < TeardownMangle + a => \E j \in 1..Len(pre') : pre'[j] = Rules[a]
  <2>1. CASE pre' = pre /\ \A a \in 1..NRules : k # TeardownMangle + a
    <3>1. k - TeardownMangle \notin 1..NRules
      <4>1. ASSUME k - TeardownMangle \in 1..NRules PROVE FALSE
        <5>1. k = TeardownMangle + (k - TeardownMangle)
          BY <1>3, <1>k
        <5> QED
          BY <2>1, <4>1, <5>1
      <4> QED
        BY <4>1
    <3>2. OwnRules' = OwnRules
      BY <1>1, <1>3, <1>8, <1>k, <3>1 DEF Clip
    <3>3. \A a \in 1..NRules : k < TeardownMangle + a => At < TeardownMangle + a
      BY <1>1, <1>3, <1>k
    <3> QED
      BY <1>p, <1>o, <2>1, <3>2, <3>3
  <2>2. ASSUME NEW a \in 1..NRules, k = TeardownMangle + a, pre' = RemoveFirst(pre, Rules[a])
        PROVE  /\ pre' \in Seq(Names) /\ Len(pre') <= 5 * crashes + OwnRules'
               /\ \A b \in 1..NRules : k < TeardownMangle + b =>
                                          \E j \in 1..Len(pre') : pre'[j] = Rules[b]
    <3>1. OwnRules' = NRules - a /\ OwnRules = NRules - (a - 1)
      BY <1>1, <1>3, <1>8, <1>k, <2>2 DEF Clip
    <3>2. \E j \in 1..Len(pre) : pre[j] = Rules[a]
      <4>1. At < TeardownMangle + a
        BY <1>1, <1>3, <1>k, <2>2
      <4> QED
        BY <1>o, <4>1
    <3>3. pre' \in Seq(Names) /\ Len(pre') = Len(pre) - 1
      BY <1>p, <2>2, <3>2, RemoveFirstIs DEF Removed
    <3>4. Len(pre') <= 5 * crashes + OwnRules'
      BY <1>3, <1>p, <1>o, <3>1, <3>3
    <3>5. ASSUME NEW b \in 1..NRules, k < TeardownMangle + b
          PROVE  \E j \in 1..Len(pre') : pre'[j] = Rules[b]
      <4>1. At < TeardownMangle + b /\ a # b
        BY <1>1, <1>3, <1>k, <2>2, <3>5
      <4>2. Rules[b] # Rules[a]
        BY <4>1, RuleNames
      <4>3. \E j \in 1..Len(pre) : pre[j] = Rules[b]
        BY <1>o, <4>1
      <4>4. PICK h \in 1..Len(pre) : pre[h] = Rules[a]
        BY <3>2
      <4>5. PICK i \in 1..Len(pre) : pre[i] = Rules[b]
        BY <4>3
      <4>6. \E j \in 1..Len(RemoveFirst(pre, pre[h])) : RemoveFirst(pre, pre[h])[j] = pre[i]
        BY <1>p, <4>2, <4>4, <4>5, RemoveFirstKeeps
      <4> QED
        BY <2>2, <4>4, <4>5, <4>6
    <3> QED
      BY <3>3, <3>4, <3>5
  <2> QED
    BY <1>7, <2>1, <2>2
<1>10. /\ rules' \subseteq rules /\ fallback' \subseteq fallback
       /\ \A t \in 1..NTables :
             /\ k = TeardownTables + (2 * t - 1) => t \notin rules'
             /\ k = TeardownTables + 2 * t => t \notin fallback' /\ route'[t] = {}
       /\ route' \in [Tunnels -> SUBSET Tunnels]
       /\ \A t \in Tunnels : route'[t] \subseteq route[t]
  <2>1. route \in [Tunnels -> SUBSET Tunnels] /\ 1..NTables \subseteq Tunnels
    BY <1>3 DEF RInv, Shape, Tunnels
  <2>2. /\ x.c = "delRule" => rules' = rules \ {x.i}
        /\ x.c # "delRule" => rules' = rules
    BY <1>4, <1>e DEF TeardownKind
  <2>3. /\ x.c = "flushTable" => /\ fallback' = fallback \ {x.i} /\ x.i \in 1..NTables
                                 /\ route' = [route EXCEPT ![x.i] = {}]
        /\ x.c # "flushTable" => fallback' = fallback /\ route' = route
    BY <1>4, <1>e DEF TeardownKind
  <2>4. \A t \in 1..NTables : /\ k = TeardownTables + (2 * t - 1) => x.c = "delRule" /\ x.i = t
                              /\ k = TeardownTables + 2 * t => x.c = "flushTable" /\ x.i = t
    BY <1>4 DEF TeardownKind
  <2>5. route' \in [Tunnels -> SUBSET Tunnels] /\ \A t \in Tunnels : route'[t] \subseteq route[t]
    BY <2>1, <2>3
  <2>6. x.c = "flushTable" => route'[x.i] = {} /\ x.i \notin fallback'
    BY <2>1, <2>3
  <2>7. rules' \subseteq rules /\ fallback' \subseteq fallback
    BY <2>2, <2>3
  <2>8. \A t \in 1..NTables : /\ k = TeardownTables + (2 * t - 1) => t \notin rules'
                              /\ k = TeardownTables + 2 * t => t \notin fallback' /\ route'[t] = {}
    BY <2>2, <2>4, <2>6
  <2> QED
    BY <2>5, <2>7, <2>8
<1>11. /\ chain' = chain \/ chain' = <<>>
       /\ mode = "sticky" /\ k = 7 => chain' = <<>>
       /\ out' = out \/ out' = <<>>
       /\ mode = "transit" /\ k = 5 => out' = <<>>
  <2>1. chain' = chain \/ chain' = <<>>
    BY <1>4, <1>5, EffectIs DEF TeardownKind
  <2>2. mode = "sticky" /\ k = 7 => chain' = <<>>
    BY <1>4, <1>5, EffectIs DEF TeardownKind
  <2>3. out' = out \/ out' = <<>>
    BY <1>4, <1>5, EffectIs DEF TeardownKind
  <2>4. mode = "transit" /\ k = 5 => out' = <<>>
    BY <1>4, <1>5, EffectIs DEF TeardownKind
  <2> QED
    BY <2>1, <2>2, <2>3, <2>4
<1>12. bypass' \in BOOLEAN /\ (k >= 1 => ~bypass')
  <2>1. bypass \in BOOLEAN /\ (At >= 1 => ~bypass)
    BY DEF RInv, Shape, TeardownDid
  <2>2. bypass' = bypass \/ bypass' = FALSE
    BY <1>4, <1>5, EffectIs DEF TeardownKind
  <2>3. k = 1 => bypass' = FALSE
    BY <1>4, <1>5, EffectIs DEF TeardownKind
  <2>4. CASE k = 1
    BY <2>3, <2>4
  <2>5. CASE k # 1
    <3>1. At >= 1
      BY <1>1, <1>k, <2>5
    <3>2. bypass = FALSE
      BY <2>1, <3>1, Zenon
    <3>3. bypass' = FALSE
      BY <2>2, <3>2, Zenon
    <3> QED
      BY <3>3, Zenon
  <2> QED
    BY <2>4, <2>5
<1>13. nat' \in Nat /\ nat' <= crashes + OwnNat' /\ (OwnNat' = 1 => nat' > 0)
  <2>1. /\ OwnNat = IF At < TeardownLen - 1 THEN 1 ELSE 0
        /\ OwnNat' = IF k < TeardownLen - 1 THEN 1 ELSE 0
    BY <1>1, <1>2 DEF OwnNat
  <2>2. nat \in Nat /\ nat <= crashes + OwnNat /\ (OwnNat = 1 => nat > 0)
    BY DEF RInv, Shape, Copies
  <2>3. /\ k = TeardownLen - 1 => nat' = IF nat > 0 THEN nat - 1 ELSE nat
        /\ k # TeardownLen - 1 => nat' = nat
    BY <1>4, <1>5, EffectIs DEF TeardownKind
  <2>4. CASE k < TeardownLen - 1
    BY <1>1, <1>3, <1>k, <1>o, <2>1, <2>2, <2>3, <2>4
  <2>5. CASE k = TeardownLen - 1
    <3>1. OwnNat = 1 /\ OwnNat' = 0
      BY <1>1, <1>3, <1>k, <2>1, <2>5
    <3>2. nat > 0 /\ nat <= crashes + 1 /\ nat' = nat - 1
      BY <2>2, <2>3, <2>5, <3>1
    <3> QED
      BY <1>o, <2>2, <3>1, <3>2
  <2>6. CASE k > TeardownLen - 1
    <3>1. OwnNat = 0 /\ OwnNat' = 0
      BY <1>1, <1>3, <1>k, <2>1, <2>6
    <3> QED
      BY <1>1, <1>3, <1>k, <1>o, <2>2, <2>3, <2>6, <3>1
  <2> QED
    BY <1>1, <1>3, <1>k, <2>4, <2>5, <2>6
<1>14. Shape'
  <2>1. /\ mode' \in Modes /\ job' \in {"off", "setup", "run", "teardown"}
        /\ pre' \in Seq(Names') /\ rules' \subseteq 1..NTables' /\ fallback' \subseteq 1..NTables'
    <3>1. rules \subseteq 1..NTables /\ fallback \subseteq 1..NTables
      BY DEF RInv, Shape
    <3> QED
      BY <1>1, <1>2, <1>9, <1>10, <3>1
  <2>2. dev' \subseteq Tunnels /\ connmark' \in [Flows -> 0..N] /\ crashes' \in 0..MaxCrashes
        /\ armed' \in BOOLEAN /\ halfTorn' \in BOOLEAN
    BY <1>5 DEF RInv, Shape
  <2>3. /\ route' \in [Tunnels -> SUBSET Tunnels]
        /\ \A t \in Tunnels : route'[t] \subseteq dev' /\ (t > NTables' => route'[t] = {})
        /\ mode' = "sticky" => \A t \in Tunnels : route'[t] \subseteq {t}
    <3>1. /\ \A t \in Tunnels : route[t] \subseteq dev /\ (t > NTables => route[t] = {})
          /\ mode = "sticky" => \A t \in Tunnels : route[t] \subseteq {t}
      BY DEF RInv, Shape
    <3> QED
      BY <1>1, <1>2, <1>5, <1>10, <3>1
  <2>4. /\ chain' \in Seq(Tunnels) /\ Len(chain') <= N
        /\ mode' # "sticky" => chain' = <<>>
    <3>1. /\ chain \in Seq(Tunnels) /\ Len(chain) <= N /\ (mode # "sticky" => chain = <<>>)
          /\ <<>> \in Seq(Tunnels) /\ Len(<<>>) <= N
      BY <1>3 DEF RInv, Shape
    <3> QED
      BY <1>1, <1>11, <3>1
  <2>5. /\ out' \in Seq({"tunnel", "direct", "proxy"}) /\ Len(out') <= 3
        /\ \A j \in 1..Len(out') : out'[j] = OutRules[j]
        /\ mode' # "transit" => out' = <<>>
    <3>1. /\ out \in Seq({"tunnel", "direct", "proxy"}) /\ Len(out) <= 3
          /\ \A j \in 1..Len(out) : out[j] = OutRules[j]
          /\ mode # "transit" => out = <<>>
      BY DEF RInv, Shape
    <3>2. /\ <<>> \in Seq({"tunnel", "direct", "proxy"}) /\ Len(<<>>) <= 3
          /\ \A j \in 1..Len(<<>>) : FALSE
      OBVIOUS
    <3>3. CASE out' = out
      BY <1>1, <3>1, <3>3
    <3>4. CASE out' = <<>>
      BY <3>2, <3>4
    <3> QED
      BY <1>11, <3>3, <3>4
  <2>6. direct' \subseteq Dests /\ proxy' \subseteq Dests
    BY <1>6 DEF RInv, Shape
  <2> QED
    BY <1>12, <1>13, <2>1, <2>2, <2>3, <2>4, <2>5, <2>6 DEF Shape
<1>15. Copies'
  BY <1>5, <1>9, <1>13 DEF Copies
<1>16. ToDelete'
  BY <1>1, <1>2, <1>9 DEF ToDelete, In
<1>17. ASSUME k = TeardownLen, crashes = 0 PROVE direct' = {} /\ proxy' = {}
  <2>1. x.c = "destroySets"
    BY <1>4, <1>17 DEF TeardownKind
  <2>2. OwnRules = 0
    BY <1>1, <1>3, <1>8, <1>k, <1>17 DEF Clip
  <2>3. Len(pre) = 0
    BY <1>p, <1>o, <1>17, <2>2
  <2>4. ToSet(pre) = {}
    <3>1. DOMAIN pre = 1..Len(pre)
      BY <1>p, LenProperties
    <3>2. DOMAIN pre = {}
      BY <2>3, <3>1
    <3> QED
      BY <3>2 DEF ToSet
  <2>5. out = <<>>
    <3>1. mode = "transit" => At >= 5
      BY <1>1, <1>3, <1>k, <1>17
    <3> QED
      BY <3>1 DEF RInv, Shape, TeardownDid
  <2>6. ToSet(out) = {}
    BY <2>5 DEF ToSet
  <2>7. \A kinds : ~Named(kinds)
    BY <2>4, <2>6 DEF Named
  <2> QED
    BY <1>6, <2>1, <2>7
<1>18. TeardownDid'
  <2>1. ASSUME NEW t \in 1..NTables
        PROVE  /\ k >= TeardownTables + (2 * t - 1) => t \notin rules'
               /\ k >= TeardownTables + 2 * t => t \notin fallback' /\ route'[t] = {}
    <3>1. /\ At >= TeardownTables + (2 * t - 1) => t \notin rules
          /\ At >= TeardownTables + 2 * t => t \notin fallback /\ route[t] = {}
      BY DEF RInv, TeardownDid
    <3>2. /\ k >= TeardownTables + (2 * t - 1) => At >= TeardownTables + (2 * t - 1)
                                                  \/ k = TeardownTables + (2 * t - 1)
          /\ k >= TeardownTables + 2 * t => At >= TeardownTables + 2 * t
                                            \/ k = TeardownTables + 2 * t
      BY <1>1, <1>3, <1>k
    <3>3. t \in Tunnels
      BY <1>3 DEF Tunnels
    <3> QED
      BY <1>10, <3>1, <3>2, <3>3
  <2>2. mode = "transit" /\ k >= 5 => out' = <<>>
    <3>1. mode = "transit" /\ At >= 5 => out = <<>>
      BY DEF RInv, TeardownDid
    <3>2. k >= 5 => At >= 5 \/ k = 5
      BY <1>1, <1>k
    <3> QED
      BY <1>11, <3>1, <3>2
  <2>3. mode = "sticky" /\ k >= 7 => chain' = <<>>
    <3>1. mode = "sticky" /\ At >= 7 => chain = <<>>
      BY DEF RInv, TeardownDid
    <3>2. k >= 7 => At >= 7 \/ k = 7
      BY <1>1, <1>k
    <3> QED
      BY <1>11, <3>1, <3>2
  <2> QED
    BY <1>1, <1>2, <1>5, <1>12, <1>17, <2>1, <2>2, <2>3 DEF TeardownDid
<1>19. Appended' /\ SetupDid' /\ OffClean'
  BY <1>1 DEF Appended, SetupDid, OffClean
<1>20. ArmedHas'
  BY <1>5 DEF RInv, ArmedHas
<1> QED
  BY <1>1, <1>14, <1>15, <1>16, <1>18, <1>19, <1>20 DEF RInv

(* The mark of a packet, and what the selection chain may pick. *)
LEMMA MarkTypes ==
    ASSUME Shape, NEW d, NEW saved \in 0..N, NEW pick \in Picks
    PROVE  Packet(d, saved, pick).mark \in 0..N /\ pick \in 0..N
<1>1. N \in Nat /\ N > 0
  BY RoutingAssumption
<1>2. \A k : MarkAt(k, d, saved) \in 0..N
  BY <1>1 DEF MarkAt, MarkOf
<1>3. pick \in 0..N
  <2>1. chain \in Seq(Tunnels) /\ DOMAIN chain = 1..Len(chain)
    BY LenProperties DEF Shape
  <2>2. \A j \in 1..Len(chain) : chain[j] \in Tunnels
    BY <2>1, ElementOfSeq
  <2> QED
    BY <1>1, <2>1, <2>2 DEF Picks, ToSet, Tunnels
<1> QED
  BY <1>2, <1>3 DEF Packet

(* The first process has nothing to find. *)
LEMMA InitRInv == Init => RInv
<1> SUFFICES ASSUME Init PROVE RInv
  OBVIOUS
<1>1. mode \in Modes /\ job = "off" /\ crashes = 0 /\ armed = FALSE
  BY DEF Init
<1>2. N \in Nat /\ N > 0 /\ MaxCrashes \in Nat /\ NRules \in 1..5
  BY <1>1, Places
<1>3. Aligned
  BY <1>1 DEF Init, Aligned
<1>4. Shape
  <2>1. pre = <<>> /\ out = <<>> /\ chain = <<>>
    BY DEF Init
  <2>2. pre \in Seq(Names) /\ chain \in Seq(Tunnels) /\ Len(chain) <= N
    BY <1>2, <2>1
  <2>3. /\ out \in Seq({"tunnel", "direct", "proxy"}) /\ Len(out) <= 3
        /\ \A j \in 1..Len(out) : out[j] = OutRules[j]
    <3>1. /\ <<>> \in Seq({"tunnel", "direct", "proxy"}) /\ Len(<<>>) <= 3
          /\ \A j \in 1..Len(<<>>) : FALSE
      OBVIOUS
    <3> QED
      BY <2>1, <3>1
  <2>4. connmark \in [Flows -> 0..N] /\ crashes \in 0..MaxCrashes /\ nat \in Nat
    BY <1>2 DEF Init
  <2>5. route \in [Tunnels -> SUBSET Tunnels] /\ \A t \in Tunnels : route[t] = {}
    BY DEF Init
  <2>6. bypass \in BOOLEAN /\ armed \in BOOLEAN /\ halfTorn \in BOOLEAN
    BY DEF Init
  <2> QED
    BY <1>1, <2>1, <2>2, <2>3, <2>4, <2>5, <2>6 DEF Init, Shape
<1>5. Copies
  BY <1>1, <1>2 DEF Init, Copies, OwnRules, OwnNat
<1>6. ~bypass
  BY DEF Init
<1>7. OffClean
  BY <1>6 DEF Init, OffClean
<1>8. Appended /\ ToDelete /\ SetupDid /\ TeardownDid /\ ArmedHas
  BY <1>1 DEF Appended, ToDelete, SetupDid, TeardownDid, ArmedHas
<1> QED
  BY <1>3, <1>4, <1>5, <1>7, <1>8 DEF RInv

(* What holds of the rules and tables alone is kept by what leaves them    *)
(* alone.                                                                  *)
LEMMA SameRules ==
    ASSUME RInv, mode' = mode, pre' = pre, out' = out, chain' = chain, rules' = rules,
           fallback' = fallback, bypass' = bypass, nat' = nat
    PROVE  /\ mode' \in Modes /\ pre' \in Seq(Names')
           /\ out' \in Seq({"tunnel", "direct", "proxy"}) /\ Len(out') <= 3
           /\ \A j \in 1..Len(out') : out'[j] = OutRules[j]
           /\ mode' # "transit" => out' = <<>>
           /\ chain' \in Seq(Tunnels) /\ Len(chain') <= N
           /\ mode' # "sticky" => chain' = <<>>
           /\ rules' \subseteq 1..NTables' /\ fallback' \subseteq 1..NTables'
           /\ bypass' \in BOOLEAN /\ nat' \in Nat
<1>1. NTables' = NTables /\ Names' = Names
  BY ModeFixed
<1> QED
  BY <1>1 DEF RInv, Shape

(* A new process begins its Setup over what there is. *)
LEMMA StartRInv ==
    ASSUME RInv, NEW D \in SUBSET Tunnels, Start(D)
    PROVE  RInv'
<1>1. /\ job = "off" /\ job' = "setup" /\ cmds' = SetupCmds /\ dev' = D
      /\ mode' = mode /\ pre' = pre /\ out' = out /\ chain' = chain /\ rules' = rules
      /\ fallback' = fallback /\ route' = route /\ bypass' = bypass /\ nat' = nat
      /\ direct' = direct /\ proxy' = proxy /\ connmark' = connmark /\ crashes' = crashes
      /\ armed' = armed /\ halfTorn' = halfTorn
  BY DEF Start, setVars, ruleVars
<1>2. mode \in Modes
  BY DEF RInv, Shape
<1>3. /\ KnownMode /\ NRules \in 1..5 /\ SetupLen \in Nat /\ SetupMangle \in Nat
      /\ SetupTables \in Nat /\ SetupMangle >= 2 /\ SetupTables >= 2 /\ SetupLen > 6
      /\ NTables \in 1..N /\ N \in Nat
  BY <1>2, Places
<1>4. /\ NRules' = NRules /\ NTables' = NTables /\ Rules' = Rules
      /\ SetupLen' = SetupLen /\ SetupMangle' = SetupMangle /\ SetupTables' = SetupTables
      /\ SetupCmds' = SetupCmds
  BY <1>1, ModeFixed
<1>5. SetupCmds \in Seq(AnyCmd) /\ Len(SetupCmds) = SetupLen
  BY <1>3, SetupLayout
<1>6. At' = 0
  BY <1>1, <1>3, <1>4, <1>5 DEF At
<1>7. Aligned'
  <2>1. \A j \in 1..Len(cmds') : cmds'[j] = SetupCmds'[At' + j]
    BY <1>1, <1>3, <1>4, <1>5, <1>6
  <2>2. Len(cmds') <= SetupLen'
    BY <1>1, <1>3, <1>4, <1>5
  <2> QED
    BY <1>1, <1>5, <2>1, <2>2 DEF Aligned
<1>8. Shape'
  <2>1. route' \in [Tunnels -> SUBSET Tunnels] /\ \A t \in Tunnels : route'[t] = {}
    <3>1. /\ dev = {} /\ route \in [Tunnels -> SUBSET Tunnels]
          /\ \A t \in Tunnels : route[t] \subseteq dev
      BY <1>1 DEF RInv, Shape, OffClean
    <3> QED
      BY <1>1, <3>1
  <2>2. /\ direct' \subseteq Dests /\ proxy' \subseteq Dests /\ dev' \subseteq Tunnels
        /\ connmark' \in [Flows -> 0..N] /\ crashes' \in 0..MaxCrashes
        /\ armed' \in BOOLEAN /\ halfTorn' \in BOOLEAN
    BY <1>1 DEF RInv, Shape
  <2> QED
    BY <1>1, <2>1, <2>2, SameRules DEF Shape
<1>9. Copies' /\ Appended'
  <2>1. OwnRules' = 0 /\ OwnRules = 0 /\ OwnNat' = 0 /\ OwnNat = 0
    BY <1>1, <1>3, <1>4, <1>6 DEF OwnRules, OwnNat, Clip
  <2>2. Len(pre) \in Nat
    BY LenProperties DEF RInv, Shape
  <2> QED
    BY <1>1, <2>1, <2>2 DEF RInv, Copies, Appended
<1>10. SetupDid'
  <2>1. \A t \in 1..NTables : ~(0 >= SetupTables + (3 * t - 2)) /\ ~(0 >= SetupTables + (3 * t - 1))
    BY <1>3
  <2> QED
    BY <1>1, <1>4, <1>6, <2>1 DEF SetupDid
<1>11. ArmedHas'
  BY <1>1, <1>4 DEF RInv, ArmedHas, In
<1>12. ToDelete' /\ TeardownDid' /\ OffClean'
  BY <1>1 DEF ToDelete, TeardownDid, OffClean
<1> QED
  BY <1>7, <1>8, <1>9, <1>10, <1>11, <1>12 DEF RInv

(* Setup is complete. *)
LEMMA SetupDoneRInv ==
    ASSUME RInv, SetupDone
    PROVE  RInv'
<1>1. /\ job = "setup" /\ job' = "run" /\ cmds = <<>> /\ cmds' = <<>> /\ armed' = TRUE
      /\ mode' = mode /\ pre' = pre /\ out' = out /\ chain' = chain /\ rules' = rules
      /\ fallback' = fallback /\ route' = route /\ bypass' = bypass /\ nat' = nat
      /\ direct' = direct /\ proxy' = proxy /\ connmark' = connmark /\ crashes' = crashes
      /\ dev' = dev /\ halfTorn' = halfTorn
  BY DEF SetupDone, setVars, ruleVars
<1>2. mode \in Modes
  BY DEF RInv, Shape
<1>3. /\ NRules \in 1..5 /\ SetupLen \in Nat /\ SetupMangle \in Nat
      /\ SetupTables \in Nat /\ SetupLen > SetupMangle + NRules
      /\ SetupLen > SetupTables + 3 * NTables /\ NTables \in 1..N /\ N \in Nat /\ SetupLen > 6
  BY <1>2, Places
<1>4. /\ NRules' = NRules /\ NTables' = NTables /\ Rules' = Rules
  BY <1>1, ModeFixed
<1>5. At = SetupLen
  BY <1>1, <1>3 DEF At
<1>6. OwnRules = NRules /\ OwnRules' = NRules /\ OwnNat = 1 /\ OwnNat' = 1
  BY <1>1, <1>3, <1>4, <1>5 DEF OwnRules, OwnNat, Clip
<1>7. Aligned'
  BY <1>1 DEF Aligned
<1>8. Shape'
  <2>1. /\ direct' \subseteq Dests /\ proxy' \subseteq Dests /\ dev' \subseteq Tunnels
        /\ connmark' \in [Flows -> 0..N] /\ crashes' \in 0..MaxCrashes
        /\ armed' \in BOOLEAN /\ halfTorn' \in BOOLEAN
        /\ route' \in [Tunnels -> SUBSET Tunnels]
        /\ \A t \in Tunnels : route'[t] \subseteq dev' /\ (t > NTables' => route'[t] = {})
        /\ mode' = "sticky" => \A t \in Tunnels : route'[t] \subseteq {t}
    BY <1>1, <1>4 DEF RInv, Shape
  <2> QED
    BY <1>1, <2>1, SameRules DEF Shape
<1>9. Copies' /\ Appended'
  BY <1>1, <1>4, <1>6 DEF RInv, Copies, Appended
<1>10. /\ bypass /\ 1..NTables \subseteq rules /\ 1..NTables \subseteq fallback
       /\ mode = "transit" => Len(out) = 3
  <2>1. \A t \in 1..NTables : /\ SetupLen >= SetupTables + (3 * t - 2)
                              /\ SetupLen >= SetupTables + (3 * t - 1)
    BY <1>3
  <2>2. \A t \in 1..NTables : t \in rules /\ t \in fallback
    BY <1>1, <1>5, <2>1 DEF RInv, SetupDid
  <2>3. bypass
    BY <1>1, <1>3, <1>5 DEF RInv, SetupDid
  <2>4. mode = "transit" => Len(out) = 3
    BY <1>1, <1>3, <1>5 DEF RInv, SetupDid
  <2> QED
    BY <2>2, <2>3, <2>4
<1>11. SetupDid'
  <2>1. bypass' /\ armed'
    BY <1>1, <1>10
  <2> QED
    BY <1>1, <1>10, <2>1 DEF SetupDid
<1>12. ArmedHas'
  <2>1. ASSUME NEW a \in 1..NRules PROVE \E j \in 1..Len(pre) : pre[j] = Rules[a]
    <3>1. Len(pre) >= NRules /\ Len(pre) \in Nat /\ pre[Len(pre) - NRules + a] = Rules[a]
      BY <1>1, <1>6, LenProperties DEF RInv, Shape, Appended
    <3>2. Len(pre) - NRules + a \in 1..Len(pre)
      BY <1>3, <3>1
    <3> QED
      BY <3>1, <3>2
  <2> QED
    BY <1>1, <1>4, <1>10, <2>1 DEF ArmedHas, In
<1>13. ToDelete' /\ TeardownDid' /\ OffClean'
  BY <1>1 DEF ToDelete, TeardownDid, OffClean
<1> QED
  BY <1>7, <1>8, <1>9, <1>11, <1>12, <1>13 DEF RInv

(* A rebuild, a new device, traffic and set updates leave the chains of    *)
(* the running process as they are.                                        *)
LEMMA RunningRInv ==
    ASSUME RInv, mode' = mode, job' = job, cmds' = cmds, pre' = pre, out' = out, rules' = rules,
           fallback' = fallback, bypass' = bypass, nat' = nat, crashes' = crashes,
           armed' = armed, halfTorn' = halfTorn,
           job = "run" \/ <<chain', route', dev', direct', proxy'>>
                              = <<chain, route, dev, direct, proxy>>,
           direct' \subseteq Dests, proxy' \subseteq Dests, dev' \subseteq Tunnels,
           connmark' \in [Flows -> 0..N],
           chain' \in Seq(Tunnels), Len(chain') <= N, mode # "sticky" => chain' = <<>>,
           route' \in [Tunnels -> SUBSET Tunnels],
           \A t \in Tunnels : route'[t] \subseteq dev' /\ (t > NTables => route'[t] = {}),
           mode = "sticky" => \A t \in Tunnels : route'[t] \subseteq {t}
    PROVE  RInv'
<1>1. mode \in Modes
  BY DEF RInv, Shape
<1>2. /\ NRules' = NRules /\ NTables' = NTables /\ Rules' = Rules /\ Names' = Names
      /\ SetupLen' = SetupLen /\ SetupMangle' = SetupMangle /\ SetupTables' = SetupTables
      /\ TeardownLen' = TeardownLen /\ TeardownMangle' = TeardownMangle
      /\ TeardownTables' = TeardownTables
      /\ SetupCmds' = SetupCmds /\ TeardownCmds' = TeardownCmds
  BY ModeFixed
<1>3. At' = At
  BY <1>2 DEF At
<1>4. Aligned'
  BY <1>2, <1>3 DEF RInv, Aligned
<1>5. Shape'
  BY <1>2 DEF RInv, Shape
<1>6. OwnRules' = OwnRules /\ OwnNat' = OwnNat
  BY <1>2, <1>3 DEF OwnRules, OwnNat, Clip
<1>7. Copies' /\ Appended'
  BY <1>2, <1>6 DEF RInv, Copies, Appended
<1>8. ToDelete' /\ ArmedHas'
  BY <1>2, <1>3 DEF RInv, ToDelete, ArmedHas, In
<1>9. SetupDid'
  BY <1>2, <1>3 DEF RInv, SetupDid
<1>10. TeardownDid' /\ OffClean'
  <2>1. CASE job = "run"
    BY <2>1 DEF TeardownDid, OffClean
  <2>2. CASE job # "run"
    <3>1. /\ chain' = chain /\ route' = route /\ dev' = dev /\ direct' = direct
          /\ proxy' = proxy
      BY <2>2
    <3>2. TeardownDid'
      BY <1>2, <1>3, <3>1 DEF RInv, TeardownDid
    <3>3. OffClean'
      BY <3>1 DEF RInv, OffClean
    <3> QED
      BY <3>2, <3>3
  <2> QED
    BY <2>1, <2>2
<1> QED
  BY <1>4, <1>5, <1>7, <1>8, <1>9, <1>10 DEF RInv

(* A device comes up. *)
LEMMA DeviceUpRInv ==
    ASSUME RInv, NEW t \in Tunnels, DeviceUp(t)
    PROVE  RInv'
<1>1. /\ job = "run" /\ dev' = dev \cup {t}
      /\ mode' = mode /\ job' = job /\ cmds' = cmds /\ pre' = pre /\ out' = out /\ chain' = chain
      /\ rules' = rules /\ fallback' = fallback /\ route' = route /\ bypass' = bypass
      /\ nat' = nat /\ direct' = direct /\ proxy' = proxy /\ connmark' = connmark
      /\ crashes' = crashes /\ armed' = armed /\ halfTorn' = halfTorn
  BY DEF DeviceUp, setVars, ruleVars
<1>2. /\ direct' \subseteq Dests /\ proxy' \subseteq Dests /\ dev' \subseteq Tunnels
      /\ connmark' \in [Flows -> 0..N]
      /\ chain' \in Seq(Tunnels) /\ Len(chain') <= N /\ (mode # "sticky" => chain' = <<>>)
      /\ route' \in [Tunnels -> SUBSET Tunnels]
      /\ \A u \in Tunnels : route'[u] \subseteq dev' /\ (u > NTables => route'[u] = {})
      /\ mode = "sticky" => \A u \in Tunnels : route'[u] \subseteq {u}
  BY <1>1 DEF RInv, Shape
<1> QED
  BY <1>1, <1>2, RunningRInv

(* A rebuild changes the routes and the selection chain, within their types. *)
LEMMA ApplyActiveRInv ==
    ASSUME RInv, NEW act \in SUBSET Tunnels, ApplyActive(act)
    PROVE  RInv'
<1>1. /\ job = "run" /\ act \subseteq dev
      /\ mode' = mode /\ job' = job /\ cmds' = cmds /\ pre' = pre /\ out' = out /\ dev' = dev
      /\ rules' = rules /\ fallback' = fallback /\ bypass' = bypass
      /\ nat' = nat /\ direct' = direct /\ proxy' = proxy /\ connmark' = connmark
      /\ crashes' = crashes /\ armed' = armed /\ halfTorn' = halfTorn
  BY DEF ApplyActive, setVars
<1>2. /\ mode \in Modes /\ direct' \subseteq Dests /\ proxy' \subseteq Dests
      /\ dev' \subseteq Tunnels
      /\ connmark' \in [Flows -> 0..N]
      /\ chain \in Seq(Tunnels) /\ Len(chain) <= N /\ (mode # "sticky" => chain = <<>>)
      /\ route \in [Tunnels -> SUBSET Tunnels]
      /\ \A u \in Tunnels : route[u] \subseteq dev /\ (u > NTables => route[u] = {})
      /\ mode = "sticky" => \A u \in Tunnels : route[u] \subseteq {u}
  BY <1>1 DEF RInv, Shape
<1>3. NTables \in 1..N /\ N \in Nat
  BY <1>2, Places
<1>4. CASE mode = "sticky"
  <2>1. chain' = SetToSeq(act) /\ route' = [u \in Tunnels |-> IF u \in act THEN {u} ELSE route[u]]
    BY <1>4 DEF ApplyActive
  <2>2. chain' \in Seq(Tunnels) /\ Len(chain') <= N
    BY <2>1, SetToSeqIs
  <2>3. NTables = N
    BY <1>4 DEF NTables
  <2>4. /\ route' \in [Tunnels -> SUBSET Tunnels]
        /\ \A u \in Tunnels : route'[u] \subseteq dev' /\ (u > NTables => route'[u] = {})
        /\ \A u \in Tunnels : route'[u] \subseteq {u}
    BY <1>1, <1>2, <1>3, <1>4, <2>1, <2>3 DEF Tunnels
  <2> QED
    BY <1>1, <1>2, <1>4, <2>2, <2>4, RunningRInv
<1>5. CASE mode # "sticky"
  <2>1. chain' = chain /\ route' = [route EXCEPT ![1] = act]
    BY <1>5 DEF ApplyActive
  <2>2. /\ route' \in [Tunnels -> SUBSET Tunnels]
        /\ \A u \in Tunnels : route'[u] \subseteq dev' /\ (u > NTables => route'[u] = {})
    <3>1. 1 \in Tunnels /\ \A u \in Tunnels : u > NTables => u # 1
      BY <1>3 DEF Tunnels
    <3>2. route'[1] = act /\ \A u \in Tunnels : u # 1 => route'[u] = route[u]
      BY <1>2, <2>1, <3>1
    <3>3. route' \in [Tunnels -> SUBSET Tunnels]
      BY <1>2, <2>1
    <3> QED
      BY <1>1, <1>2, <3>1, <3>2, <3>3
  <2> QED
    BY <1>1, <1>2, <1>5, <2>1, <2>2, RunningRInv
<1> QED
  BY <1>4, <1>5

(* A packet changes no more than its flow's conntrack mark. *)
LEMMA SendPacketRInv ==
    ASSUME RInv, NEW f \in Flows, SendPacket(f)
    PROVE  RInv'
<1>0. Shape
  BY DEF RInv
<1>1. PICK pick \in Picks :
         /\ connmark' = [connmark EXCEPT ![f] =
               IF Packet(FlowDst[f], connmark[f], pick).sel
               THEN Packet(FlowDst[f], connmark[f], pick).mark ELSE @]
         /\ UNCHANGED <<setVars, mode, job, cmds, ruleVars, dev, crashes, armed, halfTorn>>
  BY DEF SendPacket
<1>2. connmark \in [Flows -> 0..N] /\ connmark[f] \in 0..N
  BY DEF RInv, Shape
<1>3. Packet(FlowDst[f], connmark[f], pick).mark \in 0..N
  BY <1>0, <1>2, MarkTypes
<1>4. connmark' \in [Flows -> 0..N]
  BY <1>1, <1>2, <1>3
<1>5. /\ mode' = mode /\ job' = job /\ cmds' = cmds /\ pre' = pre /\ out' = out /\ chain' = chain
      /\ rules' = rules /\ fallback' = fallback /\ route' = route /\ bypass' = bypass
      /\ nat' = nat /\ direct' = direct /\ proxy' = proxy /\ dev' = dev
      /\ crashes' = crashes /\ armed' = armed /\ halfTorn' = halfTorn
  BY <1>1 DEF setVars, ruleVars
<1>6. /\ direct' \subseteq Dests /\ proxy' \subseteq Dests /\ dev' \subseteq Tunnels
      /\ chain' \in Seq(Tunnels) /\ Len(chain') <= N /\ (mode # "sticky" => chain' = <<>>)
      /\ route' \in [Tunnels -> SUBSET Tunnels]
      /\ \A u \in Tunnels : route'[u] \subseteq dev' /\ (u > NTables => route'[u] = {})
      /\ mode = "sticky" => \A u \in Tunnels : route'[u] \subseteq {u}
  BY <1>5 DEF RInv, Shape
<1> QED
  BY <1>4, <1>5, <1>6, RunningRInv

(* Conntrack forgets a flow. *)
LEMMA FlowEndsRInv ==
    ASSUME RInv, NEW f \in Flows, FlowEnds(f)
    PROVE  RInv'
<1>1. /\ mode' = mode /\ job' = job /\ cmds' = cmds /\ pre' = pre /\ out' = out /\ chain' = chain
      /\ rules' = rules /\ fallback' = fallback /\ route' = route /\ bypass' = bypass
      /\ nat' = nat /\ direct' = direct /\ proxy' = proxy /\ dev' = dev
      /\ crashes' = crashes /\ armed' = armed /\ halfTorn' = halfTorn
      /\ connmark' = [connmark EXCEPT ![f] = 0]
  BY DEF FlowEnds, setVars, ruleVars
<1>2. N \in Nat
  BY RoutingAssumption
<1>3. connmark' \in [Flows -> 0..N]
  BY <1>1, <1>2 DEF RInv, Shape
<1>4. /\ direct' \subseteq Dests /\ proxy' \subseteq Dests /\ dev' \subseteq Tunnels
      /\ chain' \in Seq(Tunnels) /\ Len(chain') <= N /\ (mode # "sticky" => chain' = <<>>)
      /\ route' \in [Tunnels -> SUBSET Tunnels]
      /\ \A u \in Tunnels : route'[u] \subseteq dev' /\ (u > NTables => route'[u] = {})
      /\ mode = "sticky" => \A u \in Tunnels : route'[u] \subseteq {u}
  BY <1>1 DEF RInv, Shape
<1> QED
  BY <1>1, <1>3, <1>4, RunningRInv

(* The sets change within the destinations. *)
LEMMA SetsChangeRInv ==
    ASSUME RInv, SetsChange
    PROVE  RInv'
<1>1. /\ mode' = mode /\ job' = job /\ cmds' = cmds /\ pre' = pre /\ out' = out /\ chain' = chain
      /\ rules' = rules /\ fallback' = fallback /\ route' = route /\ bypass' = bypass
      /\ nat' = nat /\ dev' = dev /\ connmark' = connmark
      /\ crashes' = crashes /\ armed' = armed /\ halfTorn' = halfTorn
      /\ direct' \subseteq Dests /\ proxy' \subseteq Dests /\ job = "run"
  BY DEF SetsChange, ruleVars
<1>2. /\ dev' \subseteq Tunnels /\ connmark' \in [Flows -> 0..N]
      /\ chain' \in Seq(Tunnels) /\ Len(chain') <= N /\ (mode # "sticky" => chain' = <<>>)
      /\ route' \in [Tunnels -> SUBSET Tunnels]
      /\ \A u \in Tunnels : route'[u] \subseteq dev' /\ (u > NTables => route'[u] = {})
      /\ mode = "sticky" => \A u \in Tunnels : route'[u] \subseteq {u}
  BY <1>1 DEF RInv, Shape
<1> QED
  BY <1>1, <1>2, RunningRInv

(* Nothing changes. *)
LEMMA StutterRInv ==
    ASSUME RInv, UNCHANGED vars
    PROVE  RInv'
<1>1. /\ mode' = mode /\ job' = job /\ cmds' = cmds /\ pre' = pre /\ out' = out /\ chain' = chain
      /\ rules' = rules /\ fallback' = fallback /\ route' = route /\ bypass' = bypass
      /\ nat' = nat /\ direct' = direct /\ proxy' = proxy /\ dev' = dev /\ connmark' = connmark
      /\ crashes' = crashes /\ armed' = armed /\ halfTorn' = halfTorn
  BY DEF vars, setVars, ruleVars
<1>2. /\ direct' \subseteq Dests /\ proxy' \subseteq Dests /\ dev' \subseteq Tunnels
      /\ connmark' \in [Flows -> 0..N]
      /\ chain' \in Seq(Tunnels) /\ Len(chain') <= N /\ (mode # "sticky" => chain' = <<>>)
      /\ route' \in [Tunnels -> SUBSET Tunnels]
      /\ \A u \in Tunnels : route'[u] \subseteq dev' /\ (u > NTables => route'[u] = {})
      /\ mode = "sticky" => \A u \in Tunnels : route'[u] \subseteq {u}
  BY <1>1 DEF RInv, Shape
<1> QED
  BY <1>1, <1>2, RunningRInv

(* The process ends its run and begins the Teardown. *)
LEMMA TeardownRInv ==
    ASSUME RInv, Teardown
    PROVE  RInv'
<1>1. /\ job = "run" /\ job' = "teardown" /\ cmds' = TeardownCmds /\ armed' = FALSE
      /\ mode' = mode /\ pre' = pre /\ out' = out /\ chain' = chain /\ rules' = rules
      /\ fallback' = fallback /\ route' = route /\ bypass' = bypass /\ nat' = nat
      /\ direct' = direct /\ proxy' = proxy /\ connmark' = connmark /\ crashes' = crashes
      /\ dev' = dev /\ halfTorn' = halfTorn
  BY DEF Teardown, setVars, ruleVars
<1>2. mode \in Modes
  BY DEF RInv, Shape
<1>3. /\ KnownMode /\ NRules \in 1..5 /\ TeardownLen \in Nat /\ TeardownMangle \in Nat
      /\ TeardownTables \in Nat /\ TeardownMangle >= 1 /\ TeardownTables >= 1 /\ TeardownLen > 6
      /\ NTables \in 1..N /\ N \in Nat
  BY <1>2, Places
<1>4. /\ NRules' = NRules /\ NTables' = NTables /\ Rules' = Rules
      /\ TeardownLen' = TeardownLen /\ TeardownMangle' = TeardownMangle
      /\ TeardownTables' = TeardownTables /\ TeardownCmds' = TeardownCmds
  BY <1>1, ModeFixed
<1>5. TeardownCmds \in Seq(AnyCmd) /\ Len(TeardownCmds) = TeardownLen
  BY <1>3, TeardownLayout
<1>6. At' = 0
  BY <1>1, <1>3, <1>4, <1>5 DEF At
<1>7. Aligned'
  <2>1. \A j \in 1..Len(cmds') : cmds'[j] = TeardownCmds'[At' + j]
    BY <1>1, <1>3, <1>4, <1>5, <1>6
  <2>2. Len(cmds') <= TeardownLen'
    BY <1>1, <1>3, <1>4, <1>5
  <2> QED
    BY <1>1, <1>5, <2>1, <2>2 DEF Aligned
<1>8. Shape'
  <2>1. /\ direct' \subseteq Dests /\ proxy' \subseteq Dests /\ dev' \subseteq Tunnels
        /\ connmark' \in [Flows -> 0..N] /\ crashes' \in 0..MaxCrashes
        /\ armed' \in BOOLEAN /\ halfTorn' \in BOOLEAN
        /\ route' \in [Tunnels -> SUBSET Tunnels]
        /\ \A t \in Tunnels : route'[t] \subseteq dev' /\ (t > NTables' => route'[t] = {})
        /\ mode' = "sticky" => \A t \in Tunnels : route'[t] \subseteq {t}
    BY <1>1, <1>4 DEF RInv, Shape
  <2> QED
    BY <1>1, <2>1, SameRules DEF Shape
<1>9. Copies' /\ Appended'
  <2>1. OwnRules = NRules /\ OwnNat = 1
    BY <1>1 DEF OwnRules, OwnNat
  <2>2. OwnRules' = NRules /\ OwnNat' = 1
    BY <1>1, <1>3, <1>4, <1>6 DEF OwnRules, OwnNat, Clip
  <2> QED
    BY <1>1, <2>1, <2>2 DEF RInv, Copies, Appended
<1>10. ToDelete'
  <2>1. armed
    BY <1>1 DEF RInv, SetupDid
  <2>2. \A a \in 1..NRules : In(Rules[a])
    BY <2>1 DEF RInv, ArmedHas
  <2> QED
    BY <1>1, <1>4, <2>2 DEF ToDelete, In
<1>11. TeardownDid'
  <2>1. \A t \in 1..NTables : /\ ~(0 >= TeardownTables + (2 * t - 1))
                              /\ ~(0 >= TeardownTables + 2 * t)
    BY <1>3
  <2>2. 0 # TeardownLen
    BY <1>3
  <2> QED
    BY <1>1, <1>4, <1>6, <2>1, <2>2 DEF TeardownDid
<1>12. SetupDid' /\ OffClean' /\ ArmedHas'
  BY <1>1 DEF SetupDid, OffClean, ArmedHas
<1> QED
  BY <1>7, <1>8, <1>9, <1>10, <1>11, <1>12 DEF RInv

(* The process is gone: its devices and their routes with it. *)
LEMMA GoneRInv ==
    ASSUME RInv, DevicesGone,
           mode' = mode, pre' = pre, out' = out, chain' = chain, rules' = rules,
           fallback' = fallback, bypass' = bypass, nat' = nat, direct' = direct, proxy' = proxy,
           connmark' = connmark, armed' = armed,
           crashes' \in 0..MaxCrashes, halfTorn' \in BOOLEAN,
           Len(pre) <= 5 * crashes', nat <= crashes', OffClean'
    PROVE  RInv'
<1>1. job' = "off" /\ cmds' = <<>> /\ dev' = {} /\ route' = [t \in Tunnels |-> {}]
  BY DEF DevicesGone
<1>2. /\ NRules' = NRules /\ NTables' = NTables /\ Rules' = Rules
  BY ModeFixed
<1>3. Aligned'
  BY <1>1 DEF Aligned
<1>4. Shape'
  <2>1. /\ direct' \subseteq Dests /\ proxy' \subseteq Dests /\ dev' \subseteq Tunnels
        /\ connmark' \in [Flows -> 0..N] /\ armed' \in BOOLEAN
    BY <1>1 DEF RInv, Shape
  <2>2. /\ route' \in [Tunnels -> SUBSET Tunnels]
        /\ \A t \in Tunnels : route'[t] = {}
    BY <1>1
  <2> QED
    BY <1>1, <2>1, <2>2, SameRules DEF Shape
<1>5. Copies'
  <2>1. OwnRules' = 0 /\ OwnNat' = 0
    BY <1>1 DEF OwnRules, OwnNat
  <2>2. crashes' \in Nat
    BY RoutingAssumption
  <2> QED
    BY <2>1, <2>2 DEF Copies
<1>6. ArmedHas'
  BY <1>1, <1>2 DEF RInv, ArmedHas, In
<1>7. Appended' /\ ToDelete' /\ SetupDid' /\ TeardownDid'
  BY <1>1 DEF Appended, ToDelete, SetupDid, TeardownDid
<1> QED
  BY <1>3, <1>4, <1>5, <1>6, <1>7 DEF RInv

(* After a whole Teardown, and no kill ever, nothing is left. *)
LEMMA ExitRInv ==
    ASSUME RInv, Exit
    PROVE  RInv'
<1>1. /\ job = "teardown" /\ cmds = <<>> /\ DevicesGone
      /\ mode' = mode /\ pre' = pre /\ out' = out /\ chain' = chain /\ rules' = rules
      /\ fallback' = fallback /\ bypass' = bypass /\ nat' = nat
      /\ direct' = direct /\ proxy' = proxy /\ connmark' = connmark /\ crashes' = crashes
      /\ armed' = armed /\ halfTorn' = halfTorn
  BY DEF Exit, setVars
<1>2. mode \in Modes
  BY DEF RInv, Shape
<1>3. /\ KnownMode /\ NRules \in 1..5 /\ TeardownLen \in Nat /\ TeardownMangle \in Nat
      /\ TeardownTables \in Nat /\ TeardownLen > 6 /\ TeardownLen - 1 > TeardownMangle + NRules
      /\ TeardownLen - 1 > TeardownTables + 2 * NTables
      /\ NTables \in 1..N /\ N \in Nat
  BY <1>2, Places
<1>4. At = TeardownLen
  BY <1>1, <1>3 DEF At
<1>5. OwnRules = 0 /\ OwnNat = 0
  BY <1>1, <1>3, <1>4 DEF OwnRules, OwnNat, Clip
<1>6. Len(pre) <= 5 * crashes /\ nat <= crashes /\ crashes \in 0..MaxCrashes /\ halfTorn \in BOOLEAN
  <2>1. /\ Len(pre) <= 5 * crashes + OwnRules /\ nat <= crashes + OwnNat
        /\ crashes \in 0..MaxCrashes /\ halfTorn \in BOOLEAN
    BY DEF RInv, Shape, Copies
  <2> QED
    BY <1>5, <2>1
<1>7. OffClean'
  <2>1. \A t \in 1..NTables : /\ TeardownLen >= TeardownTables + (2 * t - 1)
                              /\ TeardownLen >= TeardownTables + 2 * t
    BY <1>3
  <2>2. \A t \in 1..NTables : t \notin rules /\ t \notin fallback
    BY <1>1, <1>4, <2>1 DEF RInv, TeardownDid
  <2>3. rules = {} /\ fallback = {}
    BY <2>2 DEF RInv, Shape
  <2>4. /\ TeardownLen >= 1
        /\ mode = "transit" => TeardownLen >= 5
        /\ mode = "sticky" => TeardownLen >= 7
    BY <1>3
  <2>5. ~bypass
    BY <1>1, <1>4, <2>4 DEF RInv, TeardownDid
  <2>6. out = <<>> /\ chain = <<>>
    <3>1. mode = "transit" => out = <<>>
      BY <1>1, <1>4, <2>4 DEF RInv, TeardownDid
    <3>2. mode = "sticky" => chain = <<>>
      BY <1>1, <1>4, <2>4 DEF RInv, TeardownDid
    <3> QED
      BY <3>1, <3>2 DEF RInv, Shape
  <2>7. crashes = 0 => direct = {} /\ proxy = {}
    BY <1>1, <1>4 DEF RInv, TeardownDid
  <2>8. dev' = {}
    BY <1>1 DEF DevicesGone
  <2>9. ~bypass'
    BY <1>1, <2>5, Zenon
  <2> QED
    BY <1>1, <2>3, <2>6, <2>7, <2>8, <2>9 DEF OffClean
<1> QED
  BY <1>1, <1>6, <1>7, GoneRInv

(* A killed process leaves at most one copy of its rules. *)
LEMMA CrashRInv ==
    ASSUME RInv, Crash
    PROVE  RInv'
<1>1. /\ job # "off" /\ crashes < MaxCrashes /\ crashes' = crashes + 1 /\ DevicesGone
      /\ mode' = mode /\ pre' = pre /\ out' = out /\ chain' = chain /\ rules' = rules
      /\ fallback' = fallback /\ bypass' = bypass /\ nat' = nat
      /\ direct' = direct /\ proxy' = proxy /\ connmark' = connmark /\ armed' = armed
  BY DEF Crash, setVars
<1>2. mode \in Modes /\ crashes \in 0..MaxCrashes /\ nat \in Nat /\ Len(pre) \in Nat
  BY LenProperties DEF RInv, Shape
<1>3. NRules \in 1..5 /\ MaxCrashes \in Nat
  BY <1>2, Places
<1>4. crashes' \in 0..MaxCrashes /\ crashes' # 0
  BY <1>1, <1>2, <1>3
<1>5. halfTorn' \in BOOLEAN
  BY DEF Crash
<1>6. OwnRules <= 5 /\ OwnNat <= 1 /\ OwnRules \in Int /\ OwnNat \in Int
  <2>1. At \in Int
    <3>1. Len(cmds) \in Nat /\ SetupLen \in Nat /\ TeardownLen \in Nat
      BY <1>2, Places, LenProperties DEF RInv, Aligned
    <3> QED
      BY <3>1 DEF At
  <2>2. SetupMangle \in Nat /\ TeardownMangle \in Nat
    BY <1>2, Places
  <2> QED
    BY <1>3, <2>1, <2>2 DEF OwnRules, OwnNat, Clip
<1>7. Len(pre) <= 5 * crashes' /\ nat <= crashes'
  <2>1. Len(pre) <= 5 * crashes + OwnRules /\ nat <= crashes + OwnNat
    BY DEF RInv, Copies
  <2> QED
    BY <1>1, <1>2, <1>6, <2>1
<1>8. OffClean'
  BY <1>4 DEF DevicesGone, OffClean, Crash
<1> QED
  BY <1>1, <1>4, <1>5, <1>7, <1>8, GoneRInv

(* Every step keeps the invariant. *)
LEMMA StepRInv == RInv /\ [Next]_vars => RInv'
<1> SUFFICES ASSUME RInv, [Next]_vars PROVE RInv'
  OBVIOUS
<1>1. ASSUME NEW D \in SUBSET Tunnels, Start(D) PROVE RInv'
  BY <1>1, StartRInv
<1>2. ASSUME NEW act \in SUBSET Tunnels, ApplyActive(act) PROVE RInv'
  BY <1>2, ApplyActiveRInv
<1>3. CASE RunCmd
  <2>1. job \in {"setup", "teardown"}
    BY <1>3, CmdStep DEF RInv, Shape
  <2> QED
    BY <1>3, <2>1, SetupCmdRInv, TeardownCmdRInv
<1>4. CASE SetupDone
  BY <1>4, SetupDoneRInv
<1>5. CASE Teardown
  BY <1>5, TeardownRInv
<1>6. CASE Exit
  BY <1>6, ExitRInv
<1>7. CASE Crash
  BY <1>7, CrashRInv
<1>8. ASSUME NEW t \in Tunnels, DeviceUp(t) PROVE RInv'
  BY <1>8, DeviceUpRInv
<1>9. ASSUME NEW f \in Flows, SendPacket(f) PROVE RInv'
  BY <1>9, SendPacketRInv
<1>10. ASSUME NEW f \in Flows, FlowEnds(f) PROVE RInv'
  BY <1>10, FlowEndsRInv
<1>11. CASE SetsChange
  BY <1>11, SetsChangeRInv
<1>12. CASE UNCHANGED vars
  BY <1>12, StutterRInv
<1> QED
  BY <1>1, <1>2, <1>3, <1>4, <1>5, <1>6, <1>7, <1>8, <1>9, <1>10, <1>11, <1>12 DEF Next

(* Through every Setup, rebuild, Teardown and kill, at any command: what   *)
(* is left to run is the end of the list, the chains and tables hold what  *)
(* the commands so far have made of them, and a completed Setup's rules    *)
(* and tables stay until the Teardown.                                     *)
THEOREM RoutingInvariance == Spec => []RInv
<1> QED
  BY InitRInv, StepRInv, PTL DEF Spec

(* Rules and NAT rules are bounded by the kills, every table is one of the *)
(* configured tunnels', and no route is over a device that is gone.        *)
THEOREM RoutingTypeCorrect == Spec => []TypeOK
<1>1. RInv => TypeOK
  <2> SUFFICES ASSUME RInv PROVE TypeOK
    OBVIOUS
  <2>1. /\ mode \in Modes /\ crashes \in 0..MaxCrashes /\ nat \in Nat /\ Len(pre) \in Nat
    BY LenProperties DEF RInv, Shape
  <2>2. NRules \in 1..5 /\ MaxCrashes \in Nat /\ NTables \in 1..N /\ N \in Nat
    BY <2>1, Places
  <2>3. OwnRules <= 5 /\ OwnNat <= 1 /\ OwnRules \in Int /\ OwnNat \in Int
    <3>1. At \in Int
      <4>1. Len(cmds) \in Nat /\ SetupLen \in Nat /\ TeardownLen \in Nat
        BY <2>1, Places, LenProperties DEF RInv, Aligned
      <4> QED
        BY <4>1 DEF At
    <3>2. SetupMangle \in Nat /\ TeardownMangle \in Nat
      BY <2>1, Places
    <3> QED
      BY <2>2, <3>1, <3>2 DEF OwnRules, OwnNat, Clip
  <2>4. Len(pre) <= 5 * (MaxCrashes + 1) /\ nat \in 0..(MaxCrashes + 1)
    <3>1. Len(pre) <= 5 * crashes + OwnRules /\ nat <= crashes + OwnNat
      BY DEF RInv, Copies
    <3> QED
      BY <2>1, <2>2, <2>3, <3>1
  <2>5. rules \subseteq Tunnels /\ fallback \subseteq Tunnels
    BY <2>2 DEF RInv, Shape, Tunnels
  <2> QED
    BY <2>4, <2>5 DEF RInv, Shape, TypeOK
<1> QED
  BY <1>1, RoutingInvariance, PTL

(* While the gateway runs, its host routes and NAT rules are there; and    *)
(* what Teardown does undoes all of what Setup and the rebuilds did, in    *)
(* every mode and for any number of tunnels, if no process was killed.     *)
THEOREM TeardownUndoesAll == Spec => []TeardownUndoes
<1>1. RInv => TeardownUndoes
  <2> SUFFICES ASSUME RInv PROVE TeardownUndoes
    OBVIOUS
  <2>1. ASSUME job = "run" PROVE bypass /\ nat > 0
    <3>1. OwnNat = 1
      BY <2>1 DEF OwnNat
    <3> QED
      BY <2>1, <3>1 DEF RInv, Copies, SetupDid
  <2>2. ASSUME job = "off", crashes = 0
        PROVE  /\ pre = <<>> /\ out = <<>> /\ chain = <<>>
               /\ rules = {} /\ fallback = {} /\ \A t \in Tunnels : route[t] = {}
               /\ ~bypass /\ nat = 0
               /\ direct = {} /\ proxy = {}
    <3>1. OwnRules = 0 /\ OwnNat = 0
      BY <2>2 DEF OwnRules, OwnNat
    <3>2. Len(pre) <= 0 /\ nat <= 0 /\ nat \in Nat /\ Len(pre) \in Nat /\ pre \in Seq(Names)
      <4>1. Len(pre) <= 5 * crashes + OwnRules /\ nat <= crashes + OwnNat
        BY DEF RInv, Copies
      <4>2. nat \in Nat /\ Len(pre) \in Nat /\ pre \in Seq(Names)
        BY LenProperties DEF RInv, Shape
      <4> QED
        BY <2>2, <3>1, <4>1, <4>2
    <3>3. pre = <<>> /\ nat = 0
      BY <3>2, EmptySeq
    <3>4. /\ out = <<>> /\ chain = <<>> /\ rules = {} /\ fallback = {}
          /\ ~bypass /\ direct = {} /\ proxy = {} /\ dev = {}
      BY <2>2 DEF RInv, OffClean
    <3>5. \A t \in Tunnels : route[t] = {}
      BY <3>4 DEF RInv, Shape
    <3> QED
      BY <3>3, <3>4, <3>5
  <2> QED
    BY <2>1, <2>2 DEF TeardownUndoes
<1> QED
  BY <1>1, RoutingInvariance, PTL

-----------------------------------------------------------------------------
(* The order of the rules *)

(* How many of the first n rules of a chain are r. *)
Among(s, r, n) == Cardinality({j \in 1..n : s[j] = r})

(* The count is a number, and 0 if there are none. *)
LEMMA AmongIs ==
    ASSUME NEW s, NEW r, NEW n \in Nat
    PROVE  /\ Among(s, r, n) \in Nat /\ IsFiniteSet({j \in 1..n : s[j] = r})
           /\ Among(s, r, n) = 0 <=> \A j \in 1..n : s[j] # r
<1> DEFINE T == {j \in 1..n : s[j] = r}
<1>1. IsFiniteSet(1..n)
  BY FS_Interval
<1>2. IsFiniteSet(T)
  BY <1>1, FS_Subset
<1>3. Cardinality(T) \in Nat /\ (Cardinality(T) = 0 <=> T = {})
  BY <1>2, FS_CardinalityType, FS_EmptySet
<1> QED
  BY <1>2, <1>3 DEF Among

(* Chains that begin alike count alike. *)
LEMMA AmongSame ==
    ASSUME NEW s, NEW t, NEW r, NEW n, \A j \in 1..n : s[j] = t[j]
    PROVE  Among(s, r, n) = Among(t, r, n)
<1>1. {j \in 1..n : s[j] = r} = {j \in 1..n : t[j] = r}
  OBVIOUS
<1> QED
  BY <1>1 DEF Among

(* One rule more. *)
LEMMA AmongNext ==
    ASSUME NEW s, NEW r, NEW n \in Nat
    PROVE  Among(s, r, n + 1) = Among(s, r, n) + (IF s[n + 1] = r THEN 1 ELSE 0)
<1> DEFINE T(k) == {j \in 1..k : s[j] = r}
<1>1. IsFiniteSet(T(n)) /\ Cardinality(T(n)) \in Nat
  BY AmongIs DEF Among
<1>2. CASE s[n + 1] = r
  <2>1. T(n + 1) = T(n) \cup {n + 1} /\ n + 1 \notin T(n)
    BY <1>2
  <2>2. Cardinality(T(n) \cup {n + 1}) = Cardinality(T(n)) + 1
    BY <1>1, <2>1, FS_AddElement
  <2> QED
    BY <1>1, <1>2, <2>1, <2>2 DEF Among
<1>3. CASE s[n + 1] # r
  <2>1. T(n + 1) = T(n)
    BY <1>3
  <2> QED
    BY <1>1, <1>3, <2>1 DEF Among
<1> QED
  BY <1>2, <1>3

(* A rule taken out at p is missing from every later count. *)
LEMMA AmongOut ==
    ASSUME NEW s, NEW t, NEW r, NEW p \in Nat \ {0}, NEW n \in Nat, p <= n + 1,
           \A j \in 1..n : t[j] = IF j < p THEN s[j] ELSE s[j + 1]
    PROVE  Among(s, r, n + 1) = Among(t, r, n) + (IF s[p] = r THEN 1 ELSE 0)
<1> DEFINE T == {j \in 1..n : t[j] = r}
           S == {j \in 1..(n + 1) : s[j] = r}
           f == [j \in T |-> IF j < p THEN j ELSE j + 1]
<1>1. IsFiniteSet(T) /\ Cardinality(T) \in Nat /\ Among(t, r, n) = Cardinality(T)
  BY AmongIs DEF Among
<1>2. IsFiniteSet(S) /\ Cardinality(S) \in Nat /\ Among(s, r, n + 1) = Cardinality(S)
  <2>1. n + 1 \in Nat
    OBVIOUS
  <2> QED
    BY <2>1, AmongIs DEF Among
<1>3. f \in Bijection(T, S \ {p})
  <2>1. f \in [T -> S \ {p}]
    OBVIOUS
  <2>2. \A i, j \in T : f[i] = f[j] => i = j
    OBVIOUS
  <2>3. ASSUME NEW k \in S \ {p} PROVE \E j \in T : f[j] = k
    <3>1. CASE k < p
      <4>1. k \in T
        BY <3>1
      <4> QED
        BY <3>1, <4>1
    <3>2. CASE k > p
      <4>1. k - 1 \in T /\ ~(k - 1 < p)
        BY <3>2
      <4> QED
        BY <4>1
    <3>3. k < p \/ k > p
      OBVIOUS
    <3> QED
      BY <3>1, <3>2, <3>3
  <2> HIDE DEF f, T, S
  <2> QED
    BY <2>1, <2>2, <2>3 DEF Bijection, Injection, Surjection, IsInjective
<1>4. Cardinality(T) = Cardinality(S \ {p})
  <2>1. ExistsBijection(T, S \ {p})
    BY <1>3 DEF ExistsBijection
  <2> QED
    BY <1>1, <2>1, FS_Bijection
<1>5. Cardinality(S \ {p}) = IF p \in S THEN Cardinality(S) - 1 ELSE Cardinality(S)
  BY <1>2, FS_RemoveElement
<1>6. p \in S <=> s[p] = r
  OBVIOUS
<1> HIDE DEF T, S
<1> QED
  BY <1>1, <1>2, <1>4, <1>5, <1>6

(* The layers that the processes have left one over the other.  Of the     *)
(* first n rules, whatever n, no more are the b-th of Setup's list than    *)
(* are an earlier one; one more where Teardown has deleted the earlier and *)
(* not yet the later one.                                                  *)
Layers(R, s, gone) ==
    \A n \in 0..Len(s) : \A a, b \in 1..Len(R) :
        a < b => Among(s, R[b], n) <= Among(s, R[a], n) + (IF a <= gone /\ gone < b THEN 1 ELSE 0)

(* The rules that Setup has appended so far are one layer more. *)
Over(R, s, own) ==
    \A a, b \in 1..Len(R) :
        a <= own /\ own < b => Among(s, R[b], Len(s)) + 1 <= Among(s, R[a], Len(s))

(* How many of its rules Teardown has deleted. *)
Deleted == IF job = "teardown" THEN NRules - OwnRules ELSE 0

Layered ==
    ~halfTorn => Layers(Rules, pre, Deleted) /\ (job = "setup" => Over(Rules, pre, OwnRules))

(* Setup appends the next rule. *)
LEMMA AppendLayers ==
    ASSUME NEW s \in Seq(Names), NEW c \in 1..NRules, Layers(Rules, s, 0), Over(Rules, s, c - 1)
    PROVE  Layers(Rules, Append(s, Rules[c]), 0) /\ Over(Rules, Append(s, Rules[c]), c)
<1> DEFINE t == Append(s, Rules[c])
           L == Len(s)
<1>1. /\ NRules \in Nat /\ Len(Rules) = NRules /\ \A a \in 1..NRules : Rules[a] \in Names
      /\ \A a, b \in 1..NRules : Rules[a] = Rules[b] => a = b
  BY RuleNames, RulesAre
<1>2. L \in Nat /\ Len(t) = L + 1 /\ t[L + 1] = Rules[c] /\ \A j \in 1..L : t[j] = s[j]
  BY <1>1, AppendIs
<1> HIDE DEF t
<1>3. ASSUME NEW a \in 1..NRules, NEW n \in 0..L PROVE Among(t, Rules[a], n) = Among(s, Rules[a], n)
  <2>1. \A j \in 1..n : t[j] = s[j]
    BY <1>2
  <2> QED
    BY <2>1, AmongSame
<1>4. ASSUME NEW a \in 1..NRules
      PROVE  /\ Among(t, Rules[a], L + 1) = Among(s, Rules[a], L) + (IF a = c THEN 1 ELSE 0)
             /\ Among(s, Rules[a], L) \in Nat
  <2>1. Among(t, Rules[a], L + 1) = Among(t, Rules[a], L) + (IF t[L + 1] = Rules[a] THEN 1 ELSE 0)
    BY <1>2, AmongNext, SMTT(30)
  <2>2. Among(t, Rules[a], L) = Among(s, Rules[a], L)
    BY <1>2, <1>3
  <2>3. Rules[c] = Rules[a] <=> a = c
    BY <1>1
  <2>4. Among(s, Rules[a], L) \in Nat
    BY <1>2, AmongIs
  <2> QED
    BY <1>2, <2>1, <2>2, <2>3, <2>4
<1>5. ASSUME NEW a \in 1..NRules, NEW b \in 1..NRules, a < b
      PROVE  /\ Among(s, Rules[b], L) <= Among(s, Rules[a], L)
             /\ a <= c - 1 /\ c - 1 < b => Among(s, Rules[b], L) + 1 <= Among(s, Rules[a], L)
  <2>1. L \in 0..L /\ ~(a <= 0 /\ 0 < b)
    BY <1>1, <1>2
  <2>2. Among(s, Rules[b], L) <= Among(s, Rules[a], L) + 0
    BY <1>1, <1>5, <2>1 DEF Layers
  <2> QED
    BY <1>1, <1>4, <1>5, <2>2 DEF Over
<1>6. Layers(Rules, t, 0)
  <2> SUFFICES ASSUME NEW n \in 0..Len(t), NEW a \in 1..NRules, NEW b \in 1..NRules, a < b
               PROVE  Among(t, Rules[b], n) <= Among(t, Rules[a], n) + 0
    <3>1. \A a \in 1..NRules : ~(a <= 0)
      BY <1>1
    <3> QED
      BY <1>1, <3>1 DEF Layers
  <2>1. CASE n \in 0..L
    <3>1. Among(s, Rules[b], n) <= Among(s, Rules[a], n) + 0
      <4>1. ~(a <= 0 /\ 0 < b)
        BY <1>1
      <4> QED
        BY <1>1, <2>1, <4>1 DEF Layers
    <3> QED
      BY <1>3, <2>1, <3>1
  <2>2. CASE n = L + 1
    <3>1. /\ Among(t, Rules[b], n) = Among(s, Rules[b], L) + (IF b = c THEN 1 ELSE 0)
          /\ Among(t, Rules[a], n) = Among(s, Rules[a], L) + (IF a = c THEN 1 ELSE 0)
          /\ Among(s, Rules[a], L) \in Nat /\ Among(s, Rules[b], L) \in Nat
      BY <1>4, <2>2
    <3>2. /\ Among(s, Rules[b], L) <= Among(s, Rules[a], L)
          /\ a <= c - 1 /\ c - 1 < b => Among(s, Rules[b], L) + 1 <= Among(s, Rules[a], L)
      BY <1>5
    <3>3. CASE b = c
      BY <1>1, <3>1, <3>2, <3>3
    <3>4. CASE b # c
      BY <1>1, <3>1, <3>2, <3>4
    <3> QED
      BY <3>3, <3>4
  <2> QED
    BY <1>2, <2>1, <2>2
<1>7. Over(Rules, t, c)
  <2> SUFFICES ASSUME NEW a \in 1..NRules, NEW b \in 1..NRules, a <= c, c < b
               PROVE  Among(t, Rules[b], L + 1) + 1 <= Among(t, Rules[a], L + 1)
    BY <1>1, <1>2 DEF Over
  <2>1. a < b
    BY <1>1
  <2>2. /\ Among(t, Rules[b], L + 1) = Among(s, Rules[b], L)
        /\ Among(t, Rules[a], L + 1) = Among(s, Rules[a], L) + (IF a = c THEN 1 ELSE 0)
        /\ Among(s, Rules[a], L) \in Nat /\ Among(s, Rules[b], L) \in Nat
    BY <1>1, <1>4
  <2>3. /\ Among(s, Rules[b], L) <= Among(s, Rules[a], L)
        /\ a <= c - 1 /\ c - 1 < b => Among(s, Rules[b], L) + 1 <= Among(s, Rules[a], L)
    BY <1>5, <2>1
  <2>4. CASE a = c
    BY <2>2, <2>3, <2>4
  <2>5. CASE a < c
    BY <1>1, <2>2, <2>3, <2>5
  <2> QED
    BY <1>1, <2>4, <2>5
<1> QED
  BY <1>6, <1>7 DEF t

(* Teardown deletes the first of the next rule. *)
LEMMA RemoveLayers ==
    ASSUME NEW s \in Seq(Names), NEW c \in 1..NRules, Layers(Rules, s, c - 1),
           \E j \in 1..Len(s) : s[j] = Rules[c]
    PROVE  Layers(Rules, RemoveFirst(s, Rules[c]), c)
<1> DEFINE t == RemoveFirst(s, Rules[c])
           L == Len(s)
<1>1. /\ NRules \in Nat /\ Len(Rules) = NRules /\ \A a \in 1..NRules : Rules[a] \in Names
      /\ \A a, b \in 1..NRules : Rules[a] = Rules[b] => a = b
  BY RuleNames, RulesAre
<1>2. /\ Len(t) = L - 1
      /\ \E p \in 1..L : /\ s[p] = Rules[c] /\ \A j \in 1..(p - 1) : s[j] # Rules[c]
                         /\ \A j \in 1..(L - 1) : t[j] = IF j < p THEN s[j] ELSE s[j + 1]
  <2>1. Removed(s, Rules[c], t)
    BY RemoveFirstIs
  <2> HIDE DEF t
  <2> QED
    BY <2>1 DEF Removed
<1> HIDE DEF t
<1>3. PICK p \in 1..L : /\ s[p] = Rules[c] /\ \A j \in 1..(p - 1) : s[j] # Rules[c]
                        /\ \A j \in 1..(L - 1) : t[j] = IF j < p THEN s[j] ELSE s[j + 1]
  BY <1>2
<1>4. L \in Nat
  BY LenProperties
<1> SUFFICES ASSUME NEW n \in 0..(L - 1), NEW a \in 1..NRules, NEW b \in 1..NRules, a < b
             PROVE  Among(t, Rules[b], n)
                       <= Among(t, Rules[a], n) + (IF a <= c /\ c < b THEN 1 ELSE 0)
  BY <1>1, <1>2 DEF Layers, t
<1>n. n \in Nat /\ n + 1 \in Nat /\ n \in 0..L /\ n + 1 \in 0..L
  BY <1>4
<1>5. ASSUME NEW m \in 0..L
      PROVE  /\ Among(s, Rules[b], m)
                   <= Among(s, Rules[a], m) + (IF a <= c - 1 /\ c - 1 < b THEN 1 ELSE 0)
             /\ Among(s, Rules[b], m) \in Nat /\ Among(s, Rules[a], m) \in Nat
  <2>1. m \in Nat
    BY <1>4
  <2> QED
    BY <1>1, <2>1, AmongIs DEF Layers
<1>6. Among(t, Rules[b], n) \in Nat /\ Among(t, Rules[a], n) \in Nat
  BY <1>n, AmongIs
<1>7. CASE n < p
  <2>1. ASSUME NEW j \in 1..n PROVE t[j] = s[j]
    <3>1. j \in 1..(L - 1) /\ j < p
      BY <1>3, <1>4, <1>7
    <3> QED
      BY <1>3, <3>1
  <2>2. /\ Among(t, Rules[b], n) = Among(s, Rules[b], n)
        /\ Among(t, Rules[a], n) = Among(s, Rules[a], n)
    BY <2>1, AmongSame
  <2>3. Among(s, Rules[c], n) = 0
    <3>1. \A j \in 1..n : j \in 1..(p - 1)
      BY <1>4, <1>7
    <3>2. \A j \in 1..n : s[j] # Rules[c]
      BY <1>3, <3>1, Zenon
    <3> QED
      BY <1>n, <3>2, AmongIs
  <2>4. /\ Among(s, Rules[b], n)
                   <= Among(s, Rules[a], n) + (IF a <= c - 1 /\ c - 1 < b THEN 1 ELSE 0)
        /\ Among(s, Rules[b], n) \in Nat /\ Among(s, Rules[a], n) \in Nat
    BY <1>n, <1>5
  <2>5. CASE b = c
    BY <2>2, <2>3, <2>4, <2>5
  <2>6. CASE b # c
    <3>1. a <= c - 1 /\ c - 1 < b => a <= c /\ c < b
      BY <1>1, <2>6
    <3> QED
      BY <2>2, <2>4, <3>1
  <2> QED
    BY <2>5, <2>6
<1>8. CASE ~(n < p)
  <2>1. \A j \in 1..n : t[j] = IF j < p THEN s[j] ELSE s[j + 1]
    <3>1. \A j \in 1..n : j \in 1..(L - 1)
      BY <1>4
    <3> QED
      BY <1>3, <3>1, Zenon
  <2>2. p \in Nat \ {0} /\ p <= n + 1
    BY <1>3, <1>4, <1>8
  <2>3. /\ Among(s, Rules[b], n + 1) = Among(t, Rules[b], n) + (IF s[p] = Rules[b] THEN 1 ELSE 0)
        /\ Among(s, Rules[a], n + 1) = Among(t, Rules[a], n) + (IF s[p] = Rules[a] THEN 1 ELSE 0)
    <3>1. ASSUME NEW r
          PROVE  Among(s, r, n + 1) = Among(t, r, n) + (IF s[p] = r THEN 1 ELSE 0)
      BY <1>n, <2>1, <2>2, AmongOut
    <3> QED
      BY <3>1
  <2>4. (s[p] = Rules[b] <=> b = c) /\ (s[p] = Rules[a] <=> a = c)
    BY <1>1, <1>3
  <2>5. /\ Among(s, Rules[b], n + 1)
                   <= Among(s, Rules[a], n + 1) + (IF a <= c - 1 /\ c - 1 < b THEN 1 ELSE 0)
        /\ Among(s, Rules[b], n + 1) \in Nat /\ Among(s, Rules[a], n + 1) \in Nat
    BY <1>n, <1>5
  <2>6. CASE b = c
    BY <1>1, <1>6, <2>3, <2>4, <2>5, <2>6
  <2>7. CASE a = c
    BY <1>1, <1>6, <2>3, <2>4, <2>5, <2>7
  <2>8. CASE a # c /\ b # c
    BY <1>1, <1>6, <2>3, <2>4, <2>5, <2>8
  <2> QED
    BY <2>6, <2>7, <2>8
<1> QED
  BY <1>7, <1>8

(* What a command does to the chain. *)
LEMMA RuleStep ==
    ASSUME RInv, RunCmd
    PROVE  /\ mode' = mode /\ job' = job /\ halfTorn' = halfTorn /\ job \in {"setup", "teardown"}
           /\ job = "setup" =>
                 \/ pre' = pre /\ OwnRules' = OwnRules
                 \/ \E c \in 1..NRules : /\ OwnRules = c - 1 /\ OwnRules' = c
                                         /\ pre' = Append(pre, Rules[c])
           /\ job = "teardown" =>
                 \/ pre' = pre /\ Deleted' = Deleted
                 \/ \E c \in 1..NRules : /\ Deleted = c - 1 /\ Deleted' = c /\ In(Rules[c])
                                         /\ pre' = RemoveFirst(pre, Rules[c])
<1> DEFINE x == Head(cmds)
           k == At + 1
<1>1. /\ mode \in Modes /\ mode' = mode /\ job' = job /\ job \in {"setup", "teardown"}
      /\ At \in Nat /\ At' = k
      /\ job = "setup" => At < SetupLen /\ x = SetupCmds[k]
      /\ job = "teardown" => At < TeardownLen /\ x = TeardownCmds[k]
  <2>1. Aligned /\ mode \in Modes /\ job \in {"off", "setup", "run", "teardown"}
    BY DEF RInv, Shape
  <2> QED
    BY <2>1, CmdStep
<1>2. /\ NRules' = NRules /\ SetupMangle' = SetupMangle /\ TeardownMangle' = TeardownMangle
  BY <1>1, ModeFixed
<1>3. /\ KnownMode /\ NRules \in 1..5 /\ SetupLen \in Nat /\ SetupMangle \in Nat
      /\ TeardownLen \in Nat /\ TeardownMangle \in Nat
  BY <1>1, Places
<1>4. Effect(x.c, x.i) /\ halfTorn' = halfTorn
  BY DEF RunCmd
<1>5. ASSUME NEW m \in Nat, NEW c \in 1..NRules, k = m + c
      PROVE  Clip(At - m) = c - 1 /\ Clip(k - m) = c
  BY <1>1, <1>3, <1>5 DEF Clip
<1>6. ASSUME NEW m \in Nat, \A c \in 1..NRules : k # m + c
      PROVE  Clip(k - m) = Clip(At - m)
  <2>1. k - m \notin 1..NRules
    <3> SUFFICES ASSUME k - m \in 1..NRules PROVE FALSE
      OBVIOUS
    <3>1. k = m + (k - m)
      BY <1>1
    <3> QED
      BY <1>6, <3>1
  <2> QED
    BY <1>1, <1>3, <2>1 DEF Clip
<1>7. CASE job = "setup"
  <2>1. SetupKind(k, x)
    BY <1>1, <1>3, <1>7, SetupKinds
  <2>2. OwnRules = Clip(At - SetupMangle) /\ OwnRules' = Clip(k - SetupMangle)
    BY <1>1, <1>2, <1>7 DEF OwnRules, Clip
  <2> HIDE DEF x, k
  <2>3. CASE \E a \in 1..NRules : k = SetupMangle + a /\ x.c = "append" /\ x.i = Rules[a]
    <3>1. PICK c \in 1..NRules : k = SetupMangle + c /\ x.c = "append" /\ x.i = Rules[c]
      BY <2>3
    <3>2. pre' = Append(pre, Rules[c])
      BY <1>4, <3>1, EffectIs
    <3>3. OwnRules = c - 1 /\ OwnRules' = c
      BY <1>3, <1>5, <2>2, <3>1
    <3> QED
      BY <1>1, <1>4, <1>7, <3>2, <3>3
  <2>4. CASE x.c \notin {"append", "delete"} /\ \A a \in 1..NRules : k # SetupMangle + a
    <3>1. pre' = pre
      BY <1>4, <2>4, EffectIs
    <3>2. OwnRules' = OwnRules
      BY <1>3, <1>6, <2>2, <2>4
    <3> QED
      BY <1>1, <1>4, <1>7, <3>1, <3>2
  <2> QED
    BY <2>1, <2>3, <2>4 DEF SetupKind
<1>8. CASE job = "teardown"
  <2>1. TeardownKind(k, x)
    BY <1>1, <1>3, <1>8, TeardownKinds
  <2>2. Deleted = Clip(At - TeardownMangle) /\ Deleted' = Clip(k - TeardownMangle)
    <3>1. /\ Deleted = NRules - (NRules - Clip(At - TeardownMangle))
          /\ Deleted' = NRules - (NRules - Clip(k - TeardownMangle))
      BY <1>1, <1>2, <1>8 DEF Deleted, OwnRules, Clip
    <3>2. Clip(At - TeardownMangle) \in Int /\ Clip(k - TeardownMangle) \in Int
      BY <1>1, <1>3 DEF Clip
    <3> QED
      BY <1>3, <3>1, <3>2
  <2> HIDE DEF x, k
  <2>3. CASE \E a \in 1..NRules : k = TeardownMangle + a /\ x.c = "delete" /\ x.i = Rules[a]
    <3>1. PICK c \in 1..NRules : k = TeardownMangle + c /\ x.c = "delete" /\ x.i = Rules[c]
      BY <2>3
    <3>2. pre' = RemoveFirst(pre, Rules[c])
      BY <1>4, <3>1, EffectIs
    <3>3. Deleted = c - 1 /\ Deleted' = c
      BY <1>3, <1>5, <2>2, <3>1
    <3>4. At < TeardownMangle + c
      BY <1>1, <1>3, <3>1 DEF k
    <3>5. In(Rules[c])
      BY <1>8, <3>4 DEF RInv, ToDelete
    <3> QED
      BY <1>1, <1>4, <1>8, <3>2, <3>3, <3>5
  <2>4. CASE x.c \notin {"append", "delete"} /\ \A a \in 1..NRules : k # TeardownMangle + a
    <3>1. pre' = pre
      BY <1>4, <2>4, EffectIs
    <3>2. Deleted' = Deleted
      BY <1>3, <1>6, <2>2, <2>4
    <3> QED
      BY <1>1, <1>4, <1>8, <3>1, <3>2
  <2> QED
    BY <2>1, <2>3, <2>4 DEF TeardownKind
<1> QED
  BY <1>1, <1>7, <1>8

(* An empty chain has no layers. *)
LEMMA InitLayered == Init => Layered
<1> SUFFICES ASSUME Init PROVE Layered
  OBVIOUS
<1>1. pre = <<>> /\ job = "off"
  BY DEF Init
<1>2. Len(Rules) = NRules /\ NRules \in Nat
  BY RulesAre, RuleNames
<1>3. Deleted = 0 /\ Len(pre) = 0
  BY <1>1 DEF Deleted
<1>4. ASSUME NEW n \in 0..Len(pre), NEW r PROVE Among(pre, r, n) = 0
  <2>1. n \in Nat /\ \A j \in 1..n : pre[j] # r
    BY <1>3
  <2> QED
    BY <2>1, AmongIs
<1> QED
  BY <1>1, <1>2, <1>3, <1>4 DEF Layered, Layers

(* Whoever leaves the chain alone leaves its layers. *)
LEMMA SameLayered ==
    ASSUME Layered, mode' = mode, pre' = pre, halfTorn' => halfTorn, halfTorn => halfTorn',
           \/ job' = job /\ OwnRules' = OwnRules
           \/ Deleted = 0 /\ Deleted' = 0 /\ job' # "setup"
    PROVE  Layered'
<1>1. Rules' = Rules /\ NRules' = NRules
  BY ModeFixed
<1>2. CASE job' = job /\ OwnRules' = OwnRules
  <2>1. Deleted' = Deleted
    BY <1>1, <1>2 DEF Deleted
  <2> QED
    BY <1>1, <1>2, <2>1 DEF Layered
<1>3. CASE Deleted = 0 /\ Deleted' = 0 /\ job' # "setup"
  BY <1>1, <1>3 DEF Layered
<1> QED
  BY <1>2, <1>3

(* A command appends the next rule, deletes it, or leaves the chain alone. *)
LEMMA RunCmdLayered ==
    ASSUME RInv, Layered, RunCmd
    PROVE  Layered'
<1>1. mode' = mode /\ job' = job /\ halfTorn' = halfTorn /\ job \in {"setup", "teardown"}
  BY RuleStep
<1>2. Rules' = Rules /\ NRules' = NRules /\ pre \in Seq(Names)
  BY <1>1, ModeFixed DEF RInv, Shape
<1> SUFFICES ASSUME ~halfTorn PROVE Layered'
  BY <1>1 DEF Layered
<1>3. Layers(Rules, pre, Deleted) /\ (job = "setup" => Over(Rules, pre, OwnRules))
  BY DEF Layered
<1>4. CASE job = "setup"
  <2>1. Deleted = 0 /\ Deleted' = 0
    BY <1>1, <1>4 DEF Deleted
  <2>2. CASE pre' = pre /\ OwnRules' = OwnRules
    BY <1>1, <1>2, <1>3, <1>4, <2>1, <2>2 DEF Layered
  <2>3. CASE \E c \in 1..NRules : /\ OwnRules = c - 1 /\ OwnRules' = c
                                  /\ pre' = Append(pre, Rules[c])
    <3>1. PICK c \in 1..NRules : OwnRules = c - 1 /\ OwnRules' = c /\ pre' = Append(pre, Rules[c])
      BY <2>3
    <3>2. Layers(Rules, pre, 0) /\ Over(Rules, pre, c - 1)
      BY <1>3, <1>4, <2>1, <3>1
    <3>3. Layers(Rules, Append(pre, Rules[c]), 0) /\ Over(Rules, Append(pre, Rules[c]), c)
      BY <1>2, <3>2, AppendLayers
    <3> QED
      BY <1>2, <2>1, <3>1, <3>3 DEF Layered
  <2> QED
    BY <1>4, <2>2, <2>3, RuleStep
<1>5. CASE job = "teardown"
  <2>1. job' # "setup"
    BY <1>1, <1>5
  <2>2. CASE pre' = pre /\ Deleted' = Deleted
    BY <1>2, <1>3, <2>1, <2>2 DEF Layered
  <2>3. CASE \E c \in 1..NRules : /\ Deleted = c - 1 /\ Deleted' = c /\ In(Rules[c])
                                  /\ pre' = RemoveFirst(pre, Rules[c])
    <3>1. PICK c \in 1..NRules : /\ Deleted = c - 1 /\ Deleted' = c /\ In(Rules[c])
                                 /\ pre' = RemoveFirst(pre, Rules[c])
      BY <2>3
    <3>2. Layers(Rules, pre, c - 1) /\ \E j \in 1..Len(pre) : pre[j] = Rules[c]
      BY <1>3, <3>1 DEF In
    <3>3. Layers(Rules, RemoveFirst(pre, Rules[c]), c)
      BY <1>2, <3>2, RemoveLayers
    <3> QED
      BY <1>2, <2>1, <3>1, <3>3 DEF Layered
  <2> QED
    BY <1>5, <2>2, <2>3, RuleStep
<1> QED
  BY <1>1, <1>4, <1>5

(* Every step keeps the layers; after a kill during Teardown nothing is said. *)
LEMMA StepLayered == RInv /\ Layered /\ [Next]_vars => Layered'
<1> SUFFICES ASSUME RInv, Layered, [Next]_vars PROVE Layered'
  OBVIOUS
<1>0. mode \in Modes /\ halfTorn \in BOOLEAN
  BY DEF RInv, Shape
<1>p. /\ NRules \in 1..5 /\ TeardownLen \in Nat /\ TeardownMangle \in Nat /\ TeardownMangle >= 1
      /\ TeardownLen - 1 > TeardownMangle + NRules /\ Len(Rules) = NRules
      /\ SetupMangle \in Nat /\ SetupLen \in Nat /\ KnownMode
  BY <1>0, Places, RulesAre
<1>1. ASSUME NEW D \in SUBSET Tunnels, Start(D) PROVE Layered'
  <2>1. /\ mode' = mode /\ pre' = pre /\ halfTorn' = halfTorn /\ job = "off" /\ job' = "setup"
        /\ cmds' = SetupCmds
    BY <1>1 DEF Start, ruleVars
  <2>2. /\ Rules' = Rules /\ NRules' = NRules /\ SetupLen' = SetupLen
        /\ SetupMangle' = SetupMangle
    BY <2>1, ModeFixed
  <2>3. Deleted = 0 /\ Deleted' = 0
    BY <2>1 DEF Deleted
  <2>4. OwnRules' = 0
    <3>1. Len(SetupCmds) = SetupLen
      BY <1>p, SetupLayout
    <3>2. At' = 0
      BY <1>p, <2>1, <2>2, <3>1 DEF At
    <3> QED
      BY <1>p, <2>1, <2>2, <3>2 DEF OwnRules, Clip
  <2>5. Over(Rules, pre, 0)
    BY DEF Over
  <2> QED
    BY <2>1, <2>2, <2>3, <2>4, <2>5 DEF Layered
<1>2. CASE RunCmd
  BY <1>2, RunCmdLayered
<1>3. CASE SetupDone
  <2>1. mode' = mode /\ pre' = pre /\ halfTorn' = halfTorn /\ job = "setup" /\ job' = "run"
    BY <1>3 DEF SetupDone, ruleVars
  <2> QED
    BY <2>1, SameLayered DEF Deleted
<1>4. CASE Teardown
  <2>1. /\ mode' = mode /\ pre' = pre /\ halfTorn' = halfTorn /\ job = "run"
        /\ job' = "teardown" /\ cmds' = TeardownCmds
    BY <1>4 DEF Teardown, ruleVars
  <2>2. NRules' = NRules /\ TeardownLen' = TeardownLen /\ TeardownMangle' = TeardownMangle
    BY <2>1, ModeFixed
  <2>3. Len(TeardownCmds) = TeardownLen
    BY <1>p, TeardownLayout
  <2>4. At' = 0
    BY <1>p, <2>1, <2>2, <2>3 DEF At
  <2>5. OwnRules' = NRules
    BY <1>p, <2>1, <2>2, <2>4 DEF OwnRules, Clip
  <2>6. Deleted = 0 /\ Deleted' = 0
    BY <1>p, <2>1, <2>2, <2>5 DEF Deleted
  <2> QED
    BY <2>1, <2>6, SameLayered
<1>5. CASE Exit
  <2>1. /\ mode' = mode /\ pre' = pre /\ halfTorn' = halfTorn /\ job = "teardown"
        /\ cmds = <<>> /\ job' = "off"
    BY <1>5 DEF Exit, DevicesGone
  <2>2. Rules' = Rules
    BY <2>1, ModeFixed
  <2>3. At = TeardownLen
    BY <1>p, <2>1 DEF At
  <2>4. Deleted = NRules /\ Deleted' = 0
    BY <1>p, <2>1, <2>3 DEF Deleted, OwnRules, Clip
  <2>5. Layers(Rules, pre, NRules) => Layers(Rules, pre, 0)
    <3>1. \A a, b \in 1..NRules : ~(a <= 0 /\ 0 < b) /\ ~(a <= NRules /\ NRules < b)
      BY <1>p
    <3> QED
      BY <1>p, <3>1 DEF Layers
  <2> QED
    BY <2>1, <2>2, <2>4, <2>5 DEF Layered
<1>6. CASE Crash
  <2>1. /\ mode' = mode /\ pre' = pre /\ job' = "off"
    BY <1>6 DEF Crash, DevicesGone
  <2>2. halfTorn' = (halfTorn \/ job = "teardown")
    BY <1>6 DEF Crash
  <2>3. CASE job = "teardown"
    <3>1. halfTorn'
      BY <2>2, <2>3, Zenon
    <3> QED
      BY <3>1 DEF Layered
  <2>4. CASE job # "teardown"
    <3>1. Deleted = 0 /\ Deleted' = 0
      BY <2>1, <2>4 DEF Deleted
    <3>2. (halfTorn' => halfTorn) /\ (halfTorn => halfTorn')
      BY <2>2, <2>4, Zenon
    <3> QED
      BY <2>1, <3>1, <3>2, SameLayered
  <2> QED
    BY <2>3, <2>4
<1>7. ASSUME mode' = mode, pre' = pre, halfTorn' = halfTorn, job' = job, cmds' = cmds PROVE Layered'
  <2>1. At' = At
    BY <1>7, ModeFixed DEF At
  <2>2. OwnRules' = OwnRules
    BY <1>7, <2>1, ModeFixed DEF OwnRules, Clip
  <2>3. Deleted' = Deleted /\ Rules' = Rules
    BY <1>7, <2>2, ModeFixed DEF Deleted
  <2>4. /\ Layers(Rules, pre, Deleted)' = Layers(Rules, pre, Deleted)
        /\ Over(Rules, pre, OwnRules)' = Over(Rules, pre, OwnRules)
    BY <1>7, <2>2, <2>3 DEF Layers, Over, Among
  <2> QED
    BY <1>7, <2>4, Zenon DEF Layered
<1>8. ASSUME NEW act \in SUBSET Tunnels, ApplyActive(act) PROVE Layered'
  BY <1>7, <1>8 DEF ApplyActive
<1>9. ASSUME NEW t \in Tunnels, DeviceUp(t) PROVE Layered'
  BY <1>7, <1>9 DEF DeviceUp, ruleVars
<1>10. ASSUME NEW f \in Flows, SendPacket(f) PROVE Layered'
  BY <1>7, <1>10 DEF SendPacket, ruleVars
<1>11. ASSUME NEW f \in Flows, FlowEnds(f) PROVE Layered'
  BY <1>7, <1>11 DEF FlowEnds, ruleVars
<1>12. CASE SetsChange
  BY <1>7, <1>12 DEF SetsChange, ruleVars
<1>13. CASE UNCHANGED vars
  BY <1>7, <1>13 DEF vars, ruleVars
<1> QED
  BY <1>1, <1>2, <1>3, <1>4, <1>5, <1>6, <1>8, <1>9, <1>10, <1>11, <1>12, <1>13 DEF Next

(* Whatever number of killed processes have left their rules, whole or in  *)
(* part, and whatever Teardowns have since deleted the first of each: of   *)
(* the first n rules of the chain no more are a later one of Setup's list  *)
(* than an earlier one.                                                    *)
THEOREM LayersInvariance == Spec => [](RInv /\ Layered)
<1> QED
  BY InitRInv, InitLayered, StepRInv, StepLayered, PTL DEF Spec

-----------------------------------------------------------------------------
(* What becomes of a packet *)

(* The mark of a packet at a rule is 0, or what the last marking rule      *)
(* before gave it.                                                         *)
LEMMA MarkAtIs ==
    ASSUME NEW k \in Nat \ {0}, NEW d, NEW saved
    PROVE  \/ /\ \A j \in 1..(k - 1) : ~Marks(Met[j], d)
              /\ MarkAt(k, d, saved) = 0
           \/ \E m \in 1..(k - 1) :
                 /\ Marks(Met[m], d) /\ MarkAt(k, d, saved) = MarkOf(Met[m], saved)
                 /\ \A j \in 1..(k - 1) : Marks(Met[j], d) => j <= m
<1> DEFINE given == {j \in 1..(k - 1) : Marks(Met[j], d)}
<1>1. MarkAt(k, d, saved) = IF given = {} THEN 0 ELSE MarkOf(Met[Max(given)], saved)
  BY DEF MarkAt
<1>2. CASE given = {}
  BY <1>1, <1>2
<1>3. CASE given # {}
  <2>1. k - 1 \in Nat /\ given \subseteq 0..(k - 1)
    OBVIOUS
  <2>2. Max(given) \in given /\ \A y \in given : y <= Max(given)
    <3> HIDE DEF given
    <3> QED
      BY <1>3, <2>1, MaxIs
  <2>3. \A j \in 1..(k - 1) : Marks(Met[j], d) => j \in given
    OBVIOUS
  <2>4. Max(given) \in 1..(k - 1) /\ Marks(Met[Max(given)], d)
    BY <2>2
  <2> DEFINE m == Max(given)
  <2>5. MarkAt(k, d, saved) = MarkOf(Met[m], saved)
    BY <1>1, <1>3
  <2>6. \A j \in 1..(k - 1) : Marks(Met[j], d) => j <= m
    BY <2>2, <2>3
  <2>7. m \in 1..(k - 1) /\ Marks(Met[m], d)
    BY <2>4
  <2> HIDE DEF m, given
  <2> QED
    BY <2>5, <2>6, <2>7
<1> QED
  BY <1>2, <1>3

(* What becomes of a packet: no rule ends its way, or the first that does. *)
Fate(d, saved, pick) ==
    \/ /\ \A k \in 1..Len(Met) : ~Ends(Met[k], d, MarkAt(k, d, saved))
       /\ Packet(d, saved, pick).mark = MarkAt(Len(Met) + 1, d, saved)
       /\ Packet(d, saved, pick).sel = FALSE
    \/ \E k \in 1..Len(Met) :
          /\ Ends(Met[k], d, MarkAt(k, d, saved))
          /\ \A i \in 1..(k - 1) : ~Ends(Met[i], d, MarkAt(i, d, saved))
          /\ Packet(d, saved, pick).sel = (Met[k] \in {"proxysel", "sel"})
          /\ Packet(d, saved, pick).mark =
                IF Met[k] \in {"proxysel", "sel"} /\ MarkAt(k, d, saved) = 0 THEN pick
                ELSE MarkAt(k, d, saved)

(* That is what the packet's way through the chain comes to. *)
LEMMA PacketIs ==
    ASSUME NEW d, NEW saved, NEW pick, Len(Met) \in Nat
    PROVE  Fate(d, saved, pick)
<1> DEFINE ends == Ending(d, saved)
           last == IF ends = {} THEN Len(Met) + 1 ELSE Min(ends)
           sel  == ends # {} /\ Met[last] \in {"proxysel", "sel"}
           mark == MarkAt(last, d, saved)
<1>1. /\ Packet(d, saved, pick).mark = IF sel /\ mark = 0 THEN pick ELSE mark
      /\ Packet(d, saved, pick).sel = sel
  BY DEF Packet
<1>2. ends = {k \in 1..Len(Met) : Ends(Met[k], d, MarkAt(k, d, saved))}
  BY DEF Ending
<1> HIDE DEF ends
<1>3. CASE ends = {}
  <2>1. \A k \in 1..Len(Met) : ~Ends(Met[k], d, MarkAt(k, d, saved))
    BY <1>2, <1>3
  <2>2. sel = FALSE /\ last = Len(Met) + 1
    BY <1>3
  <2> HIDE DEF sel, last
  <2>3. /\ Packet(d, saved, pick).sel = FALSE
        /\ Packet(d, saved, pick).mark = mark
    BY <1>1, <2>2
  <2>4. mark = MarkAt(Len(Met) + 1, d, saved)
    BY <2>2
  <2> QED
    BY <2>1, <2>3, <2>4 DEF Fate
<1>4. CASE ends # {}
  <2>1. ends \subseteq Nat
    BY <1>2
  <2>2. last \in ends /\ \A y \in ends : last <= y
    BY <1>4, <2>1, MinIs
  <2>3. sel = (Met[last] \in {"proxysel", "sel"})
    BY <1>4
  <2> HIDE DEF last
  <2>4. last \in 1..Len(Met) /\ Ends(Met[last], d, MarkAt(last, d, saved))
    BY <1>2, <2>2
  <2>5. ASSUME NEW i \in 1..(last - 1) PROVE ~Ends(Met[i], d, MarkAt(i, d, saved))
    <3>1. i \in 1..Len(Met) /\ ~(last <= i)
      BY <2>4
    <3>2. i \notin ends
      BY <2>2, <3>1
    <3> QED
      BY <1>2, <3>1, <3>2
  <2>6. Packet(d, saved, pick).sel = (Met[last] \in {"proxysel", "sel"})
    BY <1>1, <2>3
  <2>7. Packet(d, saved, pick).mark =
           IF Met[last] \in {"proxysel", "sel"} /\ MarkAt(last, d, saved) = 0 THEN pick
           ELSE MarkAt(last, d, saved)
    BY <1>1, <2>3
  <2> QED
    BY <2>4, <2>5, <2>6, <2>7 DEF Fate
<1> QED
  BY <1>3, <1>4

(* In a table that has its unreachable route no packet finds the ISP. *)
LEMMA NotByISP ==
    ASSUME Shape, NEW t \in rules, t \in fallback
    PROVE  ISP \notin Exits(t)
<1>1. N \in Nat /\ NTables \in 1..N
  BY Places DEF Shape
<1>2. t \in Tunnels
  BY <1>1 DEF Shape, Tunnels
<1>3. ISP \notin route[t]
  BY <1>1, <1>2 DEF Shape, Tunnels, ISP
<1> QED
  BY <1>3 DEF Exits, ISP, Reject

(* A packet without a mark has no table but the main one. *)
LEMMA UnmarkedByISP ==
    ASSUME Shape
    PROVE  Exits(0) = {ISP}
<1>1. 0 \notin rules
  BY DEF Shape
<1> QED
  BY <1>1 DEF Exits

(* The order of the rules: before a rule there is one of each that Setup   *)
(* appends before it.                                                      *)
LEMMA Earlier ==
    ASSUME RInv, Layered, ~halfTorn, job # "teardown",
           NEW a \in 1..NRules, NEW b \in 1..NRules, a < b,
           NEW j \in 1..Len(pre), pre[j] = Rules[b]
    PROVE  \E i \in 1..(j - 1) : pre[i] = Rules[a]
<1>1. Len(Rules) = NRules /\ NRules \in Nat /\ Rules[a] # Rules[b]
  BY RulesAre, RuleNames
<1>2. Len(pre) \in Nat /\ j \in Nat /\ j \in 0..Len(pre) /\ j \in 1..j
  BY LenProperties DEF RInv, Shape
<1>3. Layers(Rules, pre, 0)
  BY DEF Layered, Deleted
<1>4. Among(pre, Rules[b], j) <= Among(pre, Rules[a], j) + 0
  <2>1. ~(a <= 0 /\ 0 < b)
    BY <1>1
  <2> QED
    BY <1>1, <1>2, <1>3, <2>1 DEF Layers
<1>5. /\ Among(pre, Rules[a], j) \in Nat /\ Among(pre, Rules[b], j) \in Nat
      /\ Among(pre, Rules[b], j) # 0
  BY <1>2, AmongIs
<1>6. Among(pre, Rules[a], j) # 0
  BY <1>4, <1>5
<1>7. PICK i \in 1..j : pre[i] = Rules[a]
  BY <1>2, <1>6, AmongIs
<1>8. i # j
  BY <1>1, <1>7
<1>9. i \in 1..(j - 1)
  BY <1>2, <1>8
<1> QED
  BY <1>7, <1>9

(* The modes with marks only: no rule ends a packet's way, and the last    *)
(* that applies to it decides.                                             *)
LEMMA PlainMark ==
    ASSUME Len(Met) \in Nat, \A j \in 1..Len(Met) : Met[j] \in {"tunnel", "direct", "proxy"},
           NEW d, NEW saved, NEW pick
    PROVE  /\ d \notin direct /\ (\E j \in 1..Len(Met) : Met[j] = "tunnel")
                 => Packet(d, saved, pick).mark = 1
           /\ d \in proxy /\ Len(Met) >= 1 /\ Met[Len(Met)] = "proxy"
                 => Packet(d, saved, pick).mark = 1
           /\ d \in direct /\ d \notin proxy /\ Len(Met) >= 2
              /\ Met[Len(Met)] = "proxy" /\ Met[Len(Met) - 1] = "direct"
                 => Packet(d, saved, pick).mark = 0
<1> DEFINE L == Len(Met)
           mark == Packet(d, saved, pick).mark
<1>1. \A k \in 1..L : ~Ends(Met[k], d, MarkAt(k, d, saved))
  BY DEF Ends
<1>2. mark = MarkAt(L + 1, d, saved)
  <2>1. Fate(d, saved, pick)
    BY PacketIs
  <2> QED
    BY <1>1, <2>1 DEF Fate
<1>3. (L + 1) - 1 = L /\ L + 1 \in Nat \ {0}
  OBVIOUS
<1>4. \/ /\ \A j \in 1..L : ~Marks(Met[j], d)
         /\ MarkAt(L + 1, d, saved) = 0
      \/ \E m \in 1..L :
            /\ Marks(Met[m], d) /\ MarkAt(L + 1, d, saved) = MarkOf(Met[m], saved)
            /\ \A j \in 1..L : Marks(Met[j], d) => j <= m
  BY <1>3, MarkAtIs
<1> HIDE DEF mark
<1>5. ASSUME d \notin direct, \E j \in 1..L : Met[j] = "tunnel" PROVE mark = 1
  <2>1. \E j \in 1..L : Marks(Met[j], d)
    BY <1>5 DEF Marks
  <2>2. PICK m \in 1..L : Marks(Met[m], d) /\ MarkAt(L + 1, d, saved) = MarkOf(Met[m], saved)
    BY <1>4, <2>1
  <2>3. Met[m] \in {"tunnel", "proxy"}
    BY <1>5, <2>2 DEF Marks
  <2> QED
    BY <1>2, <2>2, <2>3 DEF MarkOf
<1>6. ASSUME d \in proxy, L >= 1, Met[L] = "proxy" PROVE mark = 1
  <2>1. L \in 1..L /\ Marks(Met[L], d)
    BY <1>6 DEF Marks
  <2>2. PICK m \in 1..L : /\ MarkAt(L + 1, d, saved) = MarkOf(Met[m], saved)
                          /\ \A j \in 1..L : Marks(Met[j], d) => j <= m
    BY <1>4, <2>1
  <2>3. m = L
    BY <2>1, <2>2
  <2> QED
    BY <1>2, <1>6, <2>2, <2>3 DEF MarkOf
<1>7. ASSUME d \in direct, d \notin proxy, L >= 2, Met[L] = "proxy", Met[L - 1] = "direct"
      PROVE  mark = 0
  <2>1. L - 1 \in 1..L /\ Marks(Met[L - 1], d) /\ ~Marks(Met[L], d)
    BY <1>7 DEF Marks
  <2>2. PICK m \in 1..L : /\ Marks(Met[m], d) /\ MarkAt(L + 1, d, saved) = MarkOf(Met[m], saved)
                          /\ \A j \in 1..L : Marks(Met[j], d) => j <= m
    BY <1>4, <2>1
  <2>3. m = L - 1
    <3>1. m # L /\ L - 1 <= m
      BY <2>1, <2>2
    <3> QED
      BY <2>2, <3>1
  <2> QED
    BY <1>2, <1>7, <2>2, <2>3 DEF MarkOf
<1> QED
  BY <1>5, <1>6, <1>7 DEF mark

(* What the packets meet in those modes. *)
LEMMA PlainChain ==
    ASSUME RInv, mode # "sticky"
    PROVE  /\ Len(Met) \in Nat /\ \A j \in 1..Len(Met) : Met[j] \in {"tunnel", "direct", "proxy"}
           /\ armed /\ ~Flushed => \E j \in 1..Len(Met) : Met[j] = "tunnel"
           /\ job = "run" => /\ Len(Met) >= 3
                             /\ Met[Len(Met)] = "proxy" /\ Met[Len(Met) - 1] = "direct"
<1>1. mode \in Modes /\ pre \in Seq(Names) /\ Len(pre) \in Nat
  BY LenProperties DEF RInv, Shape
<1>2. /\ out \in Seq({"tunnel", "direct", "proxy"}) /\ Len(out) \in Nat /\ Len(out) <= 3
      /\ \A j \in 1..Len(out) : out[j] = OutRules[j]
  BY LenProperties DEF RInv, Shape
<1>3. OutRules[1] = "tunnel" /\ OutRules[2] = "direct" /\ OutRules[3] = "proxy"
  BY DEF OutRules
<1>4. CASE mode = "transit"
  <2>1. Rules[1] = "jump" /\ NRules = 1
    BY <1>4, RulesAre DEF NRules
  <2>2. armed => Contains(pre, "jump")
    <3>1. armed => In("jump")
      BY <2>1 DEF RInv, ArmedHas
    <3> QED
      BY <3>1 DEF In, Contains
  <2>3. CASE Contains(pre, "jump")
    <3>1. Met = out
      BY <1>4, <2>3 DEF Met
    <3>2. \A j \in 1..Len(out) : out[j] \in {"tunnel", "direct", "proxy"}
      BY <1>2, ElementOfSeq
    <3>3. ASSUME armed, ~Flushed PROVE \E j \in 1..Len(out) : out[j] = "tunnel"
      <4>1. out # <<>>
        BY <1>4, <3>3 DEF Flushed
      <4>2. Len(out) > 0
        BY <1>2, <4>1, EmptySeq
      <4>3. 1 \in 1..Len(out) /\ out[1] = "tunnel"
        BY <1>2, <1>3, <4>2
      <4> QED
        BY <4>3
    <3>4. ASSUME job = "run" PROVE Len(out) = 3 /\ out[3] = "proxy" /\ out[2] = "direct"
      <4>1. Len(out) = 3
        BY <1>4, <3>4 DEF RInv, SetupDid
      <4> QED
        BY <1>2, <1>3, <4>1
    <3> QED
      BY <1>2, <3>1, <3>2, <3>3, <3>4
  <2>4. CASE ~Contains(pre, "jump")
    <3>1. Met = <<>>
      BY <1>4, <2>4 DEF Met
    <3>2. ~armed
      BY <2>2, <2>4
    <3>3. job # "run"
      BY <3>2 DEF RInv, SetupDid
    <3> QED
      BY <3>1, <3>2, <3>3
  <2> QED
    BY <2>3, <2>4
<1>5. CASE mode # "transit"
  <2>1. /\ Rules[1] = "tunnel" /\ Rules[2] = "direct" /\ Rules[3] = "proxy" /\ NRules = 3
        /\ Names = {"tunnel", "direct", "proxy"}
    BY <1>5, RulesAre DEF NRules, Names
  <2>2. Met = pre
    BY <1>5 DEF Met
  <2>3. \A j \in 1..Len(pre) : pre[j] \in {"tunnel", "direct", "proxy"}
    BY <1>1, <2>1, ElementOfSeq
  <2>4. ASSUME armed PROVE \E j \in 1..Len(pre) : pre[j] = "tunnel"
    <3>1. 1 \in 1..NRules
      BY <2>1
    <3>2. In(Rules[1])
      BY <2>4, <3>1 DEF RInv, ArmedHas
    <3> QED
      BY <2>1, <3>2 DEF In
  <2>5. ASSUME job = "run"
        PROVE  Len(pre) >= 3 /\ pre[Len(pre)] = "proxy" /\ pre[Len(pre) - 1] = "direct"
    <3>1. OwnRules = 3
      BY <2>1, <2>5 DEF OwnRules
    <3>2. Len(pre) >= 3 /\ \A a \in 1..3 : pre[Len(pre) - 3 + a] = Rules[a]
      BY <2>5, <3>1 DEF RInv, Appended
    <3>3. pre[Len(pre) - 3 + 3] = "proxy" /\ pre[Len(pre) - 3 + 2] = "direct"
      BY <2>1, <3>2
    <3>4. Len(pre) - 3 + 3 = Len(pre) /\ Len(pre) - 3 + 2 = Len(pre) - 1
      BY <1>1
    <3> QED
      BY <3>2, <3>3, <3>4
  <2> QED
    BY <1>1, <2>2, <2>3, <2>4, <2>5
<1> QED
  BY <1>4, <1>5

(* Sticky mode: the only rule that marks is the one that restores what     *)
(* conntrack has saved.                                                    *)
LEMMA StickyMark ==
    ASSUME RInv, mode = "sticky", NEW d, NEW saved, NEW k \in 1..(Len(pre) + 1)
    PROVE  /\ saved = 0 => MarkAt(k, d, saved) = 0
           /\ (\E i \in 1..(k - 1) : pre[i] = "restore") => MarkAt(k, d, saved) = saved
<1>1. Met = pre /\ pre \in Seq(Names) /\ Len(pre) \in Nat
  BY LenProperties DEF RInv, Shape, Met
<1>2. \A j \in 1..Len(pre) : pre[j] \in {"restore", "pinned", "proxysel", "directret", "sel"}
  BY <1>1, ElementOfSeq DEF Names
<1>3. ASSUME NEW j \in 1..(k - 1)
      PROVE  /\ Marks(pre[j], d) <=> pre[j] = "restore"
             /\ pre[j] = "restore" => MarkOf(pre[j], saved) = saved
  <2>1. j \in 1..Len(pre)
    BY <1>1
  <2> QED
    BY <1>2, <2>1 DEF Marks, MarkOf
<1>4. \/ /\ \A j \in 1..(k - 1) : ~Marks(pre[j], d)
         /\ MarkAt(k, d, saved) = 0
      \/ \E m \in 1..(k - 1) :
            Marks(pre[m], d) /\ MarkAt(k, d, saved) = MarkOf(pre[m], saved)
  <2>1. k \in Nat \ {0}
    BY <1>1
  <2> QED
    BY <1>1, <2>1, MarkAtIs
<1> QED
  BY <1>3, <1>4

(* The order of the sticky rules. *)
LEMMA StickyOrder ==
    ASSUME RInv, Layered, ~halfTorn, job # "teardown", mode = "sticky",
           NEW j \in 1..Len(pre)
    PROVE  /\ pre[j] = "pinned" => \E i \in 1..(j - 1) : pre[i] = "restore"
           /\ pre[j] \in {"proxysel", "sel"} => \E i \in 1..(j - 1) : pre[i] = "pinned"
           /\ pre[j] = "directret" => \E i \in 1..(j - 1) : pre[i] = "proxysel"
           /\ pre[j] = "sel" => \E i \in 1..(j - 1) : pre[i] = "directret"
<1>1. /\ NRules = 5 /\ Rules[1] = "restore" /\ Rules[2] = "pinned" /\ Rules[3] = "proxysel"
      /\ Rules[4] = "directret" /\ Rules[5] = "sel"
  BY RulesAre DEF NRules
<1>2. 1 \in 1..NRules /\ 2 \in 1..NRules /\ 3 \in 1..NRules /\ 4 \in 1..NRules /\ 5 \in 1..NRules
  BY <1>1
<1>3. ASSUME NEW a \in 1..NRules, NEW b \in 1..NRules, a < b, pre[j] = Rules[b]
      PROVE  \E i \in 1..(j - 1) : pre[i] = Rules[a]
  BY <1>3, Earlier
<1>4. pre[j] = "pinned" => \E i \in 1..(j - 1) : pre[i] = "restore"
  BY <1>1, <1>2, <1>3
<1>5. pre[j] = "proxysel" => \E i \in 1..(j - 1) : pre[i] = "pinned"
  BY <1>1, <1>2, <1>3
<1>6. pre[j] = "sel" => \E i \in 1..(j - 1) : pre[i] = "pinned"
  BY <1>1, <1>2, <1>3
<1>7. pre[j] = "directret" => \E i \in 1..(j - 1) : pre[i] = "proxysel"
  BY <1>1, <1>2, <1>3
<1>8. pre[j] = "sel" => \E i \in 1..(j - 1) : pre[i] = "directret"
  BY <1>1, <1>2, <1>3
<1> QED
  BY <1>4, <1>5, <1>6, <1>7, <1>8

(* The first packet of a flow in sticky mode. *)
LEMMA StickyNew ==
    ASSUME RInv, Layered, ~halfTorn, job # "teardown", mode = "sticky", NEW d, NEW pick
    PROVE  /\ (d \notin direct \/ d \in proxy) /\ armed => Packet(d, 0, pick).mark = pick
           /\ d \in direct /\ d \notin proxy => Packet(d, 0, pick).mark = 0
<1> DEFINE p == Packet(d, 0, pick)
<1>1. Met = pre /\ pre \in Seq(Names) /\ Len(pre) \in Nat /\ Len(Met) \in Nat
  BY LenProperties DEF RInv, Shape, Met
<1>2. \A k \in 1..(Len(pre) + 1) : MarkAt(k, d, 0) = 0
  BY StickyMark
<1>3. \/ /\ \A k \in 1..Len(pre) : ~Ends(pre[k], d, MarkAt(k, d, 0))
         /\ p.mark = MarkAt(Len(pre) + 1, d, 0)
      \/ \E k \in 1..Len(pre) :
            /\ Ends(pre[k], d, MarkAt(k, d, 0))
            /\ \A i \in 1..(k - 1) : ~Ends(pre[i], d, MarkAt(i, d, 0))
            /\ p.mark = IF pre[k] \in {"proxysel", "sel"} /\ MarkAt(k, d, 0) = 0 THEN pick
                        ELSE MarkAt(k, d, 0)
  <2>1. Fate(d, 0, pick)
    BY <1>1, PacketIs
  <2> QED
    BY <1>1, <2>1 DEF Fate
<1> HIDE DEF p
<1>4. \A k \in 1..Len(pre) : MarkAt(k, d, 0) = 0
  BY <1>1, <1>2
<1>5. MarkAt(Len(pre) + 1, d, 0) = 0
  BY <1>1, <1>2
<1>6. \/ /\ \A k \in 1..Len(pre) : ~Ends(pre[k], d, 0)
         /\ p.mark = 0
      \/ \E k \in 1..Len(pre) :
            /\ Ends(pre[k], d, 0)
            /\ \A i \in 1..(k - 1) : ~Ends(pre[i], d, 0)
            /\ p.mark = IF pre[k] \in {"proxysel", "sel"} THEN pick ELSE 0
  <2>1. CASE \A k \in 1..Len(pre) : ~Ends(pre[k], d, MarkAt(k, d, 0))
    BY <1>3, <1>4, <1>5, <2>1
  <2>2. CASE \E k \in 1..Len(pre) :
            /\ Ends(pre[k], d, MarkAt(k, d, 0))
            /\ \A i \in 1..(k - 1) : ~Ends(pre[i], d, MarkAt(i, d, 0))
            /\ p.mark = IF pre[k] \in {"proxysel", "sel"} /\ MarkAt(k, d, 0) = 0 THEN pick
                        ELSE MarkAt(k, d, 0)
    <3>1. PICK k \in 1..Len(pre) :
            /\ Ends(pre[k], d, MarkAt(k, d, 0))
            /\ \A i \in 1..(k - 1) : ~Ends(pre[i], d, MarkAt(i, d, 0))
            /\ p.mark = IF pre[k] \in {"proxysel", "sel"} /\ MarkAt(k, d, 0) = 0 THEN pick
                        ELSE MarkAt(k, d, 0)
      BY <2>2
    <3>2. MarkAt(k, d, 0) = 0 /\ \A i \in 1..(k - 1) : MarkAt(i, d, 0) = 0
      BY <1>1, <1>4
    <3>3. \A i \in 1..(k - 1) : ~Ends(pre[i], d, 0)
      BY <3>1, <3>2
    <3> QED
      BY <3>1, <3>2, <3>3
  <2> QED
    BY <1>3, <2>1, <2>2
<1>7. ASSUME d \notin direct \/ d \in proxy, armed PROVE p.mark = pick
  <2>1. \E k \in 1..Len(pre) : Ends(pre[k], d, 0)
    <3>1. Rules[5] = "sel" /\ 5 \in 1..NRules
      BY RulesAre DEF NRules
    <3>2. In("sel")
      BY <1>7, <3>1 DEF RInv, ArmedHas
    <3> QED
      BY <3>2 DEF In, Ends
  <2>2. PICK k \in 1..Len(pre) :
            /\ Ends(pre[k], d, 0)
            /\ \A i \in 1..(k - 1) : ~Ends(pre[i], d, 0)
            /\ p.mark = IF pre[k] \in {"proxysel", "sel"} THEN pick ELSE 0
    BY <1>6, <2>1
  <2>3. pre[k] # "directret"
    <3> SUFFICES ASSUME pre[k] = "directret" PROVE FALSE
      OBVIOUS
    <3>1. d \in proxy
      BY <1>7, <2>2 DEF Ends
    <3>2. PICK i \in 1..(k - 1) : pre[i] = "proxysel"
      BY StickyOrder
    <3> QED
      BY <2>2, <3>1, <3>2 DEF Ends
  <2>4. pre[k] \in {"proxysel", "sel"}
    BY <2>2, <2>3 DEF Ends
  <2> QED
    BY <2>2, <2>4
<1>8. ASSUME d \in direct, d \notin proxy PROVE p.mark = 0
  <2>1. CASE \A k \in 1..Len(pre) : ~Ends(pre[k], d, 0)
    BY <1>6, <2>1
  <2>2. CASE \E k \in 1..Len(pre) : Ends(pre[k], d, 0)
    <3>1. PICK k \in 1..Len(pre) :
            /\ Ends(pre[k], d, 0)
            /\ \A i \in 1..(k - 1) : ~Ends(pre[i], d, 0)
            /\ p.mark = IF pre[k] \in {"proxysel", "sel"} THEN pick ELSE 0
      BY <1>6, <2>2
    <3>2. pre[k] # "sel"
      <4> SUFFICES ASSUME pre[k] = "sel" PROVE FALSE
        OBVIOUS
      <4>1. PICK i \in 1..(k - 1) : pre[i] = "directret"
        BY StickyOrder
      <4> QED
        BY <1>8, <3>1, <4>1 DEF Ends
    <3>3. pre[k] = "directret"
      BY <1>8, <3>1, <3>2 DEF Ends
    <3> QED
      BY <3>1, <3>3
  <2> QED
    BY <2>1, <2>2
<1> QED
  BY <1>7, <1>8 DEF p

(* What the selection chain may pick. *)
LEMMA PicksAre ==
    ASSUME Shape
    PROVE  /\ Picks # {}
           /\ chain # <<>> => Picks \subseteq Tunnels
<1>1. chain \in Seq(Tunnels) /\ DOMAIN chain = 1..Len(chain) /\ Len(chain) \in Nat
  BY LenProperties DEF Shape
<1>2. CASE chain = <<>>
  BY <1>2 DEF Picks
<1>3. CASE chain # <<>>
  <2>1. Len(chain) > 0
    BY <1>1, <1>3, EmptySeq
  <2>2. 1 \in DOMAIN chain /\ \A j \in 1..Len(chain) : chain[j] \in Tunnels
    BY <1>1, <2>1, ElementOfSeq
  <2>3. Picks = {chain[j] : j \in DOMAIN chain}
    BY <1>3 DEF Picks, ToSet
  <2> QED
    BY <1>1, <2>2, <2>3
<1> QED
  BY <1>2, <1>3

(* From the first completed Setup to the Teardown, through rebuilds, kills *)
(* and restarts, no new flow to a destination that is not direct leaves by *)
(* the ISP, whatever the selection chain picks.                            *)
THEOREM NeverUnprotected == Spec => []Protected
<1>1. RInv /\ Layered => Protected
  <2> SUFFICES ASSUME RInv, Layered, armed, ~halfTorn, ~Flushed,
                      NEW d \in Dests, d \notin direct \/ (d \in proxy /\ job = "run"),
                      NEW pick \in Picks
               PROVE  ISP \notin Exits(Packet(d, 0, pick).mark)
    BY DEF Protected, NewFlow
  <2>1. Shape /\ mode \in Modes /\ N \in Nat /\ N > 0 /\ NTables \in 1..N
    BY Places DEF RInv, Shape
  <2>2. /\ job # "teardown" /\ 1..NTables \subseteq rules /\ 1..NTables \subseteq fallback
    BY DEF RInv, ArmedHas
  <2>3. CASE mode = "sticky"
    <3>1. NTables = N
      BY <2>3 DEF NTables
    <3>2. chain # <<>>
      BY <2>3 DEF Flushed
    <3>3. pick \in 1..N
      BY <2>1, <3>2, PicksAre DEF Tunnels
    <3>4. Packet(d, 0, pick).mark = pick
      BY <2>2, <2>3, StickyNew
    <3>5. pick \in rules /\ pick \in fallback
      BY <2>2, <3>1, <3>3
    <3> QED
      BY <2>1, <3>4, <3>5, NotByISP
  <2>4. CASE mode # "sticky"
    <3>1. /\ Len(Met) \in Nat /\ \A j \in 1..Len(Met) : Met[j] \in {"tunnel", "direct", "proxy"}
          /\ \E j \in 1..Len(Met) : Met[j] = "tunnel"
          /\ job = "run" => Len(Met) >= 3 /\ Met[Len(Met)] = "proxy"
      BY <2>4, PlainChain
    <3>2. Packet(d, 0, pick).mark = 1
      <4>1. CASE d \notin direct
        BY <3>1, <4>1, PlainMark
      <4>2. CASE d \in proxy /\ job = "run"
        <5>1. Len(Met) >= 1 /\ Met[Len(Met)] = "proxy"
          BY <3>1, <4>2
        <5> QED
          BY <3>1, <4>2, <5>1, PlainMark
      <4> QED
        BY <4>1, <4>2
    <3>3. 1 \in rules /\ 1 \in fallback
      BY <2>1, <2>2
    <3> QED
      BY <2>1, <3>2, <3>3, NotByISP
  <2> QED
    BY <2>3, <2>4
<1> QED
  BY <1>1, LayersInvariance, PTL

(* While the gateway runs, new flows to direct destinations leave by the   *)
(* ISP alone, whatever rules killed processes have left.                   *)
THEOREM DirectAlways == Spec => []DirectHonoured
<1>1. RInv /\ Layered => DirectHonoured
  <2> SUFFICES ASSUME RInv, Layered, job = "run", ~halfTorn,
                      NEW d \in direct \ proxy
               PROVE  NewFlow(d) = {ISP}
    BY DEF DirectHonoured
  <2>1. Shape /\ Exits(0) = {ISP} /\ Picks # {}
    BY UnmarkedByISP, PicksAre DEF RInv
  <2>2. ASSUME NEW pick PROVE Packet(d, 0, pick).mark = 0
    <3>1. CASE mode = "sticky"
      BY <3>1, StickyNew
    <3>2. CASE mode # "sticky"
      <4>1. /\ Len(Met) \in Nat /\ \A j \in 1..Len(Met) : Met[j] \in {"tunnel", "direct", "proxy"}
            /\ Len(Met) >= 2 /\ Met[Len(Met)] = "proxy" /\ Met[Len(Met) - 1] = "direct"
        BY <3>2, PlainChain
      <4> QED
        BY <4>1, PlainMark
    <3> QED
      BY <3>1, <3>2
  <2>3. \A pick \in Picks : Exits(Packet(d, 0, pick).mark) = {ISP}
    BY <2>1, <2>2
  <2> QED
    BY <2>1, <2>3 DEF NewFlow
<1> QED
  BY <1>1, LayersInvariance, PTL

(* A packet of a flow that has its tunnel does not come to the selection. *)
LEMMA PinnedStays ==
    ASSUME RInv, Layered, ~halfTorn, job # "teardown", mode = "sticky",
           NEW d, NEW saved, saved # 0, NEW pick
    PROVE  Packet(d, saved, pick).sel = FALSE
<1> DEFINE p == Packet(d, saved, pick)
<1>1. Met = pre /\ pre \in Seq(Names) /\ Len(pre) \in Nat /\ Len(Met) \in Nat
  BY LenProperties DEF RInv, Shape, Met
<1>2. \/ p.sel = FALSE
      \/ \E k \in 1..Len(pre) :
            /\ \A i \in 1..(k - 1) : ~Ends(pre[i], d, MarkAt(i, d, saved))
            /\ p.sel = (pre[k] \in {"proxysel", "sel"})
  <2>1. Fate(d, saved, pick)
    BY <1>1, PacketIs
  <2> QED
    BY <1>1, <2>1 DEF Fate
<1> HIDE DEF p
<1>3. ASSUME NEW k \in 1..Len(pre),
             \A i \in 1..(k - 1) : ~Ends(pre[i], d, MarkAt(i, d, saved)),
             pre[k] \in {"proxysel", "sel"}
      PROVE  FALSE
  <2>1. PICK i \in 1..(k - 1) : pre[i] = "pinned"
    BY <1>3, StickyOrder
  <2>2. i \in 1..Len(pre) /\ i \in 1..(Len(pre) + 1)
    BY <1>1
  <2>3. \E h \in 1..(i - 1) : pre[h] = "restore"
    BY <2>1, <2>2, StickyOrder
  <2>4. MarkAt(i, d, saved) = saved
    BY <2>2, <2>3, StickyMark
  <2> QED
    BY <1>3, <2>1, <2>4 DEF Ends
<1>4. ASSUME NEW k \in 1..Len(pre),
             \A i \in 1..(k - 1) : ~Ends(pre[i], d, MarkAt(i, d, saved)),
             p.sel = (pre[k] \in {"proxysel", "sel"})
      PROVE  p.sel = FALSE
  <2>1. ~(pre[k] \in {"proxysel", "sel"})
    BY <1>3, <1>4
  <2>2. (pre[k] \in {"proxysel", "sel"}) = FALSE
    BY <2>1
  <2> QED
    BY <1>4, <2>2, Zenon
<1>5. p.sel = FALSE
  BY <1>2, <1>4, Zenon
<1> QED
  BY <1>5 DEF p

(* A flow that has its tunnel keeps it: no packet of it comes to the       *)
(* selection again, and the table of its mark has that tunnel or none.     *)
THEOREM FlowsPinned == Spec => FlowPinned
<1> DEFINE Pin == mode = "sticky" /\ ~halfTorn' /\ job' # "teardown" => \A f \in Flows :
                     connmark[f] # 0 => /\ connmark'[f] \in {connmark[f], 0}
                                        /\ route'[connmark[f]] \subseteq {connmark[f]}
<1>1. RInv /\ Layered /\ RInv' /\ [Next]_vars => [Pin]_vars
  <2> SUFFICES ASSUME RInv, Layered, RInv', Next, mode = "sticky", ~halfTorn', job' # "teardown",
                      NEW f \in Flows, connmark[f] # 0
               PROVE  /\ connmark'[f] \in {connmark[f], 0}
                      /\ route'[connmark[f]] \subseteq {connmark[f]}
    OBVIOUS
  <2>0. connmark \in [Flows -> 0..N] /\ N \in Nat
    BY RoutingAssumption DEF RInv, Shape
  <2>1. connmark'[f] \in {connmark[f], 0}
    <3>1. ASSUME NEW g \in Flows, SendPacket(g) PROVE connmark'[f] \in {connmark[f], 0}
      <4>1. PICK pick \in Picks :
               /\ connmark' = [connmark EXCEPT ![g] =
                     IF Packet(FlowDst[g], connmark[g], pick).sel
                     THEN Packet(FlowDst[g], connmark[g], pick).mark ELSE @]
               /\ job' = job /\ halfTorn' = halfTorn
        BY <3>1 DEF SendPacket
      <4>2. CASE g # f
        BY <2>0, <4>1, <4>2
      <4>3. CASE g = f
        <5>1. job # "teardown" /\ ~halfTorn
          BY <4>1, Zenon
        <5>2. Packet(FlowDst[f], connmark[f], pick).sel = FALSE
          BY <5>1, PinnedStays
        <5> QED
          BY <2>0, <4>1, <4>3, <5>2
      <4> QED
        BY <4>2, <4>3
    <3>2. ASSUME NEW g \in Flows, FlowEnds(g) PROVE connmark'[f] \in {connmark[f], 0}
      BY <2>0, <3>2 DEF FlowEnds
    <3>3. ASSUME connmark' = connmark PROVE connmark'[f] \in {connmark[f], 0}
      BY <3>3
    <3>4. ASSUME NEW S \in SUBSET Tunnels, Start(S) \/ ApplyActive(S) PROVE connmark' = connmark
      BY <3>4 DEF Start, ApplyActive
    <3>5. ASSUME RunCmd \/ SetupDone \/ Teardown \/ Exit \/ Crash \/ SetsChange
          PROVE  connmark' = connmark
      BY <3>5 DEF RunCmd, SetupDone, Teardown, Exit, Crash, SetsChange
    <3>6. ASSUME NEW t \in Tunnels, DeviceUp(t) PROVE connmark' = connmark
      BY <3>6 DEF DeviceUp
    <3> QED
      BY <3>1, <3>2, <3>3, <3>4, <3>5, <3>6 DEF Next
  <2>2. route'[connmark[f]] \subseteq {connmark[f]}
    <3>1. mode' = mode
      <4>1. ASSUME NEW S \in SUBSET Tunnels, Start(S) \/ ApplyActive(S) PROVE mode' = mode
        BY <4>1 DEF Start, ApplyActive
      <4>2. ASSUME RunCmd \/ SetupDone \/ Teardown \/ Exit \/ Crash \/ SetsChange
            PROVE  mode' = mode
        BY <4>2 DEF RunCmd, SetupDone, Teardown, Exit, Crash, SetsChange
      <4>3. ASSUME NEW t \in Tunnels, DeviceUp(t) PROVE mode' = mode
        BY <4>3 DEF DeviceUp
      <4>4. ASSUME NEW g \in Flows, SendPacket(g) \/ FlowEnds(g) PROVE mode' = mode
        BY <4>4 DEF SendPacket, FlowEnds
      <4> QED
        BY <4>1, <4>2, <4>3, <4>4 DEF Next
    <3>2. connmark[f] \in Tunnels
      BY <2>0 DEF Tunnels
    <3> QED
      BY <3>1, <3>2 DEF RInv, Shape
  <2> QED
    BY <2>1, <2>2
<1> QED
  BY <1>1, LayersInvariance, PTL DEF Spec, FlowPinned

-----------------------------------------------------------------------------
(* The address sets *)

(* While the updater fills the temporary set, that set holds what has been *)
(* added of the new list; so the swap installs all of it but for what      *)
(* could not be added.                                                     *)
TmpFills ==
    geo.step = "add" =>
        /\ geo.todo \subseteq geo.new /\ geo.skip \subseteq geo.new
        /\ geo.new \ (geo.todo \cup geo.skip) \subseteq tmp

SetsIInv == SetsTypeOK /\ TmpFills /\ NeverPartial

(* Every list names destinations. *)
LEMMA ListsAreDests ==
    /\ \A L \in Lists : L \subseteq Geo
    /\ Geo \subseteq Subnets
    /\ DirectCIDRs \cup ProxyCIDRs \subseteq Subnets /\ DirectDomains \subseteq Subnets
BY DEF Geo, Subnets

(* The updater's state while the gateway is down. *)
LEMMA GeoOffIs == GeoOff = [step |-> "off", new |-> {}, todo |-> {}, skip |-> {}]
BY DEF GeoOff, GeoIdle

(* Before the first start no list is in force. *)
LEMMA InitSetsIInv == SetsInit => SetsIInv
<1> SUFFICES ASSUME SetsInit PROVE SetsIInv
  OBVIOUS
<1>1. geo = [step |-> "off", new |-> {}, todo |-> {}, skip |-> {}]
  BY GeoOffIs DEF SetsInit
<1>2. geo \in [step : {"off", "wait", "add", "destroy"}, new : SUBSET Geo, todo : SUBSET Geo,
              skip : SUBSET Geo]
  BY <1>1
<1>3. up \in BOOLEAN
  BY DEF SetsInit
<1>4. SetsTypeOK
  BY <1>2, <1>3 DEF SetsInit, SetsTypeOK, ResolverOff
<1> QED
  BY <1>1, <1>4 DEF SetsInit, SetsIInv, TmpFills, NeverPartial

(* Every command of the updater, every entry the resolver adds and every   *)
(* end of the process keeps the invariant.                                 *)
LEMMA StepSetsIInv == SetsIInv /\ [SetsNext]_setsVars => SetsIInv'
<1> SUFFICES ASSUME SetsIInv, [SetsNext]_setsVars PROVE SetsIInv'
  OBVIOUS
<1> USE ListsAreDests DEF SetsIInv, SetsTypeOK, TmpFills, NeverPartial
<1>1. ASSUME NEW L \in Lists, Setup(L) PROVE SetsIInv'
  BY <1>1 DEF Setup, GeoIdle
<1>2. ASSUME NEW L \in Lists, UpdateBegin(L) PROVE SetsIInv'
  BY <1>2 DEF UpdateBegin
<1>3. ASSUME NEW keep \in BOOLEAN, Stop(keep) PROVE SetsIInv'
  BY <1>3, GeoOffIs DEF Stop, ResolverOff
<1>4. ASSUME NEW s \in Geo, UpdateAdd(s) PROVE SetsIInv'
  <2>1. CASE tmp' = tmp \cup {s} /\ geo' = [geo EXCEPT !.todo = @ \ {s}]
    BY <1>4, <2>1 DEF UpdateAdd
  <2>2. CASE tmp' = tmp /\ geo' = [geo EXCEPT !.todo = @ \ {s}, !.skip = @ \cup {s}]
    <3>1. /\ geo'.step = geo.step /\ geo'.new = geo.new
          /\ geo'.todo = geo.todo \ {s} /\ geo'.skip = geo.skip \cup {s}
      BY <2>2
    <3>2. TmpFills'
      BY <1>4, <2>2, <3>1 DEF UpdateAdd
    <3>3. SetsTypeOK' /\ NeverPartial'
      BY <1>4, <2>2 DEF UpdateAdd
    <3> QED
      BY <3>2, <3>3
  <2> QED
    BY <1>4, <2>1, <2>2 DEF UpdateAdd
<1>5. CASE UpdateSwap
  BY <1>5 DEF UpdateSwap
<1>6. CASE UpdateEnd
  BY <1>6 DEF UpdateEnd, GeoIdle
<1>7. ASSUME NEW r \in Subnets, ResolveRule(r) PROVE SetsIInv'
  BY <1>7 DEF ResolveRule, AddException
<1>8. ASSUME NEW r \in Subnets, ResolveFails(r) PROVE SetsIInv'
  BY <1>8 DEF ResolveFails
<1>9. CASE ResolvePass
  BY <1>9 DEF ResolvePass
<1>10. CASE UNCHANGED setsVars
  BY <1>10 DEF setsVars
<1> QED
  BY <1>1, <1>2, <1>3, <1>4, <1>5, <1>6, <1>7, <1>8, <1>9, <1>10 DEF SetsNext

(* The inductive invariant holds in every reachable state. *)
THEOREM SetsInvariance == SetsSpec => []SetsIInv
BY InitSetsIInv, StepSetsIInv, PTL DEF SetsSpec

(* The types of the sets and of the two goroutines' positions. *)
THEOREM SetsTypeCorrect == SetsSpec => []SetsTypeOK
<1>1. SetsIInv => SetsTypeOK
  BY DEF SetsIInv
<1> QED
  BY SetsInvariance, <1>1, PTL

(* UpdateDirectIPs never shows a half-built set: the swap is what makes    *)
(* the loop of single additions invisible, whatever the resolver adds in   *)
(* between and wherever the process is killed.                             *)
THEOREM SetsNeverPartial == SetsSpec => []NeverPartial
<1>1. SetsIInv => NeverPartial
  BY DEF SetsIInv
<1> QED
  BY SetsInvariance, <1>1, PTL
=============================================================================
