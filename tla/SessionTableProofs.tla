------------------------- MODULE SessionTableProofs -------------------------
(***************************************************************************)
(* Proofs about SessionTable for any number of sessions, tokens and        *)
(* addresses: its safety invariants, and that it implements AddressLease.  *)
(***************************************************************************)
EXTENDS SessionTable, TLAPS

(* The token index is consistent, spelled out with the address's type. *)
TokenHasAddress ==
    \A t \in Tokens : byToken[t] # None => ip[byToken[t]] \in Addrs

(* What AssignResponseFirst rests on: the response is written before the   *)
(* session is published, and published before the dispatcher can send.     *)
ResponsePhases ==
    /\ \A s \in Sessions :
          pc[s] \in {"publish", "serve", "pong"} => first[s] = "assign"
    /\ disp.phase = "send" => published[disp.cs]

(* The inductive invariant. *)
IInv ==
    /\ TypeOK
    /\ PoolMatchesTable
    /\ IndexesAgree
    /\ TokenHasAddress
    /\ HeldByRunning
    /\ HeldAreHosts
    /\ SupersededIsCut
    /\ ResponsePhases
    /\ AssignResponseFirst

---------------------------------------------------------------------------

(* The empty table and the empty pool satisfy the invariant. *)
LEMMA InitIInv == Init => IInv
  <1> SUFFICES ASSUME Init PROVE IInv
    OBVIOUS
  <1> USE ConstantsAssumption DEF Init, DispIdle
  <1>1. TypeOK
    BY DEF TypeOK, Registered
  <1>2. PoolMatchesTable /\ IndexesAgree /\ TokenHasAddress /\ HeldByRunning /\ HeldAreHosts
    BY DEF PoolMatchesTable, IndexesAgree, TokenHasAddress, HeldByRunning, HeldAreHosts
  <1>3. SupersededIsCut
    BY DEF SupersededIsCut, Superseded, Registered
  <1>4. ResponsePhases /\ AssignResponseFirst
    BY DEF ResponsePhases, AssignResponseFirst
  <1> QED
    BY <1>1, <1>2, <1>3, <1>4 DEF IInv

RegisterLabel(old) == IF old # None THEN "evict" ELSE "respond"

(* The effect of Register when the session it evicts is the one registered *)
(* under the address it hands out, and the token, if it is known, is the   *)
(* evicted session's: one entry changes hands, in each index.              *)
LEMMA RegisterEffect ==
    ASSUME IInv,
           NEW s \in Sessions, NEW t \in Tokens \cup {None}, NEW a \in Hosts,
           NEW old \in Sessions \cup {None},
           pc[s] = "auth",
           byIP[a] = old,
           t # None => byToken[t] \in {None, old},
           Register(s, t, a, old)
    PROVE  /\ byIP' = [byIP EXCEPT ![a] = s]
           /\ byToken' = [u \in Tokens |-> IF u = t THEN s
                                           ELSE IF byToken[u] = old THEN None ELSE byToken[u]]
           /\ ip' = [ip EXCEPT ![s] = a]
           /\ token' = [token EXCEPT ![s] = t]
           /\ evicted' = [evicted EXCEPT ![s] = old]
           /\ pc' = [pc EXCEPT ![s] = RegisterLabel(old)]
           /\ UNCHANGED <<published, link, first, disp>>
           /\ \A b \in Addrs : byIP[b] # s
           /\ \A u \in Tokens : byToken[u] # s
           /\ old # s
  <1> USE ConstantsAssumption
  <1>0. a \in Addrs /\ a # ServerIP /\ ~Reserved(a)
    BY DEF Hosts
  <1>1. old # None => ip[old] = a /\ pc[old] \in Registered
    BY <1>0 DEF IInv, IndexesAgree, HeldByRunning
  <1>2. byIP' = [byIP EXCEPT ![a] = s]
    <2>1. CASE old = None
      BY <2>1 DEF Register
    <2>2. CASE old # None
      <3>1. byIP \in [Addrs -> Sessions \cup {None}]
        BY DEF IInv, TypeOK
      <3>2. byIP' \in {[byIP EXCEPT ![a] = s], [[byIP EXCEPT ![a] = None] EXCEPT ![a] = s]}
        BY <2>2, <1>1 DEF Register
      <3> QED
        BY <3>1, <3>2
    <2> QED
      BY <2>1, <2>2
  <1>3. byToken' = [u \in Tokens |-> IF u = t THEN s
                                     ELSE IF byToken[u] = old THEN None ELSE byToken[u]]
    <2>0. byToken \in [Tokens -> Sessions \cup {None}]
      BY DEF IInv, TypeOK
    <2>1. CASE old = None
      BY <2>0, <2>1 DEF Register
    <2>2. CASE old # None /\ token[old] = None
      <3>1. \A u \in Tokens : byToken[u] # old
        BY <2>2 DEF IInv, IndexesAgree
      <3> QED
        BY <2>0, <2>2, <3>1 DEF Register
    <2>3. CASE old # None /\ token[old] # None
      <3>1. token[old] \in Tokens /\ byToken[token[old]] = old
        BY <2>3, <1>0 DEF IInv, IndexesAgree, TypeOK
      <3>2. \A u \in Tokens : byToken[u] = old => u = token[old]
        BY <2>3 DEF IInv, IndexesAgree
      <3> DEFINE rest == [byToken EXCEPT ![token[old]] = None]
      <3>3. byToken' = IF t # None THEN [rest EXCEPT ![t] = s] ELSE rest
        BY <2>3, <3>1 DEF Register
      <3>4. rest = [u \in Tokens |-> IF byToken[u] = old THEN None ELSE byToken[u]]
        BY <2>0, <3>1, <3>2
      <3> HIDE DEF rest
      <3>5. CASE t = None
        BY <2>0, <3>3, <3>4, <3>5
      <3>6. CASE t # None
        BY <2>0, <3>3, <3>4, <3>6
      <3> QED
        BY <3>5, <3>6
    <2> QED
      BY <2>1, <2>2, <2>3
  <1>4. /\ ip' = [ip EXCEPT ![s] = a]
        /\ token' = [token EXCEPT ![s] = t]
        /\ evicted' = [evicted EXCEPT ![s] = old]
        /\ pc' = [pc EXCEPT ![s] = RegisterLabel(old)]
        /\ UNCHANGED <<published, link, first, disp>>
    BY DEF Register, Goto, RegisterLabel
  <1>6. /\ \A b \in Addrs : byIP[b] # s
        /\ \A u \in Tokens : byToken[u] # s
        /\ old # s
    BY <1>0 DEF IInv, HeldByRunning, IndexesAgree, TokenHasAddress, Registered
  <1> QED
    BY <1>2, <1>3, <1>4, <1>6

(* Entering a session in the table keeps the invariant: the common tail of *)
(* assign, for an address that is free or held by the session it evicts.   *)
LEMMA RegisterIInv ==
    ASSUME IInv,
           NEW s \in Sessions, NEW t \in Tokens \cup {None}, NEW a \in Hosts,
           NEW old \in Sessions \cup {None},
           pc[s] = "auth",
           byIP[a] = old,
           t # None => byToken[t] \in {None, old},
           allocated' = allocated \cup {a},
           Register(s, t, a, old)
    PROVE  IInv'
  <1> USE ConstantsAssumption
  <1> DEFINE label == RegisterLabel(old)
  <1>0. a \in Addrs /\ a # ServerIP /\ ~Reserved(a)
    BY DEF Hosts
  <1>1. old # None => ip[old] = a /\ pc[old] \in Registered
    BY <1>0 DEF IInv, IndexesAgree, HeldByRunning
  <1>2. byIP' = [byIP EXCEPT ![a] = s]
    BY RegisterEffect
  <1>3. byToken' = [u \in Tokens |-> IF u = t THEN s
                                     ELSE IF byToken[u] = old THEN None ELSE byToken[u]]
    BY RegisterEffect
  <1>4. /\ ip' = [ip EXCEPT ![s] = a]
        /\ token' = [token EXCEPT ![s] = t]
        /\ evicted' = [evicted EXCEPT ![s] = old]
        /\ pc' = [pc EXCEPT ![s] = label]
        /\ UNCHANGED <<published, link, first, disp>>
    BY RegisterEffect
  <1>5. /\ label \in Registered
        /\ label = "evict" <=> old # None
        /\ label \in {"evict", "respond"}
    BY DEF RegisterLabel, Registered
  <1>6. /\ \A b \in Addrs : byIP[b] # s
        /\ \A u \in Tokens : byToken[u] # s
        /\ old # s
    BY RegisterEffect
  <1> HIDE DEF label
  <1>7. TypeOK'
    <2> USE <1>0, <1>2, <1>3, <1>4, <1>5 DEF IInv, TypeOK
    <2>1. /\ allocated' \subseteq Addrs
          /\ byIP' \in [Addrs -> Sessions \cup {None}]
          /\ ip' \in [Sessions -> Addrs \cup {None}]
          /\ token' \in [Sessions -> Tokens \cup {None}]
          /\ published' \in [Sessions -> BOOLEAN]
          /\ pc' \in [Sessions -> Registered \cup {"auth", "close", "done"}]
          /\ evicted' \in [Sessions -> Sessions \cup {None}]
      OBVIOUS
    <2>2. byToken' \in [Tokens -> Sessions \cup {None}]
      OBVIOUS
    <2>3. \A r \in Sessions :
            /\ pc'[r] = "auth" => ip'[r] = None
            /\ pc'[r] \in Registered => ip'[r] # None
            /\ evicted'[r] # None <=> pc'[r] = "evict"
      <3> TAKE r \in Sessions
      <3>1. a # None /\ label # "auth"
        BY DEF Addrs
      <3>2. CASE r = s
        BY <3>1, <3>2
      <3>3. CASE r # s
        BY <3>3
      <3> QED
        BY <3>2, <3>3
    <2> QED
      BY <2>1, <2>2, <2>3
  <1>8. PoolMatchesTable'
    BY <1>0, <1>2 DEF IInv, TypeOK, PoolMatchesTable
  <1>9. IndexesAgree' /\ TokenHasAddress'
    <2>1. ASSUME NEW b \in Addrs, byIP'[b] # None
          PROVE  /\ ip'[byIP'[b]] = b
                 /\ token'[byIP'[b]] # None => byToken'[token'[byIP'[b]]] = byIP'[b]
      <3>1. CASE b = a
        BY <3>1, <1>0, <1>2, <1>3, <1>4 DEF IInv, TypeOK
      <3>2. CASE b # a
        <4>1. byIP'[b] = byIP[b] /\ byIP[b] \in Sessions /\ byIP[b] # s /\ byIP[b] # old
          BY <3>2, <2>1, <1>0, <1>1, <1>2, <1>6 DEF IInv, TypeOK, IndexesAgree
        <4>2. /\ ip[byIP[b]] = b
              /\ token[byIP[b]] # None => byToken[token[byIP[b]]] = byIP[b]
          BY <4>1 DEF IInv, IndexesAgree
        <4>3. token[byIP[b]] # None => token[byIP[b]] # t
          BY <4>1, <4>2 DEF IInv, TypeOK
        <4>4. token[byIP[b]] \in Tokens \cup {None}
          BY <4>1 DEF IInv, TypeOK
        <4> QED
          BY <4>1, <4>2, <4>3, <4>4, <1>3, <1>4 DEF IInv, TypeOK
      <3> QED
        BY <3>1, <3>2
    <2>2. ASSUME NEW u \in Tokens, byToken'[u] # None
          PROVE  /\ token'[byToken'[u]] = u
                 /\ byIP'[ip'[byToken'[u]]] = byToken'[u]
                 /\ ip'[byToken'[u]] \in Addrs
      <3>1. CASE u = t
        BY <3>1, <1>0, <1>2, <1>3, <1>4 DEF IInv, TypeOK
      <3>2. CASE u # t
        <4>1. /\ byToken'[u] = byToken[u] /\ byToken[u] \in Sessions
              /\ byToken[u] # s /\ byToken[u] # old
          BY <3>2, <2>2, <1>3, <1>6 DEF IInv, TypeOK
        <4>2. /\ token[byToken[u]] = u
              /\ byIP[ip[byToken[u]]] = byToken[u]
              /\ ip[byToken[u]] \in Addrs
          BY <4>1 DEF IInv, IndexesAgree, TokenHasAddress
        <4> QED
          BY <4>1, <4>2, <1>2, <1>4 DEF IInv, TypeOK
      <3> QED
        BY <3>1, <3>2
    <2> QED
      BY <2>1, <2>2 DEF IndexesAgree, TokenHasAddress
  <1>10. HeldByRunning' /\ HeldAreHosts'
    BY <1>0, <1>2, <1>4, <1>5 DEF IInv, TypeOK, HeldByRunning, HeldAreHosts, Reserved
  <1>11. SupersededIsCut'
    <2> SUFFICES ASSUME NEW r \in Sessions, Superseded(r)'
                 PROVE  \/ link'[r] = "closed"
                        \/ \E h \in Sessions : pc'[h] = "evict" /\ evicted'[h] = r
      BY DEF SupersededIsCut
    <2>1. r # s
      BY <1>0, <1>2, <1>4 DEF Superseded, IInv, TypeOK
    <2>2. pc[r] \in Registered /\ ip'[r] = ip[r] /\ ip[r] \in Addrs
      BY <2>1, <1>4 DEF Superseded, IInv, TypeOK
    <2>3. CASE byIP[ip[r]] = r
      <3>1. ip[r] = a /\ old = r
        BY <2>2, <2>3, <1>2 DEF Superseded, IInv, TypeOK
      <3>2. pc'[s] = "evict" /\ evicted'[s] = r
        BY <3>1, <1>4, <1>5 DEF IInv, TypeOK
      <3> QED
        BY <3>2
    <2>4. CASE byIP[ip[r]] # r
      <3>1. link[r] = "closed" \/ \E h \in Sessions : pc[h] = "evict" /\ evicted[h] = r
        BY <2>2, <2>4 DEF IInv, SupersededIsCut, Superseded
      <3> QED
        BY <3>1, <1>4 DEF IInv, TypeOK
    <2> QED
      BY <2>3, <2>4
  <1>12. ResponsePhases' /\ AssignResponseFirst'
    BY <1>4, <1>5 DEF IInv, TypeOK, ResponsePhases, AssignResponseFirst
  <1> QED
    BY <1>7, <1>8, <1>9, <1>10, <1>11, <1>12 DEF IInv

(* Whichever way assign finds an address, it is a host address, and what   *)
(* Register needs holds of it.                                             *)
LEMMA AssignRegisters ==
    ASSUME IInv, NEW s \in Sessions, NEW t \in Tokens \cup {None},
           NEW pref,
           \/ t \in Tokens /\ AssignSticky(s, t)
           \/ AssignFresh(s, t, pref)
           \/ AssignReclaim(s, t, pref)
    PROVE  \E a \in Hosts, old \in Sessions \cup {None} :
              /\ pc[s] = "auth"
              /\ byIP[a] = old
              /\ t # None => byToken[t] \in {None, old}
              /\ allocated' = allocated \cup {a}
              /\ Register(s, t, a, old)
              /\ t # None /\ byToken[t] # None => a = ip[byToken[t]]
  <1> USE ConstantsAssumption
  <1>1. CASE t \in Tokens /\ AssignSticky(s, t)
    <2> DEFINE old == byToken[t]
               a == ip[old]
    <2>1. old \in Sessions /\ a \in Addrs /\ byIP[a] = old
      BY <1>1 DEF AssignSticky, TokenKnown, IInv, TypeOK, IndexesAgree, TokenHasAddress
    <2>2. a \in Hosts /\ a \in allocated
      BY <2>1 DEF IInv, HeldAreHosts, PoolMatchesTable, Hosts
    <2>3. pc[s] = "auth" /\ Register(s, t, a, old) /\ allocated' = allocated \cup {a}
      BY <1>1, <2>2 DEF AssignSticky
    <2> QED
      BY <2>1, <2>2, <2>3
  <1>2. CASE AssignFresh(s, t, pref)
    <2>1. PICK a \in Addrs : /\ Allocate(pref, a)
                             /\ allocated' = allocated \cup {a}
                             /\ Register(s, t, a, None)
      BY <1>2 DEF AssignFresh
    <2>2. a \in Hosts /\ a \notin allocated
      BY <2>1 DEF Allocate, IsNextFree, Scan, Hosts, Reserved, Addrs
    <2>3. byIP[a] = None
      BY <2>1, <2>2 DEF IInv, PoolMatchesTable
    <2>4. pc[s] = "auth" /\ (t # None => byToken[t] = None)
      BY <1>2 DEF AssignFresh, TokenKnown
    <2> QED
      BY <2>1, <2>2, <2>3, <2>4
  <1>3. CASE AssignReclaim(s, t, pref)
    <2> DEFINE old == byIP[pref]
               a == ip[old]
    <2>1. old \in Sessions /\ pref \in Addrs /\ a = pref
      BY <1>3 DEF AssignReclaim, IInv, TypeOK, IndexesAgree
    <2>2. a \in Hosts /\ a \in allocated
      BY <2>1 DEF IInv, HeldAreHosts, PoolMatchesTable, Hosts
    <2>3. pc[s] = "auth" /\ Register(s, t, a, old) /\ allocated' = allocated \cup {a}
      BY <1>3, <2>2 DEF AssignReclaim
    <2>4. t # None => byToken[t] = None
      BY <1>3 DEF AssignReclaim, TokenKnown
    <2> QED
      BY <2>1, <2>2, <2>3, <2>4
  <1> QED
    BY <1>1, <1>2, <1>3

(* Every successful assign keeps the invariant. *)
LEMMA AssignIInv ==
    ASSUME IInv, NEW s \in Sessions, NEW t \in Tokens \cup {None},
           NEW pref,
           \/ t \in Tokens /\ AssignSticky(s, t)
           \/ AssignFresh(s, t, pref)
           \/ AssignReclaim(s, t, pref)
    PROVE  IInv'
  BY AssignRegisters, RegisterIInv

(* remove: the entries go if they are still this session's, and no other   *)
(* session's entry is touched.                                             *)
LEMMA RemoveIInv ==
    ASSUME IInv, NEW s \in Sessions, Remove(s)
    PROVE  IInv'
  <1> USE ConstantsAssumption
  <1> DEFINE a == ip[s]
  <1>1. pc[s] = "exit" /\ a \in Addrs /\ token[s] \in Tokens \cup {None}
    BY DEF Remove, IInv, TypeOK, Registered
  <1>2. byIP' = [b \in Addrs |-> IF byIP[b] = s THEN None ELSE byIP[b]]
    <2>1. byIP \in [Addrs -> Sessions \cup {None}]
      BY DEF IInv, TypeOK
    <2>2. \A b \in Addrs : byIP[b] = s => b = a
      BY DEF IInv, IndexesAgree
    <2>3. CASE byIP[a] = s
      BY <1>1, <2>1, <2>2, <2>3 DEF Remove
    <2>4. CASE byIP[a] # s
      BY <1>1, <2>1, <2>2, <2>4 DEF Remove
    <2> QED
      BY <2>3, <2>4
  <1>3. byToken' = [u \in Tokens |-> IF byToken[u] = s THEN None ELSE byToken[u]]
    <2>1. byToken \in [Tokens -> Sessions \cup {None}]
      BY DEF IInv, TypeOK
    <2>2. \A u \in Tokens : byToken[u] = s => u = token[s]
      BY DEF IInv, IndexesAgree
    <2>3. CASE token[s] # None /\ byToken[token[s]] = s
      BY <1>1, <2>1, <2>2, <2>3 DEF Remove
    <2>4. CASE ~(token[s] # None /\ byToken[token[s]] = s)
      BY <1>1, <2>1, <2>2, <2>4 DEF Remove
    <2> QED
      BY <2>3, <2>4
  <1>4. allocated' = {b \in Addrs : byIP'[b] # None}
    <2>1. allocated = {b \in Addrs : byIP[b] # None}
      BY DEF IInv, PoolMatchesTable
    <2>2. \A b \in Addrs : byIP[b] = s => b = a
      BY DEF IInv, IndexesAgree
    <2>3. CASE byIP[a] = s
      BY <1>1, <1>2, <2>1, <2>2, <2>3 DEF Remove
    <2>4. CASE byIP[a] # s
      BY <1>1, <1>2, <2>1, <2>2, <2>4 DEF Remove
    <2> QED
      BY <2>3, <2>4
  <1>5. /\ pc' = [pc EXCEPT ![s] = "close"]
        /\ UNCHANGED <<ip, token, published, evicted, link, first, disp>>
    BY DEF Remove, Goto
  <1>6. TypeOK'
    BY <1>1, <1>2, <1>3, <1>4, <1>5 DEF IInv, TypeOK, Registered
  <1>7. PoolMatchesTable'
    BY <1>4 DEF PoolMatchesTable
  <1>8. IndexesAgree' /\ TokenHasAddress'
    <2>1. ASSUME NEW b \in Addrs, byIP'[b] # None
          PROVE  /\ ip'[byIP'[b]] = b
                 /\ token'[byIP'[b]] # None => byToken'[token'[byIP'[b]]] = byIP'[b]
      <3>1. byIP'[b] = byIP[b] /\ byIP[b] # s /\ byIP[b] \in Sessions
        BY <1>2, <2>1 DEF IInv, TypeOK
      <3>2. token[byIP[b]] \in Tokens \cup {None}
        BY <3>1 DEF IInv, TypeOK
      <3> QED
        BY <2>1, <3>1, <3>2, <1>3, <1>5 DEF IInv, IndexesAgree
    <2>2. ASSUME NEW u \in Tokens, byToken'[u] # None
          PROVE  /\ token'[byToken'[u]] = u
                 /\ byIP'[ip'[byToken'[u]]] = byToken'[u]
                 /\ ip'[byToken'[u]] \in Addrs
      <3>1. byToken'[u] = byToken[u] /\ byToken[u] # s /\ byToken[u] \in Sessions
        BY <1>3, <2>2 DEF IInv, TypeOK
      <3> QED
        BY <2>2, <3>1, <1>2, <1>5 DEF IInv, IndexesAgree, TokenHasAddress
    <2> QED
      BY <2>1, <2>2 DEF IndexesAgree, TokenHasAddress
  <1>9. HeldByRunning' /\ HeldAreHosts'
    BY <1>2, <1>5 DEF IInv, TypeOK, HeldByRunning, HeldAreHosts, Reserved
  <1>10. SupersededIsCut'
    <2> SUFFICES ASSUME NEW r \in Sessions, Superseded(r)'
                 PROVE  \/ link'[r] = "closed"
                        \/ \E h \in Sessions : pc'[h] = "evict" /\ evicted'[h] = r
      BY DEF SupersededIsCut
    <2>1. r # s
      BY <1>5 DEF Superseded, IInv, TypeOK, Registered
    <2>2. pc[r] \in Registered /\ ip'[r] = ip[r] /\ ip[r] \in Addrs
      BY <2>1, <1>5 DEF Superseded, IInv, TypeOK
    <2>3. byIP[ip[r]] # r
      BY <2>1, <2>2, <1>2 DEF Superseded
    <2>4. link[r] = "closed" \/ \E h \in Sessions : pc[h] = "evict" /\ evicted[h] = r
      BY <2>2, <2>3 DEF IInv, SupersededIsCut, Superseded
    <2> QED
      BY <2>4, <1>1, <1>5 DEF IInv, TypeOK
  <1>11. ResponsePhases' /\ AssignResponseFirst'
    BY <1>5 DEF IInv, TypeOK, ResponsePhases, AssignResponseFirst
  <1> QED
    BY <1>6, <1>7, <1>8, <1>9, <1>10, <1>11 DEF IInv

(* A step that leaves the table alone and keeps registered goroutines      *)
(* registered, closed streams closed and pending evictions pending         *)
(* disturbs only the types and the order of the frames.                    *)
LEMMA TableUntouched ==
    ASSUME IInv,
           UNCHANGED tableVars,
           \A s \in Sessions :
              /\ pc[s] \in Registered <=> pc'[s] \in Registered
              /\ link[s] = "closed" => link'[s] = "closed"
              /\ pc[s] = "evict" =>
                    \/ pc'[s] = "evict" /\ evicted'[s] = evicted[s]
                    \/ link'[evicted[s]] = "closed"
    PROVE  /\ PoolMatchesTable' /\ IndexesAgree' /\ TokenHasAddress'
           /\ HeldByRunning' /\ HeldAreHosts' /\ SupersededIsCut'
  <1> USE ConstantsAssumption
  <1>1. PoolMatchesTable' /\ IndexesAgree' /\ TokenHasAddress' /\ HeldAreHosts'
    BY DEF IInv, tableVars, PoolMatchesTable, IndexesAgree, TokenHasAddress,
           HeldAreHosts, Reserved
  <1>2. HeldByRunning'
    BY DEF IInv, TypeOK, tableVars, HeldByRunning
  <1>3. SupersededIsCut'
    <2> SUFFICES ASSUME NEW r \in Sessions, Superseded(r)'
                 PROVE  \/ link'[r] = "closed"
                        \/ \E h \in Sessions : pc'[h] = "evict" /\ evicted'[h] = r
      BY DEF SupersededIsCut
    <2>1. Superseded(r)
      BY DEF Superseded, tableVars
    <2>2. link[r] = "closed" \/ \E h \in Sessions : pc[h] = "evict" /\ evicted[h] = r
      BY <2>1 DEF IInv, SupersededIsCut
    <2> QED
      BY <2>2
  <1> QED
    BY <1>1, <1>2, <1>3

(* Every step of a handleClient goroutine keeps the invariant. *)
LEMMA HandlerIInv ==
    ASSUME IInv, NEW s \in Sessions, Handler(s)
    PROVE  IInv'
  <1> USE ConstantsAssumption
  <1>1. ASSUME /\ pc[s] = "auth" /\ pc' = [pc EXCEPT ![s] = "close"]
               /\ UNCHANGED <<allocated, byIP, byToken, ip, token, published, evicted,
                              link, first, disp>>
        PROVE  IInv'
    <2>1. TypeOK'
      BY <1>1 DEF IInv, TypeOK, Registered
    <2>2. /\ PoolMatchesTable' /\ IndexesAgree' /\ TokenHasAddress'
          /\ HeldByRunning' /\ HeldAreHosts' /\ SupersededIsCut'
      BY <1>1, TableUntouched DEF IInv, TypeOK, tableVars, Registered
    <2>3. ResponsePhases' /\ AssignResponseFirst'
      BY <1>1 DEF IInv, TypeOK, ResponsePhases, AssignResponseFirst
    <2> QED
      BY <2>1, <2>2, <2>3 DEF IInv
  <1>2. CASE NoAssignRequest(s)
    BY <1>1, <1>2 DEF NoAssignRequest, Goto, tableVars
  <1>3. CASE CloseEvicted(s)
    <2>1. TypeOK'
      BY <1>3 DEF CloseEvicted, Goto, tableVars, IInv, TypeOK, Registered
    <2>2. /\ PoolMatchesTable' /\ IndexesAgree' /\ TokenHasAddress'
          /\ HeldByRunning' /\ HeldAreHosts' /\ SupersededIsCut'
      <3>1. UNCHANGED tableVars
        BY <1>3 DEF CloseEvicted, tableVars
      <3>2. ASSUME NEW r \in Sessions
            PROVE  /\ pc[r] \in Registered <=> pc'[r] \in Registered
                   /\ link[r] = "closed" => link'[r] = "closed"
                   /\ pc[r] = "evict" =>
                         \/ pc'[r] = "evict" /\ evicted'[r] = evicted[r]
                         \/ link'[evicted[r]] = "closed"
        BY <1>3 DEF CloseEvicted, Goto, IInv, TypeOK, Registered
      <3> QED
        BY <3>1, <3>2, TableUntouched
    <2>3. ResponsePhases' /\ AssignResponseFirst'
      BY <1>3 DEF CloseEvicted, Goto, IInv, TypeOK, ResponsePhases, AssignResponseFirst
    <2> QED
      BY <2>1, <2>2, <2>3 DEF IInv
  <1>4. CASE Respond(s) \/ RespondFails(s) \/ Publish(s) \/ Receive(s) \/ Pong(s) \/ ReadFails(s)
    <2>0. /\ pc[s] \in {"respond", "publish", "serve", "pong"}
          /\ UNCHANGED <<allocated, byIP, byToken, ip, token, evicted, link, disp>>
          /\ \E next \in {"publish", "serve", "pong", "exit"} : pc' = [pc EXCEPT ![s] = next]
      BY <1>4 DEF Respond, RespondFails, Publish, Receive, Pong, ReadFails, Goto, tableVars
    <2>1. TypeOK'
      <3>1. /\ published' \in [Sessions -> BOOLEAN]
            /\ first' \in [Sessions -> {"none", "assign", "data", "pong"}]
        <4>1. \A kind \in {"assign", "pong"} :
                Written(s, kind) \in [Sessions -> {"none", "assign", "data", "pong"}]
          BY DEF Written, IInv, TypeOK
        <4>2. first' \in {first, Written(s, "assign"), Written(s, "pong")}
          BY <1>4 DEF Respond, RespondFails, Publish, Receive, Pong, ReadFails
        <4>3. published' \in {published, [published EXCEPT ![s] = TRUE]}
          BY <1>4 DEF Respond, RespondFails, Publish, Receive, Pong, ReadFails
        <4>4. /\ published \in [Sessions -> BOOLEAN]
              /\ first \in [Sessions -> {"none", "assign", "data", "pong"}]
          BY DEF IInv, TypeOK
        <4> QED
          BY <4>1, <4>2, <4>3, <4>4
      <3>2. PICK next \in {"publish", "serve", "pong", "exit"} :
                pc' = [pc EXCEPT ![s] = next]
        BY <2>0
      <3>3. /\ pc' \in [Sessions -> Registered \cup {"auth", "close", "done"}]
            /\ \A r \in Sessions :
                  /\ pc'[r] = "auth" => pc[r] = "auth"
                  /\ pc'[r] \in Registered => pc[r] \in Registered
                  /\ pc'[r] = "evict" <=> pc[r] = "evict"
        BY <2>0, <3>2 DEF IInv, TypeOK, Registered
      <3> QED
        BY <2>0, <3>1, <3>3 DEF IInv, TypeOK
    <2>2. /\ PoolMatchesTable' /\ IndexesAgree' /\ TokenHasAddress'
          /\ HeldByRunning' /\ HeldAreHosts' /\ SupersededIsCut'
      BY <2>0, TableUntouched DEF IInv, TypeOK, tableVars, Registered
    <2>3. ResponsePhases' /\ AssignResponseFirst'
      BY <1>4 DEF Respond, RespondFails, Publish, Receive, Pong, ReadFails, Goto,
                  Written, IInv, TypeOK, ResponsePhases, AssignResponseFirst
    <2> QED
      BY <2>1, <2>2, <2>3 DEF IInv
  <1>5. CASE CloseConn(s)
    <2>1. TypeOK'
      BY <1>5 DEF CloseConn, Goto, tableVars, IInv, TypeOK, Registered
    <2>2. /\ PoolMatchesTable' /\ IndexesAgree' /\ TokenHasAddress'
          /\ HeldByRunning' /\ HeldAreHosts' /\ SupersededIsCut'
      BY <1>5, TableUntouched DEF CloseConn, Goto, IInv, TypeOK, tableVars, Registered
    <2>3. ResponsePhases' /\ AssignResponseFirst'
      BY <1>5 DEF CloseConn, Goto, IInv, TypeOK, ResponsePhases, AssignResponseFirst
    <2> QED
      BY <2>1, <2>2, <2>3 DEF IInv
  <1>6. CASE Remove(s)
    BY <1>6, RemoveIInv
  <1>7. ASSUME NEW t \in Tokens, AssignSticky(s, t)
        PROVE  IInv'
    BY <1>7, AssignIInv
  <1>8. ASSUME NEW t \in Tokens \cup {None}, NEW pref \in Preferred,
               \/ AssignFresh(s, t, pref)
               \/ AssignReclaim(s, t, pref)
               \/ AssignReject(s, t, pref)
        PROVE  IInv'
    <2>1. CASE AssignReject(s, t, pref)
      BY <1>1, <2>1 DEF AssignReject, Goto
    <2>2. CASE AssignFresh(s, t, pref) \/ AssignReclaim(s, t, pref)
      BY <2>2, AssignIInv
    <2> QED
      BY <1>8, <2>1, <2>2
  <1> QED
    BY <1>2, <1>3, <1>4, <1>5, <1>6, <1>7, <1>8 DEF Handler

(* A peer that stalls, resumes or disappears, and smux that notices the    *)
(* last, keep the invariant.                                               *)
LEMMA NetworkIInv ==
    ASSUME IInv, NEW s \in Sessions, Network(s)
    PROVE  IInv'
  <1> USE ConstantsAssumption
  <1>1. /\ UNCHANGED <<tableVars, published, pc, evicted, first, disp>>
        /\ link[s] \in {"up", "full", "gone"}
        /\ \E l \in {"up", "full", "gone", "closed"} : link' = [link EXCEPT ![s] = l]
    BY DEF Network, Stall, Resume, PeerGone, MuxDown
  <1>2. TypeOK'
    BY <1>1 DEF IInv, TypeOK, tableVars
  <1>3. /\ PoolMatchesTable' /\ IndexesAgree' /\ TokenHasAddress'
        /\ HeldByRunning' /\ HeldAreHosts' /\ SupersededIsCut'
    BY <1>1, TableUntouched DEF IInv, TypeOK
  <1>4. ResponsePhases' /\ AssignResponseFirst'
    BY <1>1 DEF IInv, ResponsePhases, AssignResponseFirst
  <1> QED
    BY <1>2, <1>3, <1>4 DEF IInv

(* The lookup, the cipher check and the send keep the invariant. *)
LEMMA DispatcherIInv ==
    ASSUME IInv, Dispatcher
    PROVE  IInv'
  <1> USE ConstantsAssumption
  <1>1. UNCHANGED <<tableVars, published, pc, evicted, link>>
    BY DEF Dispatcher, DispLookup, DispCipher, DispSend
  <1>2. TypeOK' /\ ResponsePhases' /\ AssignResponseFirst'
    <2>1. ASSUME NEW dst \in Addrs, DispLookup(dst)
          PROVE  TypeOK' /\ ResponsePhases' /\ AssignResponseFirst'
      BY <2>1, <1>1 DEF DispLookup, IInv, TypeOK, tableVars, ResponsePhases, AssignResponseFirst
    <2>2. CASE DispCipher
      BY <2>2, <1>1 DEF DispCipher, DispIdle, IInv, TypeOK, tableVars, ResponsePhases,
                        AssignResponseFirst
    <2>3. CASE DispSend
      <3>1. first' = first
        BY <2>3 DEF DispSend, Written, IInv, TypeOK, ResponsePhases, AssignResponseFirst
      <3> QED
        BY <2>3, <3>1, <1>1 DEF DispSend, DispIdle, IInv, TypeOK, tableVars, ResponsePhases,
                                AssignResponseFirst
    <2> QED
      BY <2>1, <2>2, <2>3 DEF Dispatcher
  <1>3. /\ PoolMatchesTable' /\ IndexesAgree' /\ TokenHasAddress'
        /\ HeldByRunning' /\ HeldAreHosts' /\ SupersededIsCut'
    BY <1>1, TableUntouched
  <1> QED
    BY <1>2, <1>3 DEF IInv

(* The invariant is inductive. *)
THEOREM Invariance == Spec => []IInv
  <1>1. IInv /\ [Next]_vars => IInv'
    <2> SUFFICES ASSUME IInv, [Next]_vars PROVE IInv'
      OBVIOUS
    <2>1. CASE UNCHANGED vars
      BY <2>1 DEF vars, IInv, TypeOK, PoolMatchesTable, IndexesAgree, TokenHasAddress,
                  HeldByRunning, HeldAreHosts, Reserved, SupersededIsCut, Superseded,
                  ResponsePhases, AssignResponseFirst
    <2>2. CASE Next
      BY <2>2, HandlerIInv, NetworkIInv, DispatcherIInv DEF Next
    <2> QED
      BY <2>1, <2>2
  <1> QED
    BY <1>1, InitIInv, PTL DEF Spec

(* Every variable keeps its type; a goroutine has a session from assign on *)
(* and one to evict until it has closed it.                                *)
THEOREM TypeCorrect == Spec => []TypeOK
  BY Invariance, PTL DEF IInv

(* No address leaks from the pool or is handed out twice. *)
THEOREM PoolSafe == Spec => []PoolMatchesTable
  BY Invariance, PTL DEF IInv

(* The two indexes never disagree. *)
THEOREM IndexesSafe == Spec => []IndexesAgree
  BY Invariance, PTL DEF IInv

(* No early return of handleClient leaves a session registered. *)
THEOREM NoOrphanEntry == Spec => []HeldByRunning
  BY Invariance, PTL DEF IInv

(* The server's, the network and the broadcast address are never assigned. *)
THEOREM OnlyHostsAssigned == Spec => []HeldAreHosts
  BY Invariance, PTL DEF IInv

(* Two sessions with one address never both stay connected. *)
THEOREM SupersededSafe == Spec => []SupersededIsCut
  BY Invariance, PTL DEF IInv

(* Nothing overtakes the assign response on a client's stream. *)
THEOREM ResponseFirst == Spec => []AssignResponseFirst
  BY Invariance, PTL DEF IInv

---------------------------------------------------------------------------
(* A step is an assign, a remove, or leaves the table alone and ends at    *)
(* most a goroutine that never had a session.                              *)
LEMMA OtherSteps ==
    ASSUME IInv, [Next]_vars
    PROVE  \/ /\ UNCHANGED tableVars
              /\ \/ \A s \in Sessions : Life(s)' = Life(s)
                 \/ \E s \in Sessions : pc[s] = "auth" /\ pc' = [pc EXCEPT ![s] = "close"]
           \/ \E s \in Sessions : Remove(s)
           \/ \E s \in Sessions, t \in Tokens \cup {None}, pref \in Preferred \cup {None} :
                 \/ t \in Tokens /\ AssignSticky(s, t)
                 \/ AssignFresh(s, t, pref)
                 \/ AssignReclaim(s, t, pref)
  <1>1. CASE UNCHANGED vars
    BY <1>1 DEF vars, tableVars, Life
  <1>2. CASE Dispatcher
    BY <1>2 DEF Dispatcher, DispLookup, DispCipher, DispSend, tableVars, Life
  <1>3. ASSUME NEW s \in Sessions, Network(s)
        PROVE  UNCHANGED <<tableVars, pc>>
    BY <1>3 DEF Network, Stall, Resume, PeerGone, MuxDown, tableVars
  <1>4. ASSUME NEW s \in Sessions,
               \/ CloseEvicted(s) \/ Respond(s) \/ RespondFails(s) \/ Publish(s)
               \/ Receive(s) \/ Pong(s) \/ ReadFails(s) \/ CloseConn(s)
        PROVE  /\ UNCHANGED tableVars
               /\ \A r \in Sessions : Life(r)' = Life(r)
    <2>1. UNCHANGED tableVars
      BY <1>4 DEF CloseEvicted, Respond, RespondFails, Publish, Receive, Pong, ReadFails,
                  CloseConn, tableVars
    <2>2. \/ /\ pc[s] \in Registered
             /\ \E next \in Registered : pc' = [pc EXCEPT ![s] = next]
          \/ pc[s] = "close" /\ pc' = [pc EXCEPT ![s] = "done"]
      BY <1>4 DEF CloseEvicted, Respond, RespondFails, Publish, Receive, Pong, ReadFails,
                  CloseConn, Goto, Registered
    <2>3. \A r \in Sessions : Life(r)' = Life(r)
      BY <2>2 DEF Life, Registered, IInv, TypeOK
    <2> QED
      BY <2>1, <2>3
  <1>5. ASSUME NEW s \in Sessions, NoAssignRequest(s)
        PROVE  UNCHANGED tableVars /\ pc[s] = "auth" /\ pc' = [pc EXCEPT ![s] = "close"]
    BY <1>5 DEF NoAssignRequest, Goto
  <1>6. ASSUME NEW s \in Sessions, NEW t, NEW pref, AssignReject(s, t, pref)
        PROVE  UNCHANGED tableVars /\ pc[s] = "auth" /\ pc' = [pc EXCEPT ![s] = "close"]
    BY <1>6 DEF AssignReject, Goto, tableVars
  <1>7. CASE \E s \in Sessions : Network(s)
    BY <1>3, <1>7 DEF Life
  <1>8. CASE \E s \in Sessions : Handler(s)
    <2>1. PICK s \in Sessions : Handler(s)
      BY <1>8
    <2>2. CASE \E t \in Tokens : AssignSticky(s, t)
      BY <2>2
    <2>3. CASE \E t \in Tokens \cup {None}, pref \in Preferred :
                  AssignFresh(s, t, pref) \/ AssignReclaim(s, t, pref)
      BY <2>3
    <2>4. CASE \E t \in Tokens \cup {None}, pref \in Preferred : AssignReject(s, t, pref)
      BY <2>4, <1>6
    <2>5. CASE NoAssignRequest(s)
      BY <2>5, <1>5
    <2>6. CASE Remove(s)
      BY <2>6
    <2>7. CASE \/ CloseEvicted(s) \/ Respond(s) \/ RespondFails(s) \/ Publish(s)
               \/ Receive(s) \/ Pong(s) \/ ReadFails(s) \/ CloseConn(s)
      BY <2>7, <1>4
    <2> QED
      BY <2>1, <2>2, <2>3, <2>4, <2>5, <2>6, <2>7 DEF Handler
  <1> QED
    BY <1>1, <1>2, <1>7, <1>8 DEF Next

(* A token keeps its address for as long as it stays in the table. *)
THEOREM Sticky == Spec => StickyAddress
  <1> USE ConstantsAssumption
  <1> DEFINE Keeps == \A t \in Tokens : byToken[t] # None /\ byToken'[t] # None =>
                          ip'[byToken'[t]] = ip[byToken[t]]
  <1>1. ASSUME IInv, [Next]_vars
        PROVE  Keeps
    <2>1. CASE UNCHANGED tableVars
      BY <2>1 DEF tableVars
    <2>2. ASSUME NEW s \in Sessions, Remove(s)
          PROVE  Keeps
      BY <1>1, <2>2 DEF Remove, IInv, TypeOK
    <2>3. ASSUME NEW s \in Sessions, NEW t \in Tokens \cup {None}, NEW pref,
                 \/ t \in Tokens /\ AssignSticky(s, t)
                 \/ AssignFresh(s, t, pref)
                 \/ AssignReclaim(s, t, pref)
          PROVE  Keeps
      <3>1. PICK a \in Hosts, old \in Sessions \cup {None} :
              /\ pc[s] = "auth"
              /\ byIP[a] = old
              /\ t # None => byToken[t] \in {None, old}
              /\ Register(s, t, a, old)
              /\ t # None /\ byToken[t] # None => a = ip[byToken[t]]
        BY <1>1, <2>3, AssignRegisters
      <3>2. /\ byToken' = [u \in Tokens |-> IF u = t THEN s
                              ELSE IF byToken[u] = old THEN None ELSE byToken[u]]
            /\ ip' = [ip EXCEPT ![s] = a]
            /\ \A u \in Tokens : byToken[u] # s
        BY <1>1, <3>1, RegisterEffect
      <3> QED
        BY <1>1, <3>1, <3>2 DEF IInv, TypeOK
    <2> QED
      BY <1>1, <2>1, <2>2, <2>3, OtherSteps
  <1> QED
    BY <1>1, Invariance, PTL DEF Spec, StickyAddress

---------------------------------------------------------------------------
(* The refinement *)

(* The empty table is the state in which no address is leased. *)
LEMMA InitLease == Init => Lease!Init
  BY DEF Init, Lease!Init, Life, Hosts

(* Every step of the table is a step of the leases or leaves them as they  *)
(* are: assign is a lease, remove a release, or an expiry if the address   *)
(* is lost.                                                                *)
LEMMA StepLease ==
    ASSUME IInv, [Next]_vars
    PROVE  [Lease!Next]_(Lease!vars)
  <1> USE ConstantsAssumption
  <1> DEFINE owner == [a \in Hosts |-> byIP[a]]
             life == [s \in Sessions |-> Life(s)]
  <1>0. /\ Hosts \subseteq Addrs
        /\ byIP \in [Addrs -> Sessions \cup {None}]
        /\ pc \in [Sessions -> Registered \cup {"auth", "close", "done"}]
    BY DEF Hosts, IInv, TypeOK
  <1>1. ASSUME NEW s \in Sessions, NEW t \in Tokens \cup {None}, NEW pref,
               \/ t \in Tokens /\ AssignSticky(s, t)
               \/ AssignFresh(s, t, pref)
               \/ AssignReclaim(s, t, pref)
        PROVE  \E a \in Hosts : Lease!Lease(s, a)
    <2>1. PICK a \in Hosts, old \in Sessions \cup {None} :
            /\ pc[s] = "auth"
            /\ byIP[a] = old
            /\ t # None => byToken[t] \in {None, old}
            /\ Register(s, t, a, old)
      BY <1>1, AssignRegisters
    <2>2. byIP' = [byIP EXCEPT ![a] = s] /\ pc' = [pc EXCEPT ![s] = RegisterLabel(old)]
      BY <2>1, RegisterEffect
    <2>3. owner' = [owner EXCEPT ![a] = s]
      BY <2>2, <1>0
    <2>4. life[s] = "new" /\ life' = [life EXCEPT ![s] = "active"]
      BY <2>1, <2>2, <1>0 DEF Life, RegisterLabel, Registered
    <2> QED
      BY <2>3, <2>4 DEF Lease!Lease
  <1>2. ASSUME NEW s \in Sessions, Remove(s)
        PROVE  (\E a \in Hosts : Lease!Release(s, a)) \/ Lease!Expire(s)
    <2>1. life[s] = "active" /\ life' = [life EXCEPT ![s] = "ended"]
      BY <1>2, <1>0 DEF Remove, Goto, Life, Registered
    <2>2. ip[s] \in Addrs
      BY <1>2 DEF Remove, IInv, TypeOK, Registered
    <2>3. CASE byIP[ip[s]] = s
      <3>1. ip[s] \in Hosts
        BY <2>2, <2>3 DEF IInv, HeldAreHosts, Hosts
      <3>2. owner' = [owner EXCEPT ![ip[s]] = None] /\ owner[ip[s]] = s
        BY <1>0, <1>2, <2>3, <3>1 DEF Remove
      <3> QED
        BY <2>1, <3>1, <3>2 DEF Lease!Release
    <2>4. CASE byIP[ip[s]] # s
      <3>1. owner' = owner
        BY <1>2, <2>4 DEF Remove
      <3>2. \A a \in Hosts : owner[a] # s
        BY <1>0, <2>4 DEF IInv, IndexesAgree
      <3> QED
        BY <2>1, <3>1, <3>2 DEF Lease!Expire
    <2> QED
      BY <2>3, <2>4
  <1>3. ASSUME NEW s \in Sessions, UNCHANGED tableVars,
               pc[s] = "auth", pc' = [pc EXCEPT ![s] = "close"]
        PROVE  Lease!Refuse(s)
    <2>1. owner' = owner
      BY <1>3 DEF tableVars
    <2>2. life[s] = "new" /\ life' = [life EXCEPT ![s] = "ended"]
      BY <1>0, <1>3 DEF Life, Registered
    <2> QED
      BY <2>1, <2>2 DEF Lease!Refuse
  <1>4. ASSUME UNCHANGED tableVars, \A s \in Sessions : Life(s)' = Life(s)
        PROVE  UNCHANGED Lease!vars
    BY <1>4 DEF tableVars, Lease!vars
  <1> QED
    BY <1>1, <1>2, <1>3, <1>4, OtherSteps DEF Lease!Next

(* The session table implements the leases, for every number of clients. *)
THEOREM Refinement == Spec => ImplementsLease
  <1>1. IInv /\ [Next]_vars => [Lease!Next]_(Lease!vars)
    BY StepLease
  <1> QED
    BY <1>1, InitLease, Invariance, PTL DEF Spec, ImplementsLease, Lease!Spec
=============================================================================
