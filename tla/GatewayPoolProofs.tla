------------------------- MODULE GatewayPoolProofs -------------------------
(***************************************************************************)
(* Proofs about GatewayPool, for any number of servers, any capacity of    *)
(* the event channel and every routing mode.                               *)
(***************************************************************************)
EXTENDS GatewayPool, FiniteSetTheorems, WellFoundedInduction, TLAPS

---------------------------------------------------------------------------
(* The inductive invariant *)

(* Until startup is over no other goroutine runs. *)
BeforeRun ==
    main # "run" =>
        /\ \A m \in Members : loop[m] = "none"
        /\ watch = Select
        /\ main \in {"connect", "provision"} => route = {}
        /\ main \in {"setup", "apply"} => \A m \in Members : healthy[m] => iface[m]

(* From then on a member's goroutine says what is known of the member. *)
Running ==
    main = "run" => \A m \in Members :
        /\ loop[m] # "none"
        /\ healthy[m] <=> loop[m] \in {"session", "joined"}
        /\ ~iface[m] => loop[m] \in {"orphan", "provision"}

(* What the watcher has read of the pool is still so, unless there is a    *)
(* tick to come.                                                           *)
ReadIsFresh ==
    watch.phase = "scan" =>
        /\ main = "run"
        /\ watch.seen \subseteq 1..(watch.next - 1)
        /\ events = 0 /\ ~Untold =>
              \A m \in 1..(watch.next - 1) : m \in watch.seen <=> healthy[m]

IInv == TypeOK /\ BeforeRun /\ Running /\ RoutedIsUsable /\ ReadIsFresh /\ NoLostChange

---------------------------------------------------------------------------
(* The operators *)

(* A nonempty set of members has a first one. *)
LEMMA FirstIn ==
    ASSUME NEW S \in SUBSET Members, S # {}
    PROVE  First(S) \in S
<1>1. S \subseteq Nat
  BY PoolAssumption DEF Members
<1> DEFINE R == {ss \in Nat \X Nat : ss[1] < ss[2]}
<1>2. IsWellFoundedOn(R, Nat)
  <2>1. R = OpToRel(<, Nat)
    BY Zenon DEF OpToRel
  <2> QED
    BY <2>1, NatLessThanWellFounded, Zenon
<1>3. \A a, b \in Nat : a < b => <<a, b>> \in R
  OBVIOUS
<1> HIDE DEF R
<1>4. PICK x \in S : \A y \in S : ~(<<y, x>> \in R)
  BY <1>1, <1>2, WFMin
<1>5. ASSUME NEW y \in S PROVE x <= y
  <2>1. x \in Nat /\ y \in Nat
    BY <1>1
  <2>2. ~(y < x)
    BY <1>3, <1>4, <2>1
  <2> QED
    BY <2>1, <2>2
<1> QED
  BY <1>5 DEF First

(* A tick is there after notify, whether the channel was full or not. *)
LEMMA NotifyTicks ==
    ASSUME NEW n \in 0..EventsCap
    PROVE  Notify(n) \in 0..EventsCap /\ Notify(n) > 0
BY PoolAssumption DEF Notify

(* What Apply does to the route: the selector's choice is kept in type,    *)
(* the route stays within the devices it was given or had, pinned tables   *)
(* are never lost, and without an error the route follows the selection.   *)
LEMMA ApplyEffect ==
    ASSUME TypeOK, NEW act \in SUBSET Members, Apply(act)
    PROVE  /\ mode' = mode
           /\ primary' \in Members \cup {None}
           /\ route' \subseteq route \cup act
           /\ pinned' \in SUBSET Members
           /\ applyErr' \in BOOLEAN
           /\ (mode = "sticky" /\ route \subseteq pinned) => route' \subseteq pinned'
           /\ ~applyErr' /\ act # {} =>
                 IF mode = "standby" THEN primary' \in act /\ route' = {primary'} ELSE route' = act
<1> DEFINE sel == Selection(act, primary')
<1>1. primary' \in Members \cup {None} /\ (mode = "standby" /\ act # {} => primary' \in act)
  BY FirstIn, PoolAssumption DEF Apply, Primary, TypeOK
<1>2. mode = "standby" /\ act = {} => primary' = None
  BY PoolAssumption DEF Apply, Primary
<1>3. sel \subseteq act
  BY <1>1, <1>2 DEF Selection
<1>4. act # {} => sel = (IF mode = "standby" THEN {primary'} ELSE act)
  BY <1>1, PoolAssumption DEF Selection
<1>5. IF mode = "sticky" THEN RebuildSticky(sel) ELSE RebuildECMP(sel)
  BY DEF Apply
<1> HIDE DEF sel
<1>6. /\ route' \subseteq route \cup sel
      /\ pinned' \in SUBSET Members
      /\ applyErr' \in BOOLEAN
      /\ (mode = "sticky" /\ route \subseteq pinned) => route' \subseteq pinned'
      /\ ~applyErr' /\ sel # {} => route' = sel
  <2>1. CASE mode = "sticky"
    BY <1>3, <1>5, <2>1 DEF RebuildSticky, Skip, TypeOK
  <2>2. CASE mode # "sticky"
    BY <1>3, <1>5, <2>2 DEF RebuildECMP, Skip, TypeOK
  <2> QED
    BY <2>1, <2>2
<1>7. act # {} => sel # {}
  BY <1>4
<1>8. mode' = mode
  BY DEF Apply
<1> QED
  BY <1>1, <1>3, <1>4, <1>6, <1>7, <1>8

---------------------------------------------------------------------------
(* The invariant holds initially *)

(* Nothing is known, routed or read before startup. *)
LEMMA InitIInv == Init => IInv
<1> SUFFICES ASSUME Init PROVE IInv
  OBVIOUS
<1>1. TypeOK
  <2>1. watch \in [phase : {"select", "scan"}, next : 1..(N + 1), seen : SUBSET Members]
    BY PoolAssumption DEF Init, Select
  <2>2. /\ healthy \in [Members -> BOOLEAN]
        /\ iface \in [Members -> BOOLEAN]
        /\ live \in [Members -> BOOLEAN]
        /\ timer \in BOOLEAN /\ applyErr \in BOOLEAN
    BY DEF Init
  <2>3. events \in 0..EventsCap
    BY PoolAssumption DEF Init
  <2>4. loop \in [Members -> Labels]
    BY DEF Init, Labels
  <2> QED
    BY <2>1, <2>2, <2>3, <2>4 DEF Init, TypeOK
<1>2. BeforeRun /\ Running /\ ReadIsFresh /\ NoLostChange
  BY DEF Init, BeforeRun, Running, ReadIsFresh, NoLostChange, Quiet, Select
<1>3. RoutedIsUsable
  BY DEF Init, RoutedIsUsable
<1> QED
  BY <1>1, <1>2, <1>3 DEF IInv

---------------------------------------------------------------------------
(* Every step keeps the invariant *)

(* Startup: each stage leaves what the next one relies on, and the route   *)
(* InitialApply installs is the first that follows the members.            *)
LEMMA StartupIInv == IInv /\ Startup => IInv'
<1> SUFFICES ASSUME IInv, Startup PROVE IInv'
  OBVIOUS
<1> USE DEF IInv
<1>1. ASSUME NEW S \in SUBSET Members, ConnectAll(S) PROVE IInv'
  <2> USE <1>1 DEF ConnectAll, watchVars, routeVars
  <2>1. events' \in 0..EventsCap
    BY NotifyTicks DEF TypeOK
  <2>2. healthy' \in [Members -> BOOLEAN] /\ live' \in [Members -> BOOLEAN]
    OBVIOUS
  <2>3. TypeOK'
    BY <2>1, <2>2 DEF TypeOK
  <2>4. BeforeRun' /\ Running'
    BY DEF BeforeRun, Running
  <2>5. RoutedIsUsable'
    BY DEF RoutedIsUsable, Provisioned
  <2>6. ReadIsFresh' /\ NoLostChange'
    BY DEF ReadIsFresh, NoLostChange, Quiet
  <2> QED
    BY <2>3, <2>4, <2>5, <2>6
<1>2. ASSUME NEW P \in SUBSET Members, Provision(P) PROVE IInv'
  <2> USE <1>2 DEF Provision, watchVars, routeVars, netVars
  <2>1. events' \in 0..EventsCap
    <3>1. IsFiniteSet(Members)
      BY FS_Interval, PoolAssumption DEF Members
    <3>2. Cardinality(HealthySet \ P) \in Nat
      <4>1. HealthySet \ P \in SUBSET Members
        BY DEF HealthySet
      <4> QED
        BY <3>1, <4>1, FS_Subset, FS_CardinalityType
    <3> QED
      BY <3>2, PoolAssumption DEF NotifyTimes, TypeOK
  <2>2. healthy' \in [Members -> BOOLEAN] /\ iface' \in [Members -> BOOLEAN]
    OBVIOUS
  <2>3. TypeOK'
    BY <2>1, <2>2 DEF TypeOK
  <2>4. BeforeRun' /\ Running'
    BY DEF BeforeRun, Running
  <2>5. route = {}
    BY DEF BeforeRun
  <2>6. RoutedIsUsable'
    BY <2>5 DEF RoutedIsUsable
  <2>7. ReadIsFresh' /\ NoLostChange'
    BY DEF ReadIsFresh, NoLostChange, Quiet
  <2> QED
    BY <2>3, <2>4, <2>6, <2>7
<1>3. CASE Setup
  <2> USE <1>3 DEF Setup, watchVars, routeVars, netVars, poolVars
  <2>1. TypeOK'
    BY DEF TypeOK, Provisioned
  <2>2. BeforeRun' /\ Running'
    BY DEF BeforeRun, Running
  <2>3. RoutedIsUsable'
    BY DEF RoutedIsUsable, Provisioned
  <2>4. ReadIsFresh' /\ NoLostChange'
    BY DEF ReadIsFresh, NoLostChange, Quiet
  <2> QED
    BY <2>1, <2>2, <2>3, <2>4
<1>4. CASE InitialApply
  <2> USE <1>4 DEF InitialApply, watchVars, netVars, poolVars
  <2>1. Active \in SUBSET Members
    BY DEF Active, HealthySet
  <2>2. Apply(Active)
    OBVIOUS
  <2> DEFINE act == Active
  <2>3. /\ mode' = mode
        /\ primary' \in Members \cup {None}
        /\ route' \subseteq route \cup act
        /\ pinned' \in SUBSET Members
        /\ applyErr' \in BOOLEAN
        /\ (mode = "sticky" /\ route \subseteq pinned) => route' \subseteq pinned'
        /\ ~applyErr' /\ act # {} =>
              IF mode = "standby" THEN primary' \in act /\ route' = {primary'} ELSE route' = act
    BY <2>1, <2>2, ApplyEffect
  <2>4. Active' = act /\ act \subseteq Provisioned /\ Provisioned' = Provisioned
    BY DEF Active, HealthySet, Provisioned
  <2> HIDE DEF act
  <2>5. loop' \in [Members -> Labels]
    BY DEF Labels
  <2>6. TypeOK'
    BY <2>1, <2>3, <2>5 DEF TypeOK, act
  <2>7. BeforeRun' /\ Running'
    BY DEF BeforeRun, Running, TypeOK
  <2>8. RoutedIsUsable'
    BY <2>3, <2>4 DEF RoutedIsUsable
  <2>9. ReadIsFresh'
    BY DEF ReadIsFresh, BeforeRun, Select
  <2>10. NoLostChange'
    BY <2>3, <2>4 DEF NoLostChange, Follows
  <2> QED
    BY <2>6, <2>7, <2>8, <2>9, <2>10
<1> QED
  BY <1>1, <1>2, <1>3, <1>4 DEF Startup

(* The watcher: what it has read stays true until a tick says otherwise,   *)
(* so the route it installs is up to date or a tick is waiting.            *)
LEMMA WatcherIInv == IInv /\ Watcher => IInv'
<1> SUFFICES ASSUME IInv, Watcher PROVE IInv'
  OBVIOUS
<1> USE DEF IInv
<1>1. CASE WatchEvent
  <2> USE <1>1 DEF WatchEvent, routeVars, netVars, poolVars
  <2>1. events' \in 0..EventsCap
    BY PoolAssumption DEF TypeOK
  <2>2. TypeOK'
    BY <2>1 DEF TypeOK
  <2>3. BeforeRun' /\ Running'
    BY DEF BeforeRun, Running
  <2>4. RoutedIsUsable'
    BY DEF RoutedIsUsable, Provisioned
  <2>5. ReadIsFresh' /\ NoLostChange'
    BY DEF ReadIsFresh, NoLostChange, Quiet
  <2> QED
    BY <2>2, <2>3, <2>4, <2>5
<1>2. CASE WatchTimer
  <2> USE <1>2 DEF WatchTimer, routeVars, netVars, poolVars
  <2>1. watch' \in [phase : {"select", "scan"}, next : 1..(N + 1), seen : SUBSET Members]
    BY PoolAssumption
  <2>2. TypeOK'
    BY <2>1 DEF TypeOK
  <2>3. BeforeRun' /\ Running'
    BY DEF BeforeRun, Running
  <2>4. RoutedIsUsable'
    BY DEF RoutedIsUsable, Provisioned
  <2>5. ReadIsFresh' /\ NoLostChange'
    BY DEF ReadIsFresh, NoLostChange, Quiet
  <2> QED
    BY <2>2, <2>3, <2>4, <2>5
<1>3. CASE ScanMember
  <2> USE <1>3 DEF ScanMember, routeVars, netVars, poolVars
  <2>1. watch.next \in Members /\ watch.seen \in SUBSET Members
    BY PoolAssumption DEF TypeOK, Members
  <2>2. watch' = [phase |-> "scan", next |-> watch.next + 1,
                  seen |-> IF healthy[watch.next] THEN watch.seen \cup {watch.next} ELSE watch.seen]
    BY DEF TypeOK
  <2>3. watch' \in [phase : {"select", "scan"}, next : 1..(N + 1), seen : SUBSET Members]
    <3> DEFINE seen == IF healthy[watch.next] THEN watch.seen \cup {watch.next} ELSE watch.seen
    <3>1. watch.next + 1 \in 1..(N + 1)
      BY <2>1, PoolAssumption DEF Members
    <3>2. seen \in SUBSET Members
      BY <2>1
    <3> HIDE DEF seen
    <3>3. watch' = [phase |-> "scan", next |-> watch.next + 1, seen |-> seen]
      BY <2>2 DEF seen
    <3> QED
      BY <3>1, <3>2, <3>3
  <2>4. TypeOK'
    BY <2>3 DEF TypeOK
  <2>5. main = "run"
    BY DEF ReadIsFresh
  <2>6. BeforeRun' /\ Running'
    BY <2>5 DEF BeforeRun, Running
  <2>7. RoutedIsUsable'
    BY DEF RoutedIsUsable, Provisioned
  <2>8. ReadIsFresh'
    <3> DEFINE k == watch.next
    <3>1. k \in Nat /\ watch.seen \subseteq 1..(k - 1)
      BY <2>1, PoolAssumption DEF ReadIsFresh, Members
    <3>2. watch'.next - 1 = k /\ (watch'.seen = IF healthy[k] THEN watch.seen \cup {k} ELSE watch.seen)
      BY <2>2, <3>1
    <3>3. watch'.seen \subseteq 1..(watch'.next - 1)
      BY <3>1, <3>2, <2>1, PoolAssumption DEF Members
    <3>4. Untold' <=> Untold
      BY DEF Untold
    <3>5. ASSUME events = 0, ~Untold, NEW m \in 1..k
          PROVE  m \in watch'.seen <=> healthy[m]
      <4>1. CASE m = k
        BY <3>1, <3>2, <4>1
      <4>2. CASE m # k
        <5>1. m \in 1..(k - 1)
          BY <3>1, <4>2
        <5>2. m \in watch.seen <=> healthy[m]
          BY <3>5, <5>1 DEF ReadIsFresh
        <5> QED
          BY <3>2, <4>2, <5>2
      <4> QED
        BY <4>1, <4>2
    <3> HIDE DEF k
    <3> QED
      BY <2>5, <3>2, <3>3, <3>4, <3>5 DEF ReadIsFresh
  <2>9. NoLostChange'
    BY <2>2 DEF NoLostChange, Quiet
  <2> QED
    BY <2>4, <2>6, <2>7, <2>8, <2>9
<1>4. CASE WatchApply
  <2> USE <1>4 DEF WatchApply, netVars, poolVars
  <2> DEFINE act == watch.seen \cap Provisioned
  <2>1. act \in SUBSET Members
    BY DEF Provisioned
  <2>2. Apply(act)
    OBVIOUS
  <2> HIDE DEF act
  <2>3. /\ mode' = mode
        /\ primary' \in Members \cup {None}
        /\ route' \subseteq route \cup act
        /\ pinned' \in SUBSET Members
        /\ applyErr' \in BOOLEAN
        /\ (mode = "sticky" /\ route \subseteq pinned) => route' \subseteq pinned'
        /\ ~applyErr' /\ act # {} =>
              IF mode = "standby" THEN primary' \in act /\ route' = {primary'} ELSE route' = act
    BY <2>1, <2>2, ApplyEffect
  <2>4. watch' \in [phase : {"select", "scan"}, next : 1..(N + 1), seen : SUBSET Members]
    BY PoolAssumption DEF Select
  <2>5. TypeOK'
    BY <2>1, <2>3, <2>4 DEF TypeOK
  <2>6. BeforeRun' /\ Running'
    BY DEF BeforeRun, Running, ReadIsFresh
  <2>7. RoutedIsUsable'
    BY <2>3 DEF RoutedIsUsable, Provisioned, act
  <2>8. ReadIsFresh'
    BY DEF ReadIsFresh, Select
  <2>9. NoLostChange'
    <3>1. SUFFICES ASSUME Quiet', ~applyErr', Active' # {}
                   PROVE  Follows(Active)'
      BY DEF NoLostChange
    <3>2. events = 0 /\ ~Untold
      BY <3>1 DEF Quiet, Untold
    <3>3. watch.next - 1 = N
      BY PoolAssumption
    <3>4. \A m \in Members : m \in watch.seen <=> healthy[m]
      BY <3>2, <3>3 DEF ReadIsFresh, Members
    <3>5. Active' = act
      BY <3>4 DEF Active, HealthySet, Provisioned, act
    <3> QED
      BY <2>3, <3>1, <3>5 DEF Follows
  <2> QED
    BY <2>5, <2>6, <2>7, <2>8, <2>9
<1> QED
  BY <1>1, <1>2, <1>3, <1>4 DEF Watcher

(* The network decides nothing the gateway has recorded. *)
LEMMA NetworkIInv == ASSUME NEW m \in Members PROVE IInv /\ Network(m) => IInv'
<1> SUFFICES ASSUME IInv, Network(m) PROVE IInv'
  OBVIOUS
<1> USE DEF IInv, Network, Outage, Recover, poolVars, watchVars, routeVars
<1>1. TypeOK'
  BY DEF TypeOK
<1>2. BeforeRun' /\ Running'
  BY DEF BeforeRun, Running
<1>3. RoutedIsUsable'
  BY DEF RoutedIsUsable, Provisioned
<1>4. Untold' = Untold
  BY DEF Untold
<1>5. ReadIsFresh'
  BY <1>4 DEF ReadIsFresh
<1>6. NoLostChange'
  <2>1. Active' = Active
    BY DEF Active, HealthySet, Provisioned
  <2> QED
    BY <1>4, <2>1 DEF NoLostChange, Quiet, Follows
<1> QED
  BY <1>1, <1>2, <1>3, <1>5, <1>6

(* A step of a member's goroutine that leaves health and devices alone and *)
(* neither begins nor ends a change the pool has to be told of.            *)
LEMMA QuietStep ==
    ASSUME NEW m \in Members, IInv, NEW label \in Labels,
           main = "run", loop' = [loop EXCEPT ![m] = label],
           UNCHANGED <<main, poolVars, events, watchVars, routeVars>>,
           up' \in [Members -> BOOLEAN], live' \in [Members -> BOOLEAN],
           loop[m] \notin {"evicted", "joined", "session"},
           label \notin {"evicted", "joined", "session", "none"},
           label \in {"orphan", "provision"} \/ iface[m]
    PROVE  IInv'
<1> USE DEF IInv, poolVars, watchVars, routeVars
<1>1. TypeOK'
  BY DEF TypeOK
<1>2. BeforeRun' /\ Running'
  BY DEF BeforeRun, Running, TypeOK
<1>3. RoutedIsUsable'
  BY DEF RoutedIsUsable, Provisioned
<1>4. Untold' <=> Untold
  BY DEF Untold, TypeOK
<1>5. ReadIsFresh'
  BY <1>4 DEF ReadIsFresh
<1>6. NoLostChange'
  <2>1. Active' = Active
    BY DEF Active, HealthySet, Provisioned
  <2> QED
    BY <1>4, <2>1 DEF NoLostChange, Quiet, Follows
<1> QED
  BY <1>1, <1>2, <1>3, <1>5, <1>6

(* Telling the pool: a tick is there afterwards. *)
LEMMA TellIInv ==
    ASSUME NEW m \in Members, IInv, NotifyDown(m) \/ NotifyUp(m)
    PROVE  IInv'
<1> USE DEF IInv, NotifyDown, NotifyUp, Goto, poolVars, netVars, watchVars, routeVars
<1>1. events' \in 0..EventsCap /\ events' > 0
  BY NotifyTicks DEF TypeOK
<1>2. loop' \in [Members -> Labels]
  BY DEF TypeOK, Labels
<1>3. TypeOK'
  BY <1>1, <1>2 DEF TypeOK
<1>4. main = "run"
  BY DEF BeforeRun
<1>5. BeforeRun' /\ Running'
  BY <1>4 DEF BeforeRun, Running, TypeOK
<1>6. RoutedIsUsable'
  BY DEF RoutedIsUsable, Provisioned
<1>7. ReadIsFresh' /\ NoLostChange'
  BY <1>1 DEF ReadIsFresh, NoLostChange, Quiet
<1> QED
  BY <1>3, <1>5, <1>6, <1>7

(* Changing a member's health: the pool is still to be told. *)
LEMMA FlipIInv ==
    ASSUME NEW m \in Members, IInv, SessionLost(m) \/ Join(m)
    PROVE  IInv'
<1> USE DEF IInv, SessionLost, Join, Goto, poolVars, netVars, watchVars, routeVars
<1>1. main = "run"
  BY DEF BeforeRun
<1>2. loop'[m] \in {"evicted", "joined"} /\ loop' = [loop EXCEPT ![m] = loop'[m]]
  BY <1>1 DEF Running, TypeOK
<1>3. healthy' \in [Members -> BOOLEAN] /\ live' \in [Members -> BOOLEAN]
  BY DEF TypeOK
<1>4. TypeOK'
  BY <1>2, <1>3 DEF TypeOK, Labels
<1>5. BeforeRun' /\ Running'
  BY <1>1 DEF BeforeRun, Running, TypeOK
<1>6. RoutedIsUsable'
  BY DEF RoutedIsUsable, Provisioned
<1>7. Untold'
  BY <1>2 DEF Untold
<1>8. ReadIsFresh' /\ NoLostChange'
  BY <1>1, <1>7 DEF ReadIsFresh, NoLostChange, Quiet
<1> QED
  BY <1>4, <1>5, <1>6, <1>8

(* A device for an orphan: the member is not healthy yet, so the tunnels   *)
(* the route is chosen from stay the same.                                 *)
LEMMA OrphanIInv ==
    ASSUME NEW m \in Members, IInv, OrphanProvision(m)
    PROVE  IInv'
<1> USE DEF IInv, OrphanProvision, Goto, netVars, watchVars, routeVars
<1>1. main = "run" /\ ~healthy[m]
  BY DEF BeforeRun, Running
<1>2. iface' \in [Members -> BOOLEAN] /\ loop' \in [Members -> Labels]
  BY DEF TypeOK, Labels
<1>3. TypeOK'
  BY <1>2 DEF TypeOK
<1>4. BeforeRun' /\ Running'
  BY <1>1 DEF BeforeRun, Running, TypeOK
<1>5. Provisioned \subseteq Provisioned'
  BY DEF Provisioned, TypeOK
<1>6. RoutedIsUsable'
  BY <1>5 DEF RoutedIsUsable
<1>7. Untold' <=> Untold
  BY DEF Untold, TypeOK
<1>8. ReadIsFresh'
  BY <1>7 DEF ReadIsFresh
<1>9. NoLostChange'
  <2>1. Active' = Active
    BY <1>1 DEF Active, HealthySet, Provisioned, TypeOK
  <2> QED
    BY <1>7, <2>1 DEF NoLostChange, Quiet, Follows
<1> QED
  BY <1>3, <1>4, <1>6, <1>8, <1>9

(* All steps of a member's goroutine. *)
LEMMA MemberIInv == ASSUME NEW m \in Members PROVE IInv /\ MemberStep(m) => IInv'
<1> SUFFICES ASSUME IInv, MemberStep(m) PROVE IInv'
  OBVIOUS
<1>1. main = "run"
  BY DEF IInv, BeforeRun, MemberStep, SessionLost, NotifyDown, Reconnect, Reassign,
         ReassignFails, Join, NotifyUp, OrphanProvision, OrphanFails
<1>2. CASE Reconnect(m)
  <2> DEFINE label == IF loop[m] = "redial" THEN "assign" ELSE "provision"
  <2>1. label \in Labels /\ label \notin {"evicted", "joined", "session", "none"}
    BY DEF Labels
  <2>2. label \in {"orphan", "provision"} \/ iface[m]
    BY <1>1 DEF IInv, Running
  <2>3. loop' = [loop EXCEPT ![m] = label]
    BY <1>2 DEF Reconnect, Goto
  <2>4. live' \in [Members -> BOOLEAN] /\ up' \in [Members -> BOOLEAN]
    BY <1>2 DEF Reconnect, IInv, TypeOK
  <2> HIDE DEF label
  <2> QED
    BY <1>1, <1>2, <2>1, <2>2, <2>3, <2>4, QuietStep DEF Reconnect
<1>3. CASE Reassign(m) \/ ReassignFails(m)
  <2>1. PICK label \in {"hold", "dead"} : loop' = [loop EXCEPT ![m] = label]
    BY <1>3 DEF Reassign, ReassignFails, Goto
  <2>2. iface[m]
    BY <1>1, <1>3 DEF IInv, Running, Reassign, ReassignFails
  <2>3. live' \in [Members -> BOOLEAN] /\ up' \in [Members -> BOOLEAN]
    BY <1>3 DEF Reassign, ReassignFails, IInv, TypeOK, netVars
  <2>4. label \in Labels /\ label \notin {"evicted", "joined", "session", "none"}
    BY <2>1 DEF Labels
  <2> QED
    BY <1>1, <1>3, <2>1, <2>2, <2>3, <2>4, QuietStep DEF Reassign, ReassignFails
<1>4. CASE OrphanFails(m)
  <2>1. live' \in [Members -> BOOLEAN] /\ up' \in [Members -> BOOLEAN]
    BY <1>4 DEF OrphanFails, IInv, TypeOK, netVars
  <2>2. "orphan" \in Labels
    BY DEF Labels
  <2> QED
    BY <1>1, <1>4, <2>1, <2>2, QuietStep DEF OrphanFails, Goto
<1> QED
  BY <1>2, <1>3, <1>4, TellIInv, FlipIInv, OrphanIInv DEF MemberStep

---------------------------------------------------------------------------
(* The results *)

(* The inductive invariant holds in every reachable state. *)
THEOREM PoolInvariance == Spec => []IInv
<1>1. IInv /\ UNCHANGED vars => IInv'
  <2> SUFFICES ASSUME IInv, UNCHANGED vars PROVE IInv'
    OBVIOUS
  <2> USE DEF vars, IInv
  <2>1. TypeOK' /\ BeforeRun' /\ Running'
    BY DEF TypeOK, BeforeRun, Running
  <2>2. RoutedIsUsable' /\ Untold' = Untold /\ Active' = Active
    BY DEF RoutedIsUsable, Provisioned, Untold, Active, HealthySet
  <2>3. ReadIsFresh' /\ NoLostChange'
    BY <2>2 DEF ReadIsFresh, NoLostChange, Quiet, Follows
  <2> QED
    BY <2>1, <2>2, <2>3
<1>2. IInv /\ [Next]_vars => IInv'
  BY <1>1, StartupIInv, WatcherIInv, MemberIInv, NetworkIInv DEF Next
<1> QED
  BY InitIInv, <1>2, PTL DEF Spec

(* The variables keep their types. *)
THEOREM PoolTypeCorrect == Spec => []TypeOK
<1>1. IInv => TypeOK
  BY DEF IInv
<1> QED
  BY PoolInvariance, <1>1, PTL

(* No membership change is lost between the health flags and the route:    *)
(* with any number of members, a channel of any capacity, in every mode.   *)
THEOREM ChangesReachRoute == Spec => []NoLostChange
<1>1. IInv => NoLostChange
  BY DEF IInv
<1> QED
  BY PoolInvariance, <1>1, PTL

(* A healthy member has a device and a goroutine that serves it. *)
THEOREM HealthyServed == Spec => []HealthyIsServed
<1>1. IInv => HealthyIsServed
  BY DEF IInv, Running, HealthyIsServed
<1> QED
  BY PoolInvariance, <1>1, PTL

(* The route uses devices that exist and tables that lead there, whatever  *)
(* commands fail.                                                          *)
THEOREM RouteUsable == Spec => []RoutedIsUsable
<1>1. IInv => RoutedIsUsable
  BY DEF IInv
<1> QED
  BY PoolInvariance, <1>1, PTL

=============================================================================
