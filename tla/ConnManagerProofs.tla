------------------------- MODULE ConnManagerProofs -------------------------
(***************************************************************************)
(* Proofs about ConnManager, for any set of connections and any backoff.   *)
(***************************************************************************)
EXTENDS ConnManager, TLAPS

(* While an attempt is under way, the reconnecting goroutine holds the     *)
(* lock and the previous connection is closed; only the one it has dialled *)
(* since may be open.  Both have been dialled, so a dial gives another.    *)
AttemptOwnsConn ==
    /\ pc \in {"dial", "handshake", "install"} =>
          mu = "loop" /\ (current # None => state[current] # "open")
    /\ conn # None <=> pc \in {"handshake", "install"}
    /\ \A c \in {current, conn} \ {None} : state[c] # "new"

(* A failed attempt of Reconnect, not of Connect, is followed by a wait. *)
WaitHasBackoff == pc = "wait" => backoff # None

IInv == TypeOK /\ AttemptOwnsConn /\ WaitHasBackoff /\ NoLeakedConn

(* Nothing is open before the first attempt. *)
LEMMA InitIInv == Init => IInv
BY BackoffAssumption
DEF Init, IInv, TypeOK, AttemptOwnsConn, WaitHasBackoff, NoLeakedConn

(* Every step of the loop, of Close and of a watchdog keeps the invariant. *)
LEMMA StepIInv == IInv /\ [Next]_vars => IInv'
<1> SUFFICES ASSUME IInv, [Next]_vars PROVE IInv'
  OBVIOUS
<1> USE BackoffAssumption
    DEF IInv, TypeOK, AttemptOwnsConn, WaitHasBackoff, NoLeakedConn
<1>1. CASE Lock
  BY <1>1 DEF Lock, Closed
<1>2. CASE Dial
  <2>1. PICK c \in Conns : /\ state[c] = "new"
                           /\ state' = [state EXCEPT ![c] = "open"]
                           /\ watchdog' = [watchdog EXCEPT ![c] = "armed"]
                           /\ conn' = c
    BY <1>2 DEF Dial
  <2>2. TypeOK' /\ WaitHasBackoff'
    BY <1>2, <2>1 DEF Dial
  <2>3. AttemptOwnsConn'
    <3>1. ~(state'[current'] = "open" /\ current' # None)
      BY <1>2, <2>1 DEF Dial
    <3> QED
      BY <1>2, <2>1, <3>1 DEF Dial
  <2>4. NoLeakedConn'
    BY <1>2, <2>1 DEF Dial
  <2> QED
    BY <2>2, <2>3, <2>4
<1>3. CASE DialFails
  BY <1>3 DEF DialFails, Failed
<1>4. CASE Handshake
  BY <1>4 DEF Handshake
<1>5. CASE HandshakeFails
  BY <1>5 DEF HandshakeFails, Unwatched, Failed
<1>6. CASE Install
  BY <1>6 DEF Install, Unwatched
<1>7. CASE CallReconnect
  BY <1>7 DEF CallReconnect
<1>8. CASE Check
  BY <1>8 DEF Check
<1>9. CASE Backoff
  <2>1. backoff \in InitialBackoff..MaxBackoff
    BY <1>9 DEF Backoff
  <2>2. backoff' \in InitialBackoff..MaxBackoff
    BY <1>9, <2>1 DEF Backoff
  <2> QED
    BY <1>9, <2>2 DEF Backoff
<1>10. CASE WaitAborted
  BY <1>10 DEF WaitAborted
<1>11. CASE CloseDone
  BY <1>11 DEF CloseDone
<1>12. CASE CloseCurrent
  BY <1>12 DEF CloseCurrent, Closed
<1>13. ASSUME NEW c \in Conns, WatchdogFires(c) \/ WatchdogSlams(c) PROVE IInv'
  BY <1>13 DEF WatchdogFires, WatchdogSlams
<1>14. CASE UNCHANGED vars
  BY <1>14 DEF vars
<1> QED
  BY <1>1, <1>2, <1>3, <1>4, <1>5, <1>6, <1>7, <1>8, <1>9, <1>10, <1>11, <1>12, <1>13,
     <1>14 DEF Next

(* The inductive invariant holds in every reachable state. *)
THEOREM ConnInvariance == Spec => []IInv
BY InitIInv, StepIInv, PTL DEF Spec

(* The types, and with them that the backoff stays between its limits     *)
(* however often it is doubled.                                            *)
THEOREM ConnTypeCorrect == Spec => []TypeOK
<1>1. IInv => TypeOK
  BY DEF IInv
<1> QED
  BY ConnInvariance, <1>1, PTL

(* No connection leaks, on any error path, whenever the watchdog fires and *)
(* whenever Close is called: reconnect and Close close what they replace.  *)
THEOREM NoLeak == Spec => []NoLeakedConn
<1>1. IInv => NoLeakedConn
  BY DEF IInv
<1> QED
  BY ConnInvariance, <1>1, PTL

=============================================================================
