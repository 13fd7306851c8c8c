---------------------------- MODULE ConnManager ----------------------------
(***************************************************************************)
(* The connection manager (internal/tunnel/conn.go): the goroutine that    *)
(* connects and reconnects, the watchdog it starts for every attempt, and  *)
(* Close, called from another goroutine (the gateway's main closes the     *)
(* pool while member goroutines may be reconnecting).                      *)
(*                                                                         *)
(* A connection stands for the raw connection with the mux session and the *)
(* stream on top of it: the code opens and closes them together.           *)
(***************************************************************************)
EXTENDS Integers

CONSTANTS
    Conns,            \* the connections that may ever be dialled (a bound for TLC)
    InitialBackoff,   \* initialBackoff, in seconds
    MaxBackoff,       \* maxBackoff, in seconds
    None              \* nil

ASSUME BackoffAssumption ==
    /\ InitialBackoff \in Nat \ {0} /\ MaxBackoff \in Nat
    /\ InitialBackoff <= MaxBackoff
    /\ None \notin Conns

VARIABLES
    pc,           \* where the reconnecting goroutine is
    conn,         \* reconnect's local connection
    backoff,      \* Reconnect's local backoff
    closer,       \* where the goroutine that calls Close is
    mu,           \* who holds ConnManager.mu
    done,         \* ConnManager.done is closed
    current,      \* ConnManager.rawConn, session and stream
    state,        \* each connection: not dialled yet, open or closed
    watchdog      \* the connection's watchdog: off, armed, or it fired
                  \* and has not closed the connection yet

vars == <<pc, conn, backoff, closer, mu, done, current, state, watchdog>>

Init ==
    /\ pc = "attempt"           \* Connect calls reconnect directly
    /\ conn = None
    /\ backoff = None           \* Connect does not retry
    /\ closer = "idle"
    /\ mu = "free"
    /\ done = FALSE
    /\ current = None
    /\ state = [c \in Conns |-> "new"]
    /\ watchdog = [c \in Conns |-> "off"]

---------------------------------------------------------------------------
(* reconnect *)

Closed(c) == IF c = None THEN state ELSE [state EXCEPT ![c] = "closed"]

(* Take the lock for the whole attempt and close what is left of the       *)
(* previous connection, which stays the current one until it is replaced.  *)
Lock ==
    /\ pc = "attempt"
    /\ mu = "free"
    /\ mu' = "loop"
    /\ state' = Closed(current)
    /\ pc' = "dial"
    /\ UNCHANGED <<conn, backoff, closer, done, current, watchdog>>

(* Mutant: no watchdog is started. *)
DialUnwatched ==
    /\ pc = "dial"
    /\ \E c \in Conns :
          /\ state[c] = "new"
          /\ state' = [state EXCEPT ![c] = "open"]
          /\ conn' = c
    /\ pc' = "handshake"
    /\ UNCHANGED <<backoff, closer, mu, done, current, watchdog>>

(* The dial succeeds, and the watchdog is started. *)
Dial ==
    /\ pc = "dial"
    /\ \E c \in Conns :
          /\ state[c] = "new"
          /\ state' = [state EXCEPT ![c] = "open"]
          /\ watchdog' = [watchdog EXCEPT ![c] = "armed"]
          /\ conn' = c
    /\ pc' = "handshake"
    /\ UNCHANGED <<backoff, closer, mu, done, current>>

(* The attempt has failed and the lock is released: Reconnect waits and    *)
(* tries again, Connect returns the error.                                 *)
Failed == IF backoff = None THEN "returned" ELSE "wait"

DialFails ==
    /\ pc = "dial"
    /\ mu' = "free"
    /\ pc' = Failed
    /\ UNCHANGED <<conn, backoff, closer, done, current, state, watchdog>>

(* reconnectTimeout is over: the watchdog is committed to close ... *)
WatchdogFires(c) ==
    /\ watchdog[c] = "armed"
    /\ watchdog' = [watchdog EXCEPT ![c] = "fired"]
    /\ UNCHANGED <<pc, conn, backoff, closer, mu, done, current, state>>

(* ... and closes the connection, whatever has become of it meanwhile. *)
WatchdogSlams(c) ==
    /\ watchdog[c] = "fired"
    /\ watchdog' = [watchdog EXCEPT ![c] = "off"]
    /\ state' = [state EXCEPT ![c] = "closed"]
    /\ UNCHANGED <<pc, conn, backoff, closer, mu, done, current>>

(* Mux, stream and handshake are there ... *)
Handshake ==
    /\ pc = "handshake"
    /\ state[conn] = "open"
    /\ pc' = "install"
    /\ UNCHANGED <<conn, backoff, closer, mu, done, current, state, watchdog>>

(* The deferred close of wdDone ends a watchdog that has not fired. *)
Unwatched(c) == IF watchdog[c] = "armed" THEN [watchdog EXCEPT ![c] = "off"] ELSE watchdog

(* ... and become the current ones; the deferred functions end the         *)
(* watchdog and release the lock.                                          *)
Install ==
    /\ pc = "install"
    /\ current' = conn
    /\ conn' = None
    /\ watchdog' = Unwatched(conn)
    /\ mu' = "free"
    /\ pc' = "returned"
    /\ UNCHANGED <<backoff, closer, done, state>>

(* Mutant: the error path forgets the connection. *)
HandshakeFailsLeaks ==
    /\ pc = "handshake"
    /\ watchdog' = Unwatched(conn)
    /\ conn' = None
    /\ mu' = "free"
    /\ pc' = Failed
    /\ UNCHANGED <<backoff, closer, done, current, state>>

(* A step fails, or the watchdog has closed the connection under it. *)
HandshakeFails ==
    /\ pc = "handshake"
    /\ state' = [state EXCEPT ![conn] = "closed"]
    /\ watchdog' = Unwatched(conn)
    /\ conn' = None
    /\ mu' = "free"
    /\ pc' = Failed
    /\ UNCHANGED <<backoff, closer, done, current>>

---------------------------------------------------------------------------
(* Reconnect *)

(* The session is over, or the initial connect failed: the owner calls     *)
(* Reconnect.                                                              *)
CallReconnect ==
    /\ pc = "returned"
    /\ backoff' = InitialBackoff
    /\ pc' = "check"
    /\ UNCHANGED <<conn, closer, mu, done, current, state, watchdog>>

(* Mutant: the loop does not look at done. *)
CheckNothing ==
    /\ pc = "check"
    /\ pc' = "attempt"
    /\ UNCHANGED <<conn, backoff, closer, mu, done, current, state, watchdog>>

(* The manager is closed, or one more attempt. *)
Check ==
    /\ pc = "check"
    /\ pc' = IF done THEN "aborted" ELSE "attempt"
    /\ UNCHANGED <<conn, backoff, closer, mu, done, current, state, watchdog>>

(* The backoff is over: double it, up to the limit. *)
Backoff ==
    /\ pc = "wait"
    /\ backoff' = IF 2 * backoff > MaxBackoff THEN MaxBackoff ELSE 2 * backoff
    /\ pc' = "check"
    /\ UNCHANGED <<conn, closer, mu, done, current, state, watchdog>>

(* Close interrupts the wait. *)
WaitAborted ==
    /\ pc = "wait"
    /\ done
    /\ pc' = "aborted"
    /\ UNCHANGED <<conn, backoff, closer, mu, done, current, state, watchdog>>

---------------------------------------------------------------------------
(* Close *)

CloseDone ==
    /\ closer = "idle"
    /\ done' = TRUE
    /\ closer' = "lock"
    /\ UNCHANGED <<pc, conn, backoff, mu, current, state, watchdog>>

(* Once no attempt is under way, close the current connection. *)
CloseCurrent ==
    /\ closer = "lock"
    /\ mu = "free"
    /\ state' = Closed(current)
    /\ closer' = "closed"
    /\ UNCHANGED <<pc, conn, backoff, mu, done, current, watchdog>>

---------------------------------------------------------------------------

Next ==
    \/ Lock \/ Dial \/ DialFails \/ Handshake \/ HandshakeFails \/ Install
    \/ CallReconnect \/ Check \/ Backoff \/ WaitAborted
    \/ CloseDone \/ CloseCurrent
    \/ \E c \in Conns : WatchdogFires(c) \/ WatchdogSlams(c)

Spec == Init /\ [][Next]_vars

(* The dial has its own timeout; the handshake has none but the watchdog,  *)
(* and fails once the connection is closed.  The mutex starves nobody.     *)
Fairness ==
    /\ WF_vars(Lock) /\ WF_vars(Dial \/ DialFails)
    /\ WF_vars(conn # None /\ state[conn] = "closed" /\ HandshakeFails)
    /\ WF_vars(Install) /\ WF_vars(Check) /\ WF_vars(Backoff \/ WaitAborted)
    /\ SF_vars(CloseCurrent)
    /\ \A c \in Conns : WF_vars(WatchdogFires(c)) /\ WF_vars(WatchdogSlams(c))

FairSpec == Spec /\ Fairness

---------------------------------------------------------------------------
(* Properties *)

TypeOK ==
    /\ pc \in {"attempt", "dial", "handshake", "install", "returned", "check", "wait",
               "aborted"}
    /\ conn \in Conns \cup {None}
    /\ backoff \in InitialBackoff..MaxBackoff \cup {None}
    /\ closer \in {"idle", "lock", "closed"}
    /\ mu \in {"free", "loop"}
    /\ done \in BOOLEAN
    /\ current \in Conns \cup {None}
    /\ state \in [Conns -> {"new", "open", "closed"}]
    /\ watchdog \in [Conns -> {"off", "armed", "fired"}]

(* No connection leaks: one that is open is the current one or the one the *)
(* attempt under way has dialled, on every error path and whenever the     *)
(* watchdog fires.                                                         *)
NoLeakedConn ==
    \A c \in Conns : state[c] = "open" =>
        c = current \/ (c = conn /\ pc \in {"handshake", "install"})

(* Close returns, also when it has to wait for an attempt. *)
CloseReturns == closer = "lock" ~> closer = "closed"

(* Once the manager is closed Reconnect does not go on for ever, wherever  *)
(* it was and however many attempts fail.                                  *)
ReconnectEnds == done ~> pc \in {"aborted", "returned"}
=============================================================================
