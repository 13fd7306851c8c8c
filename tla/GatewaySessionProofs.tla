------------------------ MODULE GatewaySessionProofs ------------------------
(***************************************************************************)
(* Proofs about GatewaySession, for any queue, limit of misses and         *)
(* timeouts.                                                               *)
(***************************************************************************)
EXTENDS GatewaySession, TLAPS

(* The ping the prober has written and not yet counted is what the + 1 of  *)
(* MissesAreReal stands for: while it is still to be counted there is room *)
(* for it.                                                                 *)
RoomToCount == prober = "count" => misses <= unanswered

(* A pong that onPong is dealing with answers a ping. *)
Answered == reader = "pong" => unanswered > 0

IInv == TypeOK /\ MissesAreReal /\ RoomToCount /\ Answered

LEMMA UpToBound ==
    ASSUME NEW n \in Nat, NEW max \in Nat
    PROVE  UpTo(n, max) \in 0..max /\ UpTo(n, max) <= n /\ (n <= max => UpTo(n, max) = n)
BY DEF UpTo

(* A new session has sent no ping. *)
LEMMA InitIInv == Init => IInv
<1> SUFFICES ASSUME Init PROVE IInv
  OBVIOUS
<1>1. done \in BOOLEAN /\ sawPong \in BOOLEAN /\ tick \in BOOLEAN
  BY DEF Init
<1> QED
  BY <1>1, SessionAssumption DEF Init, IInv, TypeOK, MissesAreReal, RoomToCount, Answered

(* The steps that neither count, answer nor write: the flags, positions    *)
(* and the queue change, the lock and the prober's counters do not.        *)
LEMMA QuietIInv ==
    ASSUME IInv,
           \/ TunRead \/ WriterTake \/ WriterStops \/ ReaderClose \/ ReaderFails
           \/ ProbeTick \/ ProbeStops \/ LoopDone \/ LoopClose \/ LoopWait
           \/ Wedge \/ BuffersFill \/ ServerCloses \/ MuxTimesOut \/ Tick
    PROVE  IInv'
<1> USE SessionAssumption DEF IInv, TypeOK, MissesAreReal, RoomToCount, Answered,
                              probeVars, netVars, SignalDone
<1>1. CASE TunRead
  BY <1>1, UpToBound DEF TunRead
<1>2. CASE WriterTake \/ WriterStops
  BY <1>2 DEF WriterTake, WriterStops
<1>3. CASE ReaderClose \/ ReaderFails
  <2>1. done' \in BOOLEAN
    BY <1>3 DEF ReaderClose, ReaderFails
  <2> QED
    BY <1>3, <2>1 DEF ReaderClose, ReaderFails
<1>4. CASE ProbeTick
  <2>1. done' \in BOOLEAN /\ tick' \in BOOLEAN
    BY <1>4 DEF ProbeTick
  <2> QED
    BY <1>4, <2>1 DEF ProbeTick
<1>5. CASE ProbeStops
  BY <1>5 DEF ProbeStops
<1>6. CASE LoopDone \/ LoopClose \/ LoopWait
  BY <1>6 DEF LoopDone, LoopClose, LoopWait
<1>7. CASE Wedge \/ BuffersFill \/ ServerCloses \/ MuxTimesOut
  BY <1>7 DEF Wedge, BuffersFill, ServerCloses, MuxTimesOut
<1>8. CASE Tick
  <2>1. tick' \in BOOLEAN
    BY <1>8 DEF Tick
  <2>2. stalled' \in 0..(2 * MuxTimeout)
    BY <1>8, UpToBound DEF Tick
  <2> QED
    BY <1>8, <2>1, <2>2 DEF Tick
<1> QED
  BY <1>1, <1>2, <1>3, <1>4, <1>5, <1>6, <1>7, <1>8

(* Every step keeps the invariant. *)
LEMMA StepIInv == IInv /\ [Next]_vars => IInv'
<1> SUFFICES ASSUME IInv, [Next]_vars PROVE IInv'
  OBVIOUS
<1> USE SessionAssumption DEF IInv, TypeOK, MissesAreReal, RoomToCount, Answered,
                              probeVars, netVars, SignalDone
<1>1. CASE WriterLock \/ WriterSent
  BY <1>1 DEF WriterLock, WriterSent
<1>2. CASE WriterFails
  <2>1. done' \in BOOLEAN
    BY <1>2 DEF WriterFails
  <2> QED
    BY <1>2, <2>1 DEF WriterFails
<1>3. CASE BackgroundLock \/ BackgroundEnds
  BY <1>3 DEF BackgroundLock, BackgroundEnds
<1>4. CASE ReaderPong
  <2>1. sawPong' \in BOOLEAN
    BY <1>4 DEF ReaderPong
  <2> QED
    BY <1>4, <2>1 DEF ReaderPong
<1>5. CASE ProbeLock \/ ProbeFails
  BY <1>5 DEF ProbeLock, ProbeFails
<1>6. CASE ProbeSent
  <2>1. unanswered' = IF unanswered + 1 < DeadMisses THEN unanswered + 1 ELSE DeadMisses
    BY <1>6 DEF ProbeSent, UpTo
  <2>2. unanswered' \in 0..DeadMisses /\ misses <= unanswered' /\ unanswered' > 0
    BY <2>1
  <2> QED
    BY <1>6, <2>2 DEF ProbeSent
<1>7. CASE ProbeCount
  <2>1. misses' \in 0..DeadMisses /\ misses' <= unanswered + 1
    BY <1>7, UpToBound DEF ProbeCount
  <2> QED
    BY <1>7, <2>1 DEF ProbeCount
<1>8. CASE StartSession
  <2>1. done' \in BOOLEAN /\ sawPong' \in BOOLEAN /\ tick' \in BOOLEAN
    BY <1>8 DEF StartSession
  <2> QED
    BY <1>8, <2>1 DEF StartSession
<1>9. CASE UNCHANGED vars
  BY <1>9 DEF vars
<1>10. CASE ReaderReset
  BY <1>10 DEF ReaderReset
<1> QED
  BY <1>1, <1>2, <1>3, <1>4, <1>5, <1>6, <1>7, <1>8, <1>9, <1>10, QuietIInv DEF Next, Work

(* The invariant holds through any number of sessions. *)
THEOREM SessionInvariance == Spec => []IInv
BY InitIInv, StepIInv, PTL DEF Spec

(* The types: queue and counters stay within their limits. *)
THEOREM SessionTypeCorrect == Spec => []TypeOK
<1>1. IInv => TypeOK
  BY DEF IInv
<1> QED
  BY <1>1, SessionInvariance, PTL

(* rttProbe never counts more misses than there are unanswered pings, but  *)
(* for the one whose answer came before it was counted.                    *)
THEOREM MissesReal == Spec => []MissesAreReal
<1>1. IInv => MissesAreReal
  BY DEF IInv
<1> QED
  BY <1>1, SessionInvariance, PTL

---------------------------------------------------------------------------
(* How long a wedged path is used *)

(* Who holds the lock, and what the end of the reader and of the prober    *)
(* means.                                                                  *)
Holders ==
    /\ wmu = "writer" <=> writer = "write"
    /\ wmu = "prober" <=> prober = "write"
    /\ reader = "exit" => done
    /\ prober = "exit" => done \/ stream # "open"
    /\ path = "ok" \/ reader = "pong" => stalled = 0

Pinging == prober \in {"lock", "write", "count"}

(* As long as writes go out, the prober has dealt with a tick before the   *)
(* next interval passes, and pings only while it has not missed enough,    *)
(* unless a pong is just about to forget the misses.                       *)
Prompt ==
    /\ loop = "run" /\ path # "full" /\ tick => ~Pinging
    /\ sawPong /\ Pinging => misses < DeadMisses \/ reader = "pong"

(* Every interval without an answer is a miss, but for the last one, whose *)
(* tick or ping is still under way.                                        *)
EveryIntervalCounts ==
    loop = "run" /\ sawPong /\ path = "wedged" =>
        /\ stalled <= DeadMisses + 1
        /\ ~done /\ stream = "open" =>
              stalled <= misses + 1 /\ (~tick /\ ~Pinging => stalled <= misses)

DInv == IInv /\ Holders /\ Prompt /\ EveryIntervalCounts

(* When an interval passes in a session, everybody has done what there was *)
(* to do: unless writes block, the prober waits for its next tick.         *)
LEMMA QuietTick ==
    ASSUME DInv, Tick, loop = "run", path # "full"
    PROVE  ~done /\ stream = "open" /\ prober = "select" /\ ~tick
<1>1. ~Busy
  BY DEF Tick
<1>2. ~done /\ reader = "read" /\ stream = "open"
  BY <1>1 DEF Busy, DInv, IInv, TypeOK, Holders
<1>3. prober \notin {"write", "count", "exit"}
  BY <1>1, <1>2 DEF Busy, DInv, IInv, TypeOK, Holders, CanWrite
<1>4. prober # "lock"
  BY <1>1, <1>2 DEF Busy, DInv, IInv, TypeOK, Holders, CanWrite
<1> QED
  BY <1>1, <1>2, <1>3, <1>4 DEF Busy, DInv, IInv, TypeOK

LEMMA StepDInv == DInv /\ [Next]_vars => DInv'
<1> SUFFICES ASSUME DInv, [Next]_vars PROVE DInv'
  OBVIOUS
<1> USE SessionAssumption DEF TypeOK, Holders, Pinging, Prompt, EveryIntervalCounts,
                              probeVars, netVars, SignalDone
<1>0. IInv /\ IInv' /\ Holders /\ Prompt /\ EveryIntervalCounts
  BY StepIInv DEF DInv
<1>t. TypeOK /\ TypeOK'
  BY <1>0 DEF IInv
<1>1. CASE TunRead
  <2>1. Holders'
    BY <1>0, <1>t, <1>1 DEF TunRead
  <2>2. Prompt' /\ EveryIntervalCounts'
    BY <1>0, <1>t, <1>1 DEF TunRead
  <2> QED
    BY <1>0, <2>1, <2>2 DEF DInv
<1>2. CASE WriterTake \/ WriterStops
  <2>1. Holders'
    BY <1>0, <1>t, <1>2 DEF WriterTake, WriterStops
  <2>2. Prompt' /\ EveryIntervalCounts'
    BY <1>0, <1>t, <1>2 DEF WriterTake, WriterStops
  <2> QED
    BY <1>0, <2>1, <2>2 DEF DInv
<1>3. CASE WriterLock
  <2>1. Holders'
    BY <1>0, <1>t, <1>3 DEF WriterLock
  <2>2. Prompt' /\ EveryIntervalCounts'
    BY <1>0, <1>t, <1>3 DEF WriterLock
  <2> QED
    BY <1>0, <2>1, <2>2 DEF DInv
<1>4. CASE WriterSent \/ WriterFails
  <2>1. Holders'
    BY <1>0, <1>t, <1>4 DEF WriterSent, WriterFails, MayFail
  <2>2. Prompt' /\ EveryIntervalCounts'
    BY <1>0, <1>t, <1>4 DEF WriterSent, WriterFails, MayFail
  <2> QED
    BY <1>0, <2>1, <2>2 DEF DInv
<1>5. CASE BackgroundLock \/ BackgroundEnds
  <2>1. Holders'
    BY <1>0, <1>t, <1>5 DEF BackgroundLock, BackgroundEnds, MayFail
  <2>2. Prompt'
    BY <1>0, <1>t, <1>5 DEF BackgroundLock, BackgroundEnds, MayFail
  <2>3. EveryIntervalCounts'
    BY <1>0, <1>t, <1>5 DEF BackgroundLock, BackgroundEnds, MayFail
  <2> QED
    BY <1>0, <2>1, <2>2, <2>3 DEF DInv
<1>6. CASE ReaderPong
  <2>1. Holders'
    BY <1>0, <1>t, <1>6 DEF ReaderPong
  <2>2. Prompt' /\ EveryIntervalCounts'
    BY <1>0, <1>t, <1>6 DEF ReaderPong
  <2> QED
    BY <1>0, <2>1, <2>2 DEF DInv
<1>7. CASE ReaderClose \/ ReaderFails
  <2>1. Holders'
    BY <1>0, <1>t, <1>7 DEF ReaderClose, ReaderFails
  <2>2. Prompt' /\ EveryIntervalCounts'
    BY <1>0, <1>t, <1>7 DEF ReaderClose, ReaderFails
  <2> QED
    BY <1>0, <2>1, <2>2 DEF DInv
<1>8. CASE ProbeStops
  <2>1. Holders'
    BY <1>0, <1>t, <1>8 DEF ProbeStops
  <2>2. Prompt' /\ EveryIntervalCounts'
    BY <1>0, <1>t, <1>8 DEF ProbeStops
  <2> QED
    BY <1>0, <2>1, <2>2 DEF DInv
<1>9. CASE ProbeLock
  <2>1. Holders'
    BY <1>0, <1>t, <1>9 DEF ProbeLock
  <2>2. Prompt' /\ EveryIntervalCounts'
    BY <1>0, <1>t, <1>9 DEF ProbeLock
  <2> QED
    BY <1>0, <2>1, <2>2 DEF DInv
<1>10. CASE ProbeSent
  <2>1. Holders'
    BY <1>0, <1>t, <1>10 DEF ProbeSent
  <2>2. Prompt' /\ EveryIntervalCounts'
    BY <1>0, <1>t, <1>10 DEF ProbeSent
  <2> QED
    BY <1>0, <2>1, <2>2 DEF DInv
<1>11. CASE ProbeFails
  <2>1. Holders'
    BY <1>0, <1>t, <1>11 DEF ProbeFails, MayFail
  <2>2. Prompt' /\ EveryIntervalCounts'
    BY <1>0, <1>t, <1>11 DEF ProbeFails, MayFail
  <2> QED
    BY <1>0, <2>1, <2>2 DEF DInv
<1>12. CASE LoopDone \/ LoopClose \/ LoopWait
  <2>1. Holders'
    BY <1>0, <1>t, <1>12 DEF LoopDone, LoopClose, LoopWait
  <2>2. Prompt' /\ EveryIntervalCounts'
    BY <1>0, <1>t, <1>12 DEF LoopDone, LoopClose, LoopWait
  <2> QED
    BY <1>0, <2>1, <2>2 DEF DInv
<1>13. CASE Wedge \/ BuffersFill
  <2>1. Holders'
    BY <1>0, <1>t, <1>13 DEF Wedge, BuffersFill
  <2>2. Prompt'
    BY <1>0, <1>13 DEF Wedge, BuffersFill
  <2>3. EveryIntervalCounts'
    <3>1. path' = "wedged" => stalled' = 0
      BY <1>0, <1>13 DEF Wedge, BuffersFill
    <3>2. misses' \in Nat /\ DeadMisses \in Nat
      BY <1>t
    <3>0. \A n \in Nat : 0 <= n /\ 0 <= n + 1
      BY SMT
    <3>3. path' = "wedged" =>
              stalled' <= DeadMisses + 1 /\ stalled' <= misses' + 1 /\ stalled' <= misses'
      BY <3>1, <3>2, <3>0, Zenon
    <3> QED
      BY <3>3
  <2> QED
    BY <1>0, <2>1, <2>2, <2>3 DEF DInv
<1>14. CASE ServerCloses \/ MuxTimesOut
  <2>1. Holders'
    BY <1>0, <1>t, <1>14 DEF ServerCloses, MuxTimesOut
  <2>2. Prompt' /\ EveryIntervalCounts'
    BY <1>0, <1>t, <1>14 DEF ServerCloses, MuxTimesOut
  <2> QED
    BY <1>0, <2>1, <2>2 DEF DInv
<1>15. CASE StartSession
  <2>1. Holders'
    BY <1>0, <1>t, <1>15 DEF StartSession
  <2>2. Prompt' /\ EveryIntervalCounts'
    BY <1>0, <1>t, <1>15 DEF StartSession
  <2> QED
    BY <1>0, <2>1, <2>2 DEF DInv
<1>16. CASE ProbeTick
  <2>1. Holders'
    BY <1>0, <1>t, <1>16 DEF ProbeTick
  <2>2. Prompt' /\ EveryIntervalCounts'
    BY <1>0, <1>t, <1>16 DEF ProbeTick
  <2> QED
    BY <1>0, <2>1, <2>2 DEF DInv
<1>17. CASE ProbeCount
  <2>1. Holders'
    BY <1>0, <1>t, <1>17 DEF ProbeCount
  <2>2. misses' = IF misses + 1 < DeadMisses THEN misses + 1 ELSE DeadMisses
    BY <1>17 DEF ProbeCount, UpTo
  <2>3. Prompt' /\ EveryIntervalCounts'
    BY <1>0, <1>t, <1>17, <2>2 DEF ProbeCount
  <2> QED
    BY <1>0, <2>1, <2>3 DEF DInv
<1>18. CASE Tick
  <2>0. reader # "pong"
    BY <1>18 DEF Tick, Busy
  <2>1. Holders'
    BY <1>0, <1>t, <1>18, <2>0 DEF Tick
  <2>2. stalled' <= stalled + 1
    BY <1>t, <1>18 DEF Tick, UpTo
  <2>3. Prompt' /\ EveryIntervalCounts'
    BY <1>0, <1>t, <1>18, <2>2, QuietTick DEF Tick
  <2> QED
    BY <1>0, <2>1, <2>3 DEF DInv
<1>19. CASE UNCHANGED vars
  BY <1>0, <1>19 DEF vars, DInv
<1>20. CASE ReaderReset
  <2>1. Holders'
    BY <1>0, <1>t, <1>20 DEF ReaderReset
  <2>2. Prompt' /\ EveryIntervalCounts'
    BY <1>0, <1>t, <1>20 DEF ReaderReset
  <2> QED
    BY <1>0, <2>1, <2>2 DEF DInv
<1> QED
  BY <1>1, <1>2, <1>3, <1>4, <1>5, <1>6, <1>7, <1>8, <1>9, <1>10, <1>11, <1>12, <1>13, <1>14, <1>15, <1>16, <1>17, <1>18, <1>19, <1>20 DEF Next, Work

(* As long as writes do not block, probeLoop gives a wedged path up within *)
(* DeadMisses + 1 intervals, once a pong has shown that the server         *)
(* answers, for any limit of misses, any timeouts and any load on the      *)
(* write lock that the writer, the decoys and the prober share.            *)
THEOREM WedgeDetected == Spec => []DetectedIfWritable
<1>1. Init => DInv
  BY InitIInv DEF Init, DInv, Holders, Pinging, Prompt, EveryIntervalCounts
<1>2. DInv => DetectedIfWritable
  BY DEF DInv, EveryIntervalCounts, DetectedIfWritable
<1> QED
  BY <1>1, <1>2, StepDInv, PTL DEF Spec
=============================================================================
