--------------------------- MODULE GatewaySession ---------------------------
(***************************************************************************)
(* The sessions of one pool member (cmd/gateway/main.go): the loop that    *)
(* starts a session and waits for its end, and the session's writer,       *)
(* reader and prober goroutines, which share the write lock of the         *)
(* obfuscated connection (internal/transport/obfs.go).                     *)
(*                                                                         *)
(* Time is counted in probe intervals of 3 s.  Goroutines that can run do  *)
(* so within an interval; only the answer to a ping may take longer.       *)
(***************************************************************************)
EXTENDS Integers

CONSTANTS
    QueueCap,       \* the capacity of packetCh
    DeadMisses,     \* probeDeadMisses
    MuxTimeout,     \* KeepAliveTimeout: smux gives up a silent peer after this to twice this
    ReadTimeout     \* tunnelDataReadTimeout

ASSUME SessionAssumption ==
    /\ QueueCap \in Nat \ {0} /\ DeadMisses \in Nat \ {0}
    /\ MuxTimeout \in Nat \ {0} /\ ReadTimeout \in 1..(2 * MuxTimeout)

VARIABLES
    loop,        \* where memberDataLoop is
    done,        \* sessionDone is closed
    stream,      \* the session's stream: "open", "closed" (by this side)
                 \* or "dead" (the smux session under it is gone)
    path,        \* the way to the server: "ok", "wedged" (nothing comes back),
                 \* "full" (and writes block, too)
    writer,      \* sessionWriter
    reader,      \* tunnelToTun
    prober,      \* probeLoop
    wmu,         \* ObfuscatedConn.writeMu
    tick,        \* a tick of the prober's ticker is waiting
    misses,      \* rttProbe.misses, counted up to DeadMisses
    sawPong,     \* rttProbe.sawPong
    unanswered,  \* the pings written whose answer onPong has not dealt with,
                 \* counted up to DeadMisses
    queue,       \* the packets in packetCh
    stalled      \* for how long nothing has come from the server

vars == <<loop, done, stream, path, writer, reader, prober, wmu, tick, misses,
          sawPong, unanswered, queue, stalled>>

probeVars == <<tick, misses, sawPong, unanswered>>
netVars == <<path, stalled>>

UpTo(n, max) == IF n < max THEN n ELSE max

(* A session has just been started. *)
Init ==
    /\ loop = "run" /\ done = FALSE
    /\ stream = "open" /\ path = "ok" /\ wmu = "free"
    /\ writer = "select" /\ reader = "read" /\ prober = "select"
    /\ tick = FALSE /\ misses = 0 /\ sawPong = FALSE /\ unanswered = 0
    /\ queue = 0 /\ stalled = 0

SignalDone == done' = TRUE

---------------------------------------------------------------------------
(* tunReader: a packet from the device; it is dropped when the queue is    *)
(* full.  Bound: packets come while a tick is waiting, so that their       *)
(* number in an interval is finite.                                        *)
TunRead ==
    /\ tick
    /\ queue' = UpTo(queue + 1, QueueCap)
    /\ UNCHANGED <<loop, done, stream, netVars, writer, reader, prober, wmu, probeVars>>

---------------------------------------------------------------------------
(* sessionWriter *)

WriterTake ==
    /\ writer = "select"
    /\ queue > 0
    /\ queue' = queue - 1
    /\ writer' = "lock"
    /\ UNCHANGED <<loop, done, stream, netVars, reader, prober, wmu, probeVars>>

WriterStops ==
    /\ writer = "select"
    /\ done
    /\ writer' = "exit"
    /\ UNCHANGED <<loop, done, stream, netVars, reader, prober, wmu, probeVars, queue>>

(* ObfuscatedConn.Write takes the lock and keeps it while it writes. *)
WriterLock ==
    /\ writer = "lock"
    /\ wmu = "free"
    /\ wmu' = "writer"
    /\ writer' = "write"
    /\ UNCHANGED <<loop, done, stream, netVars, reader, prober, probeVars, queue>>

(* When a write to the stream must return: it goes out, or the stream      *)
(* cannot be written to.  A write that waits for a full path may outlive   *)
(* the closing of its stream, but not the smux session.                    *)
CanWrite == stream = "open" /\ path # "full"
MustFail == stream = "dead" \/ (stream = "closed" /\ path # "full")
MayFail == stream \in {"closed", "dead"}

WriterSent ==
    /\ writer = "write"
    /\ CanWrite
    /\ wmu' = "free"
    /\ writer' = "select"
    /\ UNCHANGED <<loop, done, stream, netVars, reader, prober, probeVars, queue>>

WriterFails ==
    /\ writer = "write"
    /\ MayFail
    /\ wmu' = "free"
    /\ writer' = "exit"
    /\ SignalDone
    /\ UNCHANGED <<loop, stream, netVars, reader, prober, probeVars, queue>>

---------------------------------------------------------------------------
(* Fake keepalives and decoys: they try the lock, and hold it when they    *)
(* get it for as long as their write blocks.                               *)

BackgroundLock ==
    /\ wmu = "free"
    /\ stream = "open"
    /\ wmu' = "background"
    /\ UNCHANGED <<loop, done, stream, netVars, writer, reader, prober, probeVars, queue>>

BackgroundEnds ==
    /\ wmu = "background"
    /\ CanWrite \/ MayFail
    /\ wmu' = "free"
    /\ UNCHANGED <<loop, done, stream, netVars, writer, reader, prober, probeVars, queue>>

---------------------------------------------------------------------------
(* tunnelToTun *)

(* A pong: rttProbe.onPong first notes that the server answers ...  Other  *)
(* frames change nothing here.                                             *)
ReaderPong ==
    /\ reader = "read"
    /\ stream = "open" /\ path = "ok"
    /\ unanswered > 0
    /\ reader' = "pong"
    /\ sawPong' = TRUE
    /\ UNCHANGED <<loop, done, stream, netVars, writer, prober, wmu, tick, misses, unanswered,
                   queue>>

(* ... and then forgets the misses; the prober may look in between. *)
ReaderReset ==
    /\ reader = "pong"
    /\ reader' = "read"
    /\ unanswered' = unanswered - 1
    /\ misses' = 0
    /\ UNCHANGED <<loop, done, stream, netVars, writer, prober, wmu, tick, sawPong, queue>>

(* A close frame, or one that cannot be decoded. *)
ReaderClose ==
    /\ reader = "read"
    /\ stream = "open" /\ path = "ok"
    /\ reader' = "exit"
    /\ SignalDone
    /\ UNCHANGED <<loop, stream, netVars, writer, prober, wmu, probeVars, queue>>

(* Mutant: the reader returns and tells nobody. *)
ReaderFailsSilently ==
    /\ reader = "read"
    /\ stream \in {"closed", "dead"} \/ stalled >= ReadTimeout
    /\ reader' = "exit"
    /\ UNCHANGED <<loop, done, stream, netVars, writer, prober, wmu, probeVars, queue>>

(* A closed stream, or no frame for ReadTimeout. *)
ReaderFails ==
    /\ reader = "read"
    /\ stream \in {"closed", "dead"} \/ stalled >= ReadTimeout
    /\ reader' = "exit"
    /\ SignalDone
    /\ UNCHANGED <<loop, stream, netVars, writer, prober, wmu, probeVars, queue>>

---------------------------------------------------------------------------
(* probeLoop *)

(* Mutant: nobody looks at the misses. *)
ProbeTickLate ==
    /\ prober = "select"
    /\ tick
    /\ tick' = FALSE
    /\ prober' = "lock"
    /\ UNCHANGED <<loop, done, stream, netVars, writer, reader, wmu, misses, sawPong,
                   unanswered, queue>>

(* A tick: give the session up, or send the next ping. *)
ProbeTick ==
    /\ prober = "select"
    /\ tick
    /\ tick' = FALSE
    /\ IF sawPong /\ misses >= DeadMisses
       THEN prober' = "exit" /\ SignalDone
       ELSE prober' = "lock" /\ UNCHANGED done
    /\ UNCHANGED <<loop, stream, netVars, writer, reader, wmu, misses, sawPong,
                   unanswered, queue>>

ProbeStops ==
    /\ prober = "select"
    /\ done
    /\ prober' = "exit"
    /\ UNCHANGED <<loop, done, stream, netVars, writer, reader, wmu, probeVars, queue>>

ProbeLock ==
    /\ prober = "lock"
    /\ wmu = "free"
    /\ wmu' = "prober"
    /\ prober' = "write"
    /\ UNCHANGED <<loop, done, stream, netVars, writer, reader, probeVars, queue>>

ProbeSent ==
    /\ prober = "write"
    /\ CanWrite
    /\ wmu' = "free"
    /\ prober' = "count"
    /\ unanswered' = UpTo(unanswered + 1, DeadMisses)
    /\ UNCHANGED <<loop, done, stream, netVars, writer, reader, tick, misses, sawPong, queue>>

(* When the write fails the prober just returns. *)
ProbeFails ==
    /\ prober = "write"
    /\ MayFail
    /\ wmu' = "free"
    /\ prober' = "exit"
    /\ UNCHANGED <<loop, done, stream, netVars, writer, reader, probeVars, queue>>

(* Mutant: every ping is counted twice. *)
ProbeCountTwice ==
    /\ prober = "count"
    /\ misses' = UpTo(misses + 2, DeadMisses)
    /\ prober' = "select"
    /\ UNCHANGED <<loop, done, stream, netVars, writer, reader, wmu, tick, sawPong,
                   unanswered, queue>>

(* The ping is counted after it was written: its answer may come first. *)
ProbeCount ==
    /\ prober = "count"
    /\ misses' = UpTo(misses + 1, DeadMisses)
    /\ prober' = "select"
    /\ UNCHANGED <<loop, done, stream, netVars, writer, reader, wmu, tick, sawPong,
                   unanswered, queue>>

---------------------------------------------------------------------------
(* memberDataLoop *)

LoopDone ==
    /\ loop = "run"
    /\ done
    /\ loop' = "close"
    /\ UNCHANGED <<done, stream, netVars, writer, reader, prober, wmu, probeVars, queue>>

(* obfsConn.Close closes the stream without the write lock. *)
LoopClose ==
    /\ loop = "close"
    /\ stream' = IF stream = "dead" THEN stream ELSE "closed"
    /\ loop' = "wait"
    /\ UNCHANGED <<done, netVars, writer, reader, prober, wmu, probeVars, queue>>

(* writerWG.Wait; the member is unhealthy now. *)
LoopWait ==
    /\ loop = "wait"
    /\ writer = "exit"
    /\ loop' = "redial"
    /\ UNCHANGED <<done, stream, netVars, writer, reader, prober, wmu, probeVars, queue>>

(* Reconnected: the next session starts.  A reader or a prober of the last *)
(* one that is still to return has a stream, a lock and a probe of its own *)
(* and is not followed any further.                                        *)
StartSession ==
    /\ loop = "redial"
    /\ loop' = "run" /\ done' = FALSE
    /\ stream' = "open" /\ path' = "ok" /\ wmu' = "free"
    /\ writer' = "select" /\ reader' = "read" /\ prober' = "select"
    /\ tick' = FALSE /\ misses' = 0 /\ sawPong' = FALSE /\ unanswered' = 0
    /\ stalled' = 0
    /\ UNCHANGED queue

---------------------------------------------------------------------------
(* The network, the timers *)

(* Nothing comes back any more ... *)
Wedge ==
    /\ path = "ok"
    /\ path' = "wedged"
    /\ UNCHANGED <<loop, done, stream, writer, reader, prober, wmu, probeVars, queue, stalled>>

(* ... and, once the buffers and windows are used up, writes block. *)
BuffersFill ==
    /\ path = "wedged"
    /\ path' = "full"
    /\ UNCHANGED <<loop, done, stream, writer, reader, prober, wmu, probeVars, queue, stalled>>

(* The server closes the session. *)
ServerCloses ==
    /\ stream \in {"open", "closed"}
    /\ path = "ok"
    /\ stream' = "dead"
    /\ UNCHANGED <<loop, done, netVars, writer, reader, prober, wmu, probeVars, queue>>

(* smux looks every MuxTimeout whether anything has come since it last     *)
(* looked, and closes its session when not.                                *)
MuxTimesOut ==
    /\ stream \in {"open", "closed"}
    /\ stalled >= MuxTimeout
    /\ stream' = "dead"
    /\ UNCHANGED <<loop, done, netVars, writer, reader, prober, wmu, probeVars, queue>>

(* What a goroutine that is not waiting for the network or for time does. *)
Work ==
    \/ WriterTake \/ WriterStops \/ WriterLock
    \/ WriterSent \/ (MustFail /\ WriterFails)
    \/ ReaderReset \/ ReaderFails
    \/ ProbeTick \/ ProbeStops \/ ProbeLock
    \/ ProbeSent \/ (MustFail /\ ProbeFails) \/ ProbeCount
    \/ ((CanWrite \/ MustFail) /\ BackgroundEnds)
    \/ LoopDone \/ LoopClose \/ LoopWait
    \/ (stalled >= 2 * MuxTimeout /\ MuxTimesOut)

(* When one of them can. *)
Busy ==
    \/ writer = "select" /\ (queue > 0 \/ done)
    \/ "lock" \in {writer, prober} /\ wmu = "free"
    \/ ("write" \in {writer, prober} \/ wmu = "background") /\ (CanWrite \/ MustFail)
    \/ reader = "pong"
    \/ reader = "read" /\ (stream \in {"closed", "dead"} \/ stalled >= ReadTimeout)
    \/ prober = "select" /\ (tick \/ done)
    \/ prober = "count"
    \/ loop = "run" /\ done
    \/ loop = "close"
    \/ loop = "wait" /\ writer = "exit"
    \/ stalled >= 2 * MuxTimeout /\ stream \in {"open", "closed"}

(* An interval passes; ticks do not add up in the ticker's channel, and    *)
(* the ticker of a prober that has returned is stopped.                    *)
Tick ==
    /\ ~Busy
    /\ loop \in {"run", "wait"}
    /\ stalled' = IF path = "ok" THEN 0 ELSE UpTo(stalled + 1, 2 * MuxTimeout)
    /\ tick' = (prober # "exit")
    /\ UNCHANGED <<loop, done, stream, path, writer, reader, prober, wmu, misses, sawPong,
                   unanswered, queue>>

---------------------------------------------------------------------------

Next ==
    \/ Work \/ StartSession
    \/ ReaderPong \/ ReaderClose \/ WriterFails \/ ProbeFails
    \/ BackgroundLock \/ BackgroundEnds
    \/ TunRead \/ Wedge \/ BuffersFill \/ ServerCloses \/ MuxTimesOut \/ Tick

Spec == Init /\ [][Next]_vars

(* Each goroutine gets to run, the lock is handed to whoever waits for it, *)
(* a select takes every case that is ready again and again, time passes.   *)
Fairness ==
    /\ WF_vars(WriterTake) /\ SF_vars(WriterStops) /\ SF_vars(WriterLock)
    /\ WF_vars(WriterSent) /\ WF_vars(MustFail /\ WriterFails)
    /\ WF_vars(ReaderReset) /\ WF_vars(ReaderFails)
    /\ WF_vars(ProbeTick \/ ProbeStops) /\ SF_vars(ProbeLock)
    /\ WF_vars(ProbeSent) /\ WF_vars(MustFail /\ ProbeFails) /\ WF_vars(ProbeCount)
    /\ WF_vars((CanWrite \/ MustFail) /\ BackgroundEnds)
    /\ WF_vars(LoopDone) /\ WF_vars(LoopClose) /\ WF_vars(LoopWait)
    /\ WF_vars(stalled >= 2 * MuxTimeout /\ MuxTimesOut)
    /\ SF_vars(Tick)

FairSpec == Spec /\ Fairness

---------------------------------------------------------------------------
(* Properties *)

TypeOK ==
    /\ loop \in {"run", "close", "wait", "redial"}
    /\ done \in BOOLEAN /\ sawPong \in BOOLEAN /\ tick \in BOOLEAN
    /\ stream \in {"open", "closed", "dead"}
    /\ path \in {"ok", "wedged", "full"}
    /\ writer \in {"select", "lock", "write", "exit"}
    /\ reader \in {"read", "pong", "exit"}
    /\ prober \in {"select", "lock", "write", "count", "exit"}
    /\ wmu \in {"free", "writer", "prober", "background"}
    /\ misses \in 0..DeadMisses /\ unanswered \in 0..DeadMisses
    /\ queue \in 0..QueueCap
    /\ stalled \in 0..(2 * MuxTimeout)

(* The prober never believes more pings lost than were, but for the one it *)
(* counts after the answer has come.                                       *)
MissesAreReal ==
    misses <= unanswered + 1

(* As long as writes do not block, a wedged path is given up within        *)
(* DeadMisses + 1 intervals, once a pong has shown that the server answers. *)
DetectedIfWritable ==
    (loop = "run" /\ sawPong /\ path = "wedged") => stalled <= DeadMisses + 1

(* A session whose path is wedged or whose stream is closed comes to an    *)
(* end: nobody waits for a writer that is stuck in a write.                *)
SessionEnds ==
    (path # "ok" \/ stream = "dead") ~> loop = "redial"

(* "probeDeadMisses consecutive unanswered pings declares the path wedged  *)
(* and tears the session down - far faster than" the backstops.            *)
Detected ==
    (loop = "run" /\ sawPong /\ path # "ok") => stalled <= DeadMisses + 1
=============================================================================
