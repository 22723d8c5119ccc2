------------------------------ MODULE DtlsRecv ------------------------------
(***************************************************************************)
(* The receive engine of impl::DtlsTransport, as built with OpenSSL        *)
(* (src/src/impl/dtlstransport.cpp): datagrams of the lower layer go into  *)
(* mIncomingQueue, and doRecv(), run by any worker of the thread pool and  *)
(* by handshake timers, drains it under mRecvMutex.  enqueueRecv() avoids  *)
(* a second task when one is pending.  stop() and TLS alerts stop the      *)
(* queue; the doRecv() that finds it drained ends the transport.           *)
(*                                                                         *)
(* Datagrams are numbered by arrival; the ICE transport below passes no    *)
(* null message.  OpenSSL is modelled from its use: the handshake          *)
(* completes with the Flights-th handshake datagram, and a datagram yields *)
(* at most one message.                                                    *)
(***************************************************************************)
EXTENDS Integers, SequencesExt

CONSTANTS
    Datagrams,              \* bound on the datagrams that arrive
    Kinds,                  \* the kinds of datagrams that arrive, among
                            \* "handshake", "data", "close" and "bad"
    Flights,                \* handshake datagrams that complete the handshake
    MaxTimeouts             \* bound on the retransmission timers that fire

ASSUME DatagramAssumption ==
    /\ Datagrams \in Nat
    /\ Kinds \subseteq {"handshake", "data", "close", "bad"}
    /\ Flights \in Nat \ {0}
    /\ MaxTimeouts \in Nat

VARIABLES
    dtlsState,              \* state()
    kind,                   \* kinds of the datagrams received, by arrival
    mIncomingQueue,         \* arrival numbers of the datagrams in it
    mStopping,              \* of the queue
    mPendingRecvCount,
    pooled,                 \* doRecv tasks enqueued that have not begun
    fired,                  \* doRecv calls of timers that have not begun
    timers,                 \* timers scheduled that have not fired
    timeouts,               \* timers that have fired
    recv,                   \* the doRecv() that holds mRecvMutex
    flights,                \* handshake datagrams processed
    ice,                    \* the lower layer's thread in incoming()
    starter,                \* the thread in start()
    stopper,                \* the thread in stop()
    delivered,              \* data passed to the upper layer, by arrival number
    ended                   \* recv(nullptr) calls

dtlsVars == <<dtlsState, kind, mIncomingQueue, mStopping, mPendingRecvCount, pooled, fired,
              timers, timeouts, recv, flights, ice, starter, stopper, delivered, ended>>

queue == <<mIncomingQueue, mStopping>>
counts == <<mPendingRecvCount, pooled, fired>>
clock == <<timers, timeouts>>
threads == <<ice, starter, stopper>>
upper == <<delivered, ended>>

DtlsTypeOK ==
    /\ dtlsState \in {"Disconnected", "Connecting", "Connected", "Failed"}
    /\ kind \in Seq(Kinds)
    /\ mIncomingQueue \in Seq(1..Datagrams)
    /\ mStopping \in BOOLEAN
    /\ mPendingRecvCount \in -MaxTimeouts..1
    /\ {pooled, fired, timers, timeouts, flights, ended} \subseteq Nat
    /\ recv \in {"none", "test", "pop", "finish"}
    /\ ice \in {"out", "pushed", "checked"}
    /\ starter \in {"new", "registered", "connecting", "stopping", "done"}
    /\ stopper \in {"out", "unregistered", "stopped", "checked", "done"}
    /\ delivered \in Seq(1..Datagrams)

DtlsInit ==
    /\ dtlsState = "Disconnected"
    /\ kind = <<>>
    /\ mIncomingQueue = <<>>
    /\ mStopping = FALSE
    /\ mPendingRecvCount = 0
    /\ pooled = 0
    /\ fired = 0
    /\ timers = 0
    /\ timeouts = 0
    /\ recv = "none"
    /\ flights = 0
    /\ ice = "out"
    /\ starter = "new"
    /\ stopper = "out"
    /\ delivered = <<>>
    /\ ended = 0

-----------------------------------------------------------------------------
Running == mIncomingQueue # <<>> \/ ~mStopping

\* start(): incoming() is registered before the state changes.
StartRegister ==
    /\ starter = "new"
    /\ starter' = "registered"
    /\ UNCHANGED <<dtlsState, kind, queue, counts, clock, recv, flights, ice, stopper, upper>>

StartConnecting ==
    /\ starter = "registered"
    /\ starter' = "connecting"
    /\ dtlsState' = "Connecting"
    /\ UNCHANGED <<kind, queue, counts, clock, recv, flights, ice, stopper, upper>>

\* handleTimeout(): retransmits, and schedules another timer if the handshake
\* waits for the peer.
HandleTimeout == timers' \in {timers, timers + 1} /\ UNCHANGED timeouts

\* The handshake is initiated.
StartHandshake ==
    /\ starter = "connecting"
    /\ starter' = IF stopper = "out" THEN "done" ELSE "stopping"
    /\ HandleTimeout
    /\ UNCHANGED <<dtlsState, kind, queue, counts, recv, flights, ice, stopper, upper>>

\* A transport that was stopped while it started is stopped again by the thread
\* that started it (emplaceTransport, peerconnection.cpp:121-138).
StopAgain ==
    /\ starter = "stopping"
    /\ stopper = "done"
    /\ starter' = "done"
    /\ stopper' = "unregistered"
    /\ UNCHANGED <<dtlsState, kind, queue, counts, clock, recv, flights, ice, upper>>

\* A datagram arrives: it is queued, or dropped if the queue was stopped.
Incoming(k) ==
    /\ starter # "new"
    /\ ice = "out"
    /\ stopper = "out"
    /\ Len(kind) < Datagrams
    /\ kind' = Append(kind, k)
    /\ mIncomingQueue' = IF mStopping THEN mIncomingQueue ELSE Append(mIncomingQueue, Len(kind) + 1)
    /\ ice' = "pushed"
    /\ UNCHANGED <<dtlsState, mStopping, counts, clock, recv, flights, starter, stopper, upper>>

LowerCheck_Always ==
    /\ ice = "pushed"
    /\ ice' = "checked"
    /\ UNCHANGED <<dtlsState, kind, queue, counts, clock, recv, flights, starter, stopper, upper>>

\* enqueueRecv() tests the count ...
LowerCheck ==
    /\ ice = "pushed"
    /\ ice' = IF mPendingRecvCount > 0 THEN "out" ELSE "checked"
    /\ UNCHANGED <<dtlsState, kind, queue, counts, clock, recv, flights, starter, stopper, upper>>

\* ... then increments it and enqueues doRecv.
EnqueueDoRecv ==
    /\ mPendingRecvCount' = mPendingRecvCount + 1
    /\ pooled' = pooled + 1
    /\ UNCHANGED fired

LowerEnqueue ==
    /\ ice = "checked"
    /\ ice' = "out"
    /\ EnqueueDoRecv
    /\ UNCHANGED <<dtlsState, kind, queue, clock, recv, flights, starter, stopper, upper>>

\* stop(): unregisters incoming(), which waits for the lower thread to leave it,
\* stops the queue, and has doRecv end the transport.
StopUnregister ==
    /\ starter # "new"
    /\ stopper = "out"
    /\ ice = "out"
    /\ stopper' = "unregistered"
    /\ UNCHANGED <<dtlsState, kind, queue, counts, clock, recv, flights, ice, starter, upper>>

StopQueue ==
    /\ stopper = "unregistered"
    /\ stopper' = "stopped"
    /\ mStopping' = TRUE
    /\ UNCHANGED <<dtlsState, kind, mIncomingQueue, counts, clock, recv, flights, ice, starter,
                   upper>>

StopCheck ==
    /\ stopper = "stopped"
    /\ stopper' = IF mPendingRecvCount > 0 THEN "done" ELSE "checked"
    /\ UNCHANGED <<dtlsState, kind, queue, counts, clock, recv, flights, ice, starter, upper>>

StopEnqueue_Never ==
    /\ stopper = "checked"
    /\ stopper' = "done"
    /\ UNCHANGED <<dtlsState, kind, queue, counts, clock, recv, flights, ice, starter, upper>>

StopEnqueue ==
    /\ stopper = "checked"
    /\ stopper' = "done"
    /\ EnqueueDoRecv
    /\ UNCHANGED <<dtlsState, kind, queue, clock, recv, flights, ice, starter, upper>>

\* A timer fires on the pool and calls doRecv() without having counted it.
TimerFires ==
    /\ timers > 0
    /\ timeouts < MaxTimeouts
    /\ timers' = timers - 1
    /\ timeouts' = timeouts + 1
    /\ fired' = fired + 1
    /\ UNCHANGED <<dtlsState, kind, queue, mPendingRecvCount, pooled, recv, flights, threads,
                   upper>>

RecvBegin_NoCount ==
    /\ recv = "none"
    /\ \/ pooled > 0 /\ pooled' = pooled - 1 /\ UNCHANGED fired
       \/ fired > 0 /\ fired' = fired - 1 /\ UNCHANGED pooled
    /\ recv' = IF dtlsState \in {"Connecting", "Connected"} THEN "test" ELSE "none"
    /\ UNCHANGED <<dtlsState, kind, queue, mPendingRecvCount, clock, flights, threads, upper>>

\* doRecv() takes mRecvMutex and decrements the count; it returns at once unless
\* the transport is connecting or connected.
RecvBegin ==
    /\ recv = "none"
    /\ \/ pooled > 0 /\ pooled' = pooled - 1 /\ UNCHANGED fired
       \/ fired > 0 /\ fired' = fired - 1 /\ UNCHANGED pooled
    /\ mPendingRecvCount' = mPendingRecvCount - 1
    /\ recv' = IF dtlsState \in {"Connecting", "Connected"} THEN "test" ELSE "none"
    /\ UNCHANGED <<dtlsState, kind, queue, clock, flights, threads, upper>>

RecvTest_AtOnce ==
    /\ recv = "test"
    /\ recv' = IF mStopping THEN "finish" ELSE "pop"
    /\ UNCHANGED <<dtlsState, kind, queue, counts, clock, flights, threads, upper>>

\* The loop goes on while the queue is running.
RecvTest ==
    /\ recv = "test"
    /\ recv' = IF Running THEN "pop" ELSE "finish"
    /\ UNCHANGED <<dtlsState, kind, queue, counts, clock, flights, threads, upper>>

\* Nothing to pop: handle the timeout if connecting, which may have expired the
\* handshake, and return.
RecvEmpty ==
    /\ recv = "pop"
    /\ mIncomingQueue = <<>>
    /\ \/ dtlsState = "Connecting" /\ HandleTimeout /\ recv' = "none"
       \/ dtlsState = "Connecting" /\ UNCHANGED clock /\ recv' = "finish"
       \/ dtlsState = "Connected" /\ UNCHANGED clock /\ recv' = "none"
    /\ UNCHANGED <<dtlsState, kind, queue, counts, flights, threads, upper>>

\* A datagram of the handshake; the last one completes it.
RecvHandshake ==
    /\ flights' = flights + 1
    /\ dtlsState' = IF dtlsState = "Connecting" /\ flights + 1 >= Flights THEN "Connected"
                                                                      ELSE dtlsState
    /\ recv' = "test"
    /\ UNCHANGED <<mStopping, upper>>

\* Data reaches the upper layer once connected; before, OpenSSL discards it.
RecvData(n) ==
    /\ delivered' = IF dtlsState = "Connected" THEN Append(delivered, n) ELSE delivered
    /\ recv' = "test"
    /\ UNCHANGED <<dtlsState, mStopping, flights, ended>>

\* A close notify: the info callback stops the queue; SSL_read() reports the end
\* of a connected transport, SSL_do_handshake() fails on a connecting one.
RecvClose ==
    /\ mStopping' = TRUE
    /\ recv' = "finish"
    /\ UNCHANGED <<dtlsState, flights, upper>>

\* A datagram that OpenSSL rejects: the handshake fails; once connected, an
\* invalid record is ignored.
RecvBad ==
    /\ recv' = IF dtlsState = "Connecting" THEN "finish" ELSE "test"
    /\ UNCHANGED <<dtlsState, mStopping, flights, upper>>

RecvPop_Newest ==
    /\ recv = "pop"
    /\ mIncomingQueue # <<>>
    /\ mIncomingQueue' = Front(mIncomingQueue)
    /\ LET n == Last(mIncomingQueue) IN
          \/ kind[n] = "handshake" /\ RecvHandshake
          \/ kind[n] = "data" /\ RecvData(n)
          \/ kind[n] = "close" /\ RecvClose
          \/ kind[n] = "bad" /\ RecvBad
    /\ UNCHANGED <<kind, counts, clock, threads>>

\* The next datagram is popped and goes through OpenSSL.
RecvPop ==
    /\ recv = "pop"
    /\ mIncomingQueue # <<>>
    /\ mIncomingQueue' = Tail(mIncomingQueue)
    /\ LET n == Head(mIncomingQueue) IN
          \/ kind[n] = "handshake" /\ RecvHandshake
          \/ kind[n] = "data" /\ RecvData(n)
          \/ kind[n] = "close" /\ RecvClose
          \/ kind[n] = "bad" /\ RecvBad
    /\ UNCHANGED <<kind, counts, clock, threads>>

\* The end: a connected transport is disconnected, and the upper layer told by a
\* null message; another one has failed.
RecvFinish ==
    /\ recv = "finish"
    /\ recv' = "none"
    /\ dtlsState' = IF dtlsState = "Connected" THEN "Disconnected" ELSE "Failed"
    /\ ended' = IF dtlsState = "Connected" THEN ended + 1 ELSE ended
    /\ UNCHANGED <<kind, queue, counts, clock, flights, threads, delivered>>

RecvStep == RecvTest \/ RecvEmpty \/ RecvPop \/ RecvFinish

DtlsNext ==
    \/ StartRegister
    \/ StartConnecting
    \/ StartHandshake
    \/ StopAgain
    \/ \E k \in Kinds : Incoming(k)
    \/ LowerCheck
    \/ LowerEnqueue
    \/ StopUnregister
    \/ StopQueue
    \/ StopCheck
    \/ StopEnqueue
    \/ TimerFires
    \/ RecvBegin
    \/ RecvStep

\* Threads that have begun a call go on, and the pool runs what was enqueued; no
\* datagram need arrive and no timer need be set.
DtlsFairness ==
    /\ WF_dtlsVars(StartConnecting) /\ WF_dtlsVars(StartHandshake) /\ WF_dtlsVars(StopAgain)
    /\ WF_dtlsVars(LowerCheck) /\ WF_dtlsVars(LowerEnqueue)
    /\ WF_dtlsVars(StopQueue) /\ WF_dtlsVars(StopCheck) /\ WF_dtlsVars(StopEnqueue)
    /\ WF_dtlsVars(RecvBegin) /\ WF_dtlsVars(RecvStep)

DtlsSpec == DtlsInit /\ [][DtlsNext]_dtlsVars /\ DtlsFairness

-----------------------------------------------------------------------------

\* Data reaches the upper layer in the order of arrival, each datagram once.
DeliveredInOrder == \A i \in 1..Len(delivered) - 1 : delivered[i] < delivered[i + 1]

\* The end is announced once, and then nothing is delivered; unless the peer
\* closes, what was received before stop() is processed before it.
EndDrains ==
    [][/\ ended' # ended =>
             /\ ended = 0
             /\ "close" \notin ToSet(kind) => mStopping /\ mIncomingQueue = <<>>
       /\ ended # 0 => delivered' = delivered]_dtlsVars

\* No wakeup is lost: a datagram that arrives when the transport is connecting
\* or connected is taken from the queue, or the transport ends.
Taken ==
    \A n \in 1..Datagrams :
        (n \in ToSet(mIncomingQueue) /\ ice = "pushed" /\ starter = "done")
            ~> (n \notin ToSet(mIncomingQueue) \/ dtlsState \in {"Disconnected", "Failed"})

\* A transport that was stopped ends, whenever stop() came.
StopEnds == (stopper # "out") ~> [](dtlsState \in {"Disconnected", "Failed"})

\* Several workers and timers process the queue, and never out of order.
RecvInv == DtlsTypeOK /\ DeliveredInOrder

\* Neither a datagram nor the end of the transport is forgotten.
RecvProgress == Taken /\ StopEnds
=============================================================================
