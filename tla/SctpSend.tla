------------------------------ MODULE SctpSend ------------------------------
(***************************************************************************)
(* The sending half of impl::SctpTransport (src/src/impl/sctptransport.cpp)*)
(* with the send queue it stops on close (queue.hpp): messages and stream  *)
(* resets go straight to usrsctp when nothing is queued and it accepts     *)
(* them, and through mSendQueue otherwise; upcalls and close() have the    *)
(* queue flushed on the processor.                                         *)
(*                                                                         *)
(* mSendMutex is recursive because the buffered-amount callback is called  *)
(* with it held, and the application may send again from the callback: the *)
(* calls in progress under the mutex are a stack of frames.  usrsctp is    *)
(* modelled from its use: a send buffer of bounded size that the peer's    *)
(* acknowledgements drain, each followed by an upcall on one of its        *)
(* threads.                                                                *)
(***************************************************************************)
EXTENDS Integers, SequencesExt, FiniteSetsExt

CONSTANTS
    NoItem,                 \* the item of a frame that flushes only
    Items,                  \* everything that may be sent, each at most once
    Resets,                 \* the items that are resets of a stream
    StreamOf,               \* the stream of each item
    SizeOf,                 \* what message_size_func returns for it: 0 for
                            \* resets and control messages
    Capacity,               \* number of messages the SCTP send buffer holds
    Upcallers,              \* threads of usrsctp that may call the upcall
    MaxDepth                \* bound on the nesting of sends in callbacks

ASSUME ItemAssumption ==
    /\ NoItem \notin Items
    /\ Resets \subseteq Items
    /\ SizeOf \in [Items -> Nat]
    /\ \A r \in Resets : SizeOf[r] = 0
    /\ Capacity \in Nat \ {0}
    /\ MaxDepth \in Nat \ {0}

Streams == {StreamOf[m] : m \in Items}

VARIABLES
    state,                  \* state of the transport
    mSendQueue,
    stopped,                \* mStopping of mSendQueue
    mSendShutdown,
    mBufferedAmount,        \* per stream, 0 when it has no entry
    mPendingFlushCount,
    tasks,                  \* flush() and doFlush() tasks of mProcessor, in order
    stack,                  \* frames of the calls in progress under mSendMutex
    sndbuf,                 \* messages in the send buffer of usrsctp
    upcall,                 \* what each thread of usrsctp does
    closing,                \* close() is between its two statements
    wire,                   \* items handed to usrsctp, in order
    committed,              \* items sent directly or queued, in order
    result                  \* what send() did of each item

vars == <<state, mSendQueue, stopped, mSendShutdown, mBufferedAmount, mPendingFlushCount,
          tasks, stack, sndbuf, upcall, closing, wire, committed, result>>

\* A frame is a call of send(item) or of a flush; cb says that it is in the
\* buffered-amount callback, to return to the loop of trySendQueue ("loop") or
\* to the caller of send ("exit").
Frames == [item : Items \cup {NoItem}, cb : {"no", "loop", "exit"}]

TypeOK ==
    /\ state \in {"Connecting", "Connected", "Disconnected", "Failed"}
    /\ mSendQueue \in Seq(Items)
    /\ {stopped, mSendShutdown, closing} \subseteq BOOLEAN
    /\ mBufferedAmount \in [Streams -> Nat]
    /\ mPendingFlushCount \in Nat
    /\ tasks \in Seq({"flush", "doFlush"})
    /\ stack \in Seq(Frames)
    /\ sndbuf \in Seq(Items \ Resets)
    /\ upcall \in [Upcallers -> {"idle", "event", "checked"}]
    /\ wire \in Seq(Items)
    /\ committed \in Seq(Items)
    /\ result \in [Items -> {"none", "calling", "true", "false", "refused", "dropped", "thrown"}]

Init ==
    /\ state = "Connecting"
    /\ mSendQueue = <<>>
    /\ stopped = FALSE
    /\ mSendShutdown = FALSE
    /\ mBufferedAmount = [s \in Streams |-> 0]
    /\ mPendingFlushCount = 0
    /\ tasks = <<>>
    /\ stack = <<>>
    /\ sndbuf = <<>>
    /\ upcall = [u \in Upcallers |-> "idle"]
    /\ closing = FALSE
    /\ wire = <<>>
    /\ committed = <<>>
    /\ result = [m \in Items |-> "none"]

-----------------------------------------------------------------------------
usrsctp == <<sndbuf, upcall>>
close == <<stopped, closing>>

Frame(m, cb) == [item |-> m, cb |-> cb]
Active == Last(stack)
Return == stack' = Front(stack)
In(cb) == stack # <<>> /\ Active.cb = cb

\* Whether usrsctp takes the item now; a reset does not use the send buffer.
Accepts(m) == m \in Resets \/ Len(sndbuf) < Capacity

\* trySendMessage succeeds: usrsctp has the item.
Transmit(m) ==
    /\ wire' = Append(wire, m)
    /\ sndbuf' = IF m \in Resets THEN sndbuf ELSE Append(sndbuf, m)

\* updateBufferedAmount: a change is reported by the callback, from which the
\* frame goes on to cb; without a change the frame becomes as given.
UpdateBufferedAmount(m, delta, cb, otherwise) ==
    /\ mBufferedAmount' = [mBufferedAmount EXCEPT
                              ![StreamOf[m]] = IF @ + delta < 0 THEN 0 ELSE @ + delta]
    /\ stack' = IF delta = 0 THEN otherwise
                ELSE Append(Front(stack), Frame(Active.item, cb))

\* A send() takes mSendMutex: from an application thread when nobody holds it,
\* or from the buffered-amount callback on the thread that does.  It returns
\* false at once unless connected.  A channel gets its transport when the
\* association is up, so that send() is not called before.
Send(m) ==
    /\ m \notin Resets
    /\ state # "Connecting"
    /\ result[m] = "none"
    /\ \/ stack = <<>>
       \/ ~In("no") /\ Len(stack) < MaxDepth
    /\ \/ /\ state # "Connected"
          /\ result' = [result EXCEPT ![m] = "refused"]
          /\ UNCHANGED stack
       \/ /\ state = "Connected"
          /\ result' = [result EXCEPT ![m] = "calling"]
          /\ stack' = Append(stack, Frame(m, "no"))
    /\ UNCHANGED <<state, mSendQueue, mSendShutdown, mBufferedAmount, mPendingFlushCount,
                   tasks, usrsctp, close, wire, committed>>

\* The callback returns, to the loop of trySendQueue or to the end of send().
CallbackReturn ==
    /\ \/ /\ In("loop")
          /\ stack' = Append(Front(stack), Frame(Active.item, "no"))
       \/ /\ In("exit")
          /\ Return
    /\ UNCHANGED <<state, mSendQueue, mSendShutdown, mBufferedAmount, mPendingFlushCount,
                   tasks, usrsctp, close, wire, committed, result>>

LoopSend_NoPop ==
    /\ In("no")
    /\ mSendQueue # <<>>
    /\ state = "Connected"
    /\ Accepts(Head(mSendQueue))
    /\ Transmit(Head(mSendQueue))
    /\ UpdateBufferedAmount(Head(mSendQueue), -SizeOf[Head(mSendQueue)], "loop", stack)
    /\ UNCHANGED <<state, mSendQueue, mSendShutdown, mPendingFlushCount, tasks, upcall, close,
                   committed, result>>

\* trySendQueue sends the head of the queue, pops it and updates the amount.
LoopSend ==
    /\ In("no")
    /\ mSendQueue # <<>>
    /\ state = "Connected"
    /\ Accepts(Head(mSendQueue))
    /\ Transmit(Head(mSendQueue))
    /\ mSendQueue' = Tail(mSendQueue)
    /\ UpdateBufferedAmount(Head(mSendQueue), -SizeOf[Head(mSendQueue)], "loop", stack)
    /\ UNCHANGED <<state, mSendShutdown, mPendingFlushCount, tasks, upcall, close,
                   committed, result>>

Enqueue_NoAmount(m) ==
    /\ \/ /\ stopped
          /\ result' = [result EXCEPT ![m] = "dropped"]
          /\ UNCHANGED <<mSendQueue, committed>>
       \/ /\ ~stopped
          /\ mSendQueue' = Append(mSendQueue, m)
          /\ committed' = Append(committed, m)
          /\ result' = [result EXCEPT ![m] = "false"]
    /\ Return
    /\ UNCHANGED mBufferedAmount

\* send() queues its message.  Queue::push drops it when the queue was stopped;
\* the buffered amount grows all the same.
Enqueue(m) ==
    /\ \/ /\ stopped
          /\ result' = [result EXCEPT ![m] = "dropped"]
          /\ UNCHANGED <<mSendQueue, committed>>
       \/ /\ ~stopped
          /\ mSendQueue' = Append(mSendQueue, m)
          /\ committed' = Append(committed, m)
          /\ result' = [result EXCEPT ![m] = "false"]
    /\ UpdateBufferedAmount(m, SizeOf[m], "exit", Front(stack))

\* trySendQueue fails: the head of the queue cannot be sent.
LoopBlocked ==
    /\ In("no")
    /\ mSendQueue # <<>>
    /\ state # "Connected" \/ ~Accepts(Head(mSendQueue))
    /\ IF Active.item = NoItem
       THEN Return /\ UNCHANGED <<mSendQueue, mBufferedAmount, committed, result>>
       ELSE Enqueue(Active.item)
    /\ UNCHANGED <<state, mSendShutdown, mPendingFlushCount, tasks, usrsctp, close, wire>>

\* The queue is empty: if it was stopped, the association is shut down, once.
\* Then a flush returns, and send() tries its message directly.  (A shutdown that
\* fails disconnects: Disconnect covers it.)
LoopDone ==
    /\ In("no")
    /\ mSendQueue = <<>>
    /\ mSendShutdown' = (mSendShutdown \/ stopped)
    /\ \/ /\ Active.item = NoItem
          /\ Return
          /\ UNCHANGED <<mSendQueue, mBufferedAmount, sndbuf, wire, committed, result>>
       \/ /\ Active.item # NoItem
          /\ state = "Connected"
          /\ mSendShutdown'
          /\ result' = [result EXCEPT ![Active.item] = "thrown"]
          /\ Return
          /\ UNCHANGED <<mSendQueue, mBufferedAmount, sndbuf, wire, committed>>
       \/ /\ Active.item # NoItem
          /\ state = "Connected"
          /\ ~mSendShutdown'
          /\ Accepts(Active.item)
          /\ Transmit(Active.item)
          /\ committed' = Append(committed, Active.item)
          /\ result' = [result EXCEPT ![Active.item] = "true"]
          /\ Return
          /\ UNCHANGED <<mSendQueue, mBufferedAmount>>
       \/ /\ Active.item # NoItem
          /\ state # "Connected" \/ (~mSendShutdown' /\ ~Accepts(Active.item))
          /\ Enqueue(Active.item)
          /\ UNCHANGED <<sndbuf, wire>>
    /\ UNCHANGED <<state, mPendingFlushCount, tasks, upcall, close>>

\* closeStream queues a reset, unless the queue was stopped, and has it flushed.
\* Its callers have an open channel or a received message: it is not called
\* before the association is up.
CloseStream(r) ==
    /\ r \in Resets
    /\ state # "Connecting"
    /\ result[r] = "none"
    /\ stack = <<>>
    /\ \/ /\ stopped
          /\ result' = [result EXCEPT ![r] = "dropped"]
          /\ UNCHANGED <<mSendQueue, committed>>
       \/ /\ ~stopped
          /\ mSendQueue' = Append(mSendQueue, r)
          /\ committed' = Append(committed, r)
          /\ result' = [result EXCEPT ![r] = "false"]
    /\ tasks' = Append(tasks, "flush")
    /\ UNCHANGED <<state, mSendShutdown, mBufferedAmount, mPendingFlushCount, stack, usrsctp,
                   close, wire>>

CloseStop_Shutdown ==
    /\ ~stopped
    /\ stopped' = TRUE
    /\ closing' = TRUE
    /\ mSendShutdown' = TRUE
    /\ UNCHANGED <<state, mSendQueue, mBufferedAmount, mPendingFlushCount,
                   tasks, stack, usrsctp, wire, committed, result>>

\* close(), its first statement: mSendQueue.stop().
CloseStop ==
    /\ ~stopped
    /\ stopped' = TRUE
    /\ closing' = TRUE
    /\ UNCHANGED <<state, mSendQueue, mSendShutdown, mBufferedAmount, mPendingFlushCount,
                   tasks, stack, usrsctp, wire, committed, result>>

CloseFlush_Never ==
    /\ closing
    /\ closing' = FALSE
    /\ UNCHANGED <<state, mSendQueue, stopped, mSendShutdown, mBufferedAmount,
                   mPendingFlushCount, tasks, stack, usrsctp, wire, committed, result>>

\* close(), the rest: have the queue flushed, or fail an early association.
CloseFlush ==
    /\ closing
    /\ closing' = FALSE
    /\ tasks' = IF state = "Connected" THEN Append(tasks, "flush") ELSE tasks
    /\ state' = IF state = "Connecting" THEN "Failed" ELSE state
    /\ UNCHANGED <<mSendQueue, stopped, mSendShutdown, mBufferedAmount, mPendingFlushCount,
                   stack, usrsctp, wire, committed, result>>

\* The processor runs flush(), which does nothing unless connected, or doFlush().
RunFlush ==
    /\ tasks # <<>>
    /\ stack = <<>>
    /\ tasks' = Tail(tasks)
    /\ \/ /\ Head(tasks) = "flush"
          /\ stack' = IF state = "Connected" THEN <<Frame(NoItem, "no")>> ELSE <<>>
          /\ UNCHANGED mPendingFlushCount
       \/ /\ Head(tasks) = "doFlush"
          /\ stack' = <<Frame(NoItem, "no")>>
          /\ mPendingFlushCount' = mPendingFlushCount - 1
    /\ UNCHANGED <<state, mSendQueue, mSendShutdown, mBufferedAmount, usrsctp, close, wire,
                   committed, result>>

-----------------------------------------------------------------------------
\* usrsctp: the peer acknowledges the oldest message; some thread calls the
\* upcall with SCTP_EVENT_WRITE, unless one is on its way already.
Acknowledge ==
    /\ state = "Connected"
    /\ sndbuf # <<>>
    /\ sndbuf' = Tail(sndbuf)
    /\ \/ \E u \in Upcallers : upcall[u] = "idle" /\ upcall' = [upcall EXCEPT ![u] = "event"]
       \/ (\E u \in Upcallers : upcall[u] = "event") /\ UNCHANGED upcall
       \/ (\A u \in Upcallers : upcall[u] = "checked") /\ UNCHANGED upcall
    /\ UNCHANGED <<state, mSendQueue, mSendShutdown, mBufferedAmount, mPendingFlushCount,
                   tasks, stack, close, wire, committed, result>>

\* enqueueFlush tests mPendingFlushCount ...
UpcallCheck(u) ==
    /\ upcall[u] = "event"
    /\ upcall' = [upcall EXCEPT ![u] = IF mPendingFlushCount > 0 THEN "idle" ELSE "checked"]
    /\ UNCHANGED <<state, mSendQueue, mSendShutdown, mBufferedAmount, mPendingFlushCount,
                   tasks, stack, sndbuf, close, wire, committed, result>>

UpcallEnqueue_NoCount(u) ==
    /\ upcall[u] = "checked"
    /\ upcall' = [upcall EXCEPT ![u] = "idle"]
    /\ tasks' = Append(tasks, "doFlush")
    /\ UNCHANGED <<state, mSendQueue, mSendShutdown, mBufferedAmount, mPendingFlushCount,
                   stack, sndbuf, close, wire, committed, result>>

UpcallEnqueue_Never(u) ==
    /\ upcall[u] = "checked"
    /\ upcall' = [upcall EXCEPT ![u] = "idle"]
    /\ mPendingFlushCount' = mPendingFlushCount + 1
    /\ UNCHANGED <<state, mSendQueue, mSendShutdown, mBufferedAmount, tasks,
                   stack, sndbuf, close, wire, committed, result>>

\* ... and only then counts and enqueues: the two are not one atomic step.
UpcallEnqueue(u) ==
    /\ upcall[u] = "checked"
    /\ upcall' = [upcall EXCEPT ![u] = "idle"]
    /\ mPendingFlushCount' = mPendingFlushCount + 1
    /\ tasks' = Append(tasks, "doFlush")
    /\ UNCHANGED <<state, mSendQueue, mSendShutdown, mBufferedAmount,
                   stack, sndbuf, close, wire, committed, result>>

\* processNotification, on another thread and without mSendMutex.
Connect ==
    /\ state = "Connecting"
    /\ state' = "Connected"
    /\ UNCHANGED <<mSendQueue, mSendShutdown, mBufferedAmount, mPendingFlushCount,
                   tasks, stack, usrsctp, close, wire, committed, result>>

\* The association is lost, or its shutdown, which waits for the send buffer to
\* be acknowledged, is complete.
Disconnect ==
    /\ state \in {"Connecting", "Connected"}
    /\ state' = IF state = "Connected" THEN "Disconnected" ELSE "Failed"
    /\ UNCHANGED <<mSendQueue, mSendShutdown, mBufferedAmount, mPendingFlushCount,
                   tasks, stack, usrsctp, close, wire, committed, result>>

SenderStep == CallbackReturn \/ LoopSend \/ LoopBlocked \/ LoopDone

Next ==
    \/ \E m \in Items : Send(m) \/ CloseStream(m)
    \/ SenderStep
    \/ CloseStop
    \/ CloseFlush
    \/ RunFlush
    \/ Acknowledge
    \/ \E u \in Upcallers : UpcallCheck(u) \/ UpcallEnqueue(u)
    \/ Connect
    \/ Disconnect

\* Calls in progress go on, callbacks return, the processor and the threads of
\* usrsctp run, and the peer acknowledges as long as the association lasts.
Fairness ==
    /\ WF_vars(SenderStep)
    /\ WF_vars(CloseFlush)
    /\ SF_vars(RunFlush)
    /\ WF_vars(Acknowledge)
    /\ \A u \in Upcallers : WF_vars(UpcallCheck(u)) /\ WF_vars(UpcallEnqueue(u))

Spec == Init /\ [][Next]_vars /\ Fairness

-----------------------------------------------------------------------------
Sum(s, ms) == MapThenSumSet(LAMBDA m : SizeOf[m], {m \in ms : StreamOf[m] = s})

\* Items reach usrsctp in the order in which they were accepted, each once,
\* whether sent directly, queued, or sent from a callback in the middle of a
\* flush: a direct send never overtakes the queue.
WireOrder ==
    /\ wire \o mSendQueue = committed
    /\ IsInjective(committed)

\* bufferedAmount(), the "total size buffered to send" (channel.hpp:34), is the
\* size of the queued messages of the stream, and of those that were sent after
\* close() had stopped the queue, which are lost but stay counted.
BufferedAccounted ==
    \A s \in Streams : mBufferedAmount[s] =
        Sum(s, ToSet(mSendQueue) \cup {m \in Items \ Resets : result[m] = "dropped"})

\* A graceful close: the association is shut down only when everything that
\* had been queued was handed to usrsctp.
ShutdownDrained == mSendShutdown => mSendQueue = <<>>

\* No wakeup is lost: whatever is queued is sent as long as the association
\* lasts.
QueueDrains ==
    \A m \in Items : (m \in ToSet(mSendQueue)) ~> (m \in ToSet(wire) \/ state # "Connected")

\* close() on a connected association leads to its shutdown.
CloseShutsDown == stopped ~> (mSendShutdown \/ state # "Connected")

\* The order of the queue and its end are sound.
SendInv == TypeOK /\ WireOrder /\ ShutdownDrained

\* Neither a queued message nor the shutdown behind it waits for ever.
SendProgress == QueueDrains /\ CloseShutsDown
=============================================================================
