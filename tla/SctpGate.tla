------------------------------ MODULE SctpGate ------------------------------
(***************************************************************************)
(* The gate of impl::SctpTransport (src/src/impl/sctptransport.cpp): what   *)
(* the lower layer receives waits in incoming() until something was written *)
(* on our side (the local INIT) or the association failed, and whoever      *)
(* changes one of the two, the destructor included, wakes it up.            *)
(*                                                                          *)
(* mWrittenCondition belongs to mWriteMutex, but only handleWrite() holds   *)
(* that mutex when it notifies: close(), processNotification() and the      *)
(* destructor do not.                                                       *)
(***************************************************************************)
EXTENDS Naturals

CONSTANT Packets            \* bound on the packets received by the lower layer

ASSUME PacketsAssumption == Packets \in Nat

VARIABLES
    mState,                 \* state of the transport
    mWrittenOnce,
    written,                \* something really was written
    lower,                  \* the lower layer's thread, in or out of incoming()
    received,               \* packets it has passed to incoming()
    inWrite,                \* handleWrite() holds mWriteMutex
    registered,             \* the lower layer's callback is set
    closer,                 \* the thread in close()
    notif,                  \* the processor in processNotification()
    dtor                    \* progress of the destructor

gateVars ==
    <<mState, mWrittenOnce, written, lower, received, inWrite, registered, closer, notif, dtor>>

\* The lower thread tests the flag without the lock ("test"), takes mWriteMutex
\* ("lock"), has found the predicate false and holds the mutex still ("decided"),
\* waits ("waiting"), was woken ("woken"), and passes its packet on ("input").
LowerPhases == {"out", "test", "lock", "decided", "waiting", "woken", "input"}

\* With the mutual exclusion of mWriteMutex, which handleWrite holds while it
\* writes and the lower thread from its test of the predicate to its wait.
GateTypeOK ==
    /\ mState \in {"Connecting", "Connected", "Disconnected", "Failed"}
    /\ {mWrittenOnce, written, inWrite, registered} \subseteq BOOLEAN
    /\ lower \in LowerPhases
    /\ received \in 0..Packets
    /\ closer \in {"no", "begun", "tested", "notify", "done"}
    /\ notif \in {"no", "notify"}
    /\ dtor \in {"no", "notify", "unregister", "closed"}
    /\ ~(inWrite /\ lower = "decided")

GateInit ==
    /\ mState = "Connecting"
    /\ mWrittenOnce = FALSE
    /\ written = FALSE
    /\ lower = "out"
    /\ received = 0
    /\ inWrite = FALSE
    /\ registered = TRUE
    /\ closer = "no"
    /\ notif = "no"
    /\ dtor = "no"

-----------------------------------------------------------------------------
\* mWriteMutex is held by handleWrite, or by the lower thread between its test
\* of the predicate and its wait.
MutexFree == ~inWrite /\ lower # "decided"

\* mWrittenCondition.notify_all(): wakes the lower thread only if it waits.
NotifyAll == lower' = IF lower = "waiting" THEN "woken" ELSE lower

\* The lower layer receives: its recv() calls incoming() with the callback's
\* recursive mutex held, which it keeps until incoming() returns.
Receive ==
    /\ registered
    /\ lower = "out"
    /\ received < Packets
    /\ received' = received + 1
    /\ lower' = "test"
    /\ UNCHANGED <<mState, mWrittenOnce, written, inWrite, registered, closer, notif, dtor>>

TestOnce_Skip ==
    /\ lower = "test"
    /\ lower' = "input"
    /\ UNCHANGED <<mState, mWrittenOnce, written, received, inWrite, registered, closer, notif, dtor>>

\* incoming() tests the atomic flag before it takes the lock.
TestOnce ==
    /\ lower = "test"
    /\ lower' = IF mWrittenOnce THEN "input" ELSE "lock"
    /\ UNCHANGED <<mState, mWrittenOnce, written, received, inWrite, registered, closer, notif, dtor>>

\* wait() evaluates its predicate under mWriteMutex, at first or when woken.
Evaluate ==
    /\ lower \in {"lock", "woken"}
    /\ MutexFree
    /\ lower' = IF mWrittenOnce \/ mState = "Failed" THEN "input" ELSE "decided"
    /\ UNCHANGED <<mState, mWrittenOnce, written, received, inWrite, registered, closer, notif, dtor>>

\* wait() releases the mutex and blocks.
Block ==
    /\ lower = "decided"
    /\ lower' = "waiting"
    /\ UNCHANGED <<mState, mWrittenOnce, written, received, inWrite, registered, closer, notif, dtor>>

\* incoming() returns, after usrsctp_conninput() unless the state is Failed.
\* A null message, the end of the lower layer, disconnects the transport.
Input ==
    /\ lower = "input"
    /\ lower' = "out"
    /\ mState' \in IF mState = "Failed" THEN {mState} ELSE {mState, "Disconnected"}
    /\ UNCHANGED <<mWrittenOnce, written, received, inWrite, registered, closer, notif, dtor>>

WriteBegin_NoLock ==
    /\ dtor # "closed"
    /\ inWrite' = TRUE
    /\ UNCHANGED <<mState, mWrittenOnce, written, lower, received, registered, closer, notif, dtor>>

\* handleWrite() takes mWriteMutex and calls the lower layer.
WriteBegin ==
    /\ dtor # "closed"
    /\ MutexFree
    /\ inWrite' = TRUE
    /\ UNCHANGED <<mState, mWrittenOnce, written, lower, received, registered, closer, notif, dtor>>

\* The lower layer may fail to send; otherwise the flags are set and the lower
\* thread is notified, under the mutex.
WriteEnd ==
    /\ inWrite
    /\ inWrite' = FALSE
    /\ \/ UNCHANGED <<mWrittenOnce, written, lower>>
       \/ mWrittenOnce' = TRUE /\ written' = TRUE /\ NotifyAll
    /\ UNCHANGED <<mState, received, registered, closer, notif, dtor>>

\* processNotification: the association comes up, once something was written;
\* or it ends, and the thread is about to notify.
CommUp ==
    /\ dtor = "no"
    /\ notif = "no"
    /\ written
    /\ mState = "Connecting"
    /\ mState' = "Connected"
    /\ UNCHANGED <<mWrittenOnce, written, lower, received, inWrite, registered, closer, notif, dtor>>

CommEnd ==
    /\ dtor = "no"
    /\ notif = "no"
    /\ mState \in {"Connecting", "Connected"}
    /\ mState' = IF mState = "Connected" THEN "Disconnected" ELSE "Failed"
    /\ notif' = "notify"
    /\ UNCHANGED <<mWrittenOnce, written, lower, received, inWrite, registered, closer, dtor>>

CommEndNotify ==
    /\ notif = "notify"
    /\ notif' = "no"
    /\ NotifyAll
    /\ UNCHANGED <<mState, mWrittenOnce, written, received, inWrite, registered, closer, dtor>>

\* close(): tests the state, shuts down and sets Failed if it was Connecting,
\* and notifies.
CloseBegin ==
    /\ closer = "no"
    /\ dtor = "no"
    /\ closer' = IF mState = "Connecting" THEN "tested" ELSE "done"
    /\ UNCHANGED <<mState, mWrittenOnce, written, lower, received, inWrite, registered, notif, dtor>>

CloseFail ==
    /\ closer = "tested"
    /\ mState' = "Failed"
    /\ closer' = "notify"
    /\ UNCHANGED <<mWrittenOnce, written, lower, received, inWrite, registered, notif, dtor>>

CloseNotify ==
    /\ closer = "notify"
    /\ closer' = "done"
    /\ NotifyAll
    /\ UNCHANGED <<mState, mWrittenOnce, written, received, inWrite, registered, notif, dtor>>

\* ~SctpTransport, when no other thread holds the object and the processor is
\* empty: sets the flag ...
DtorFlag ==
    /\ dtor = "no"
    /\ closer \in {"no", "done"}
    /\ notif = "no"
    /\ mWrittenOnce' = TRUE
    /\ dtor' = "notify"
    /\ UNCHANGED <<mState, written, lower, received, inWrite, registered, closer, notif>>

\* ... notifies ...
DtorNotify ==
    /\ dtor = "notify"
    /\ dtor' = "unregister"
    /\ NotifyAll
    /\ UNCHANGED <<mState, mWrittenOnce, written, received, inWrite, registered, closer, notif>>

\* ... and unregisters incoming(), for which it waits until the lower thread has
\* left the callback, before it closes the socket.
DtorUnregister ==
    /\ dtor = "unregister"
    /\ lower = "out"
    /\ ~inWrite
    /\ dtor' = "closed"
    /\ registered' = FALSE
    /\ UNCHANGED <<mState, mWrittenOnce, written, lower, received, inWrite, closer, notif>>

LowerStep == TestOnce \/ Evaluate \/ Block \/ Input

GateNext ==
    \/ Receive
    \/ LowerStep
    \/ WriteBegin
    \/ WriteEnd
    \/ CommUp
    \/ CommEnd
    \/ CommEndNotify
    \/ CloseBegin
    \/ CloseFail
    \/ CloseNotify
    \/ DtorFlag
    \/ DtorNotify
    \/ DtorUnregister

GateSpec == GateInit /\ [][GateNext]_gateVars

-----------------------------------------------------------------------------
\* "we need to wait for data to be sent on our side (i.e. the local INIT) before
\* proceeding" (sctptransport.cpp:442-444): no packet is passed to usrsctp before
\* something was written, unless the association failed or is being destroyed.
InputAfterWrite == lower = "input" => written \/ mState = "Failed" \/ dtor # "no"

\* handleWrite() loses no wakeup: once something was written, nobody waits.
WriteWakes == lower = "waiting" => ~written
=============================================================================
