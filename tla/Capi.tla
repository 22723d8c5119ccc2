-------------------------------- MODULE Capi --------------------------------
(***************************************************************************)
(* The C API (src/src/capi.cpp): integer handles for objects, one table    *)
(* per kind under one mutex, a user pointer per handle, and callbacks that *)
(* find their handle through that pointer.  Composed with what the handles *)
(* stand for: the callbacks of a channel (src/src/impl/channel.cpp), its   *)
(* receive queue, the announcement of incoming channels, and the           *)
(* destructors that run when a handle is erased.                           *)
(*                                                                         *)
(* Every thread has a stack of frames, innermost first.  A callback runs   *)
(* under its own recursive mutex (synchronized_callback): whoever assigns, *)
(* tests or calls it waits until no other thread is inside.                *)
(***************************************************************************)
EXTENDS CapiData, SequencesExt, FiniteSets

CONSTANTS
    App,                    \* threads of the application
    Net, Proc, Server,      \* the thread that receives, mProcessor of the peer
                            \* connection, and the thread of the WebSocketServer
    Objects, KindOf,        \* the objects that may get a handle, and their kinds
    Owner,                  \* what creates or announces each of them, itself otherwise
    Plans,                  \* what the application, its callbacks, and the
                            \* network do in one behaviour
    RecvQueueLimit,         \* RECV_QUEUE_LIMIT
    MessageSize,            \* of every message
    None

Threads == App \cup {Net, Proc, Server}
Kinds == {"pc", "dc", "track", "ws", "server"}
Channels == {o \in Objects : KindOf[o] \in {"dc", "track", "ws"}}
Tables == {"handler", "config", "reporter"}

ASSUME CapiAssumption ==
    /\ Cardinality(Threads) = Cardinality(App) + 3
    /\ IsFiniteSet(Objects)
    /\ KindOf \in [Objects -> Kinds] /\ Owner \in [Objects -> Objects]
    /\ \A o \in Objects :
          /\ KindOf[o] \in {"pc", "server"} => Owner[o] = o
          /\ KindOf[o] \in {"dc", "track"} => KindOf[Owner[o]] = "pc"
          /\ KindOf[o] = "ws" => Owner[o] = o \/ KindOf[Owner[o]] = "server"
    /\ RecvQueueLimit \in Nat \ {0} /\ MessageSize \in Nat
    /\ None \notin {"app", "lib", "announce", "create", "deleted"}

\* The callbacks of each kind, in the order in which they are reset.
Slots(kind) ==
    CASE kind = "pc" -> <<"announce", "state", "gathering", "signaling">>
      [] kind = "server" -> <<"announce">>
      [] OTHER -> <<"open", "closed", "available", "message">>

\* Calls and events are of objects of the right kind.
CallOK(c) ==
    \/ c.do = "cleanup"
    \/ /\ c.o \in Objects
       /\ \/ c.do = "create" /\ (Owner[c.o] = c.o \/ KindOf[Owner[c.o]] = "pc")
          \/ c.do = "set" /\ c.ev \in ToSet(Slots(KindOf[c.o])) /\ c.x = "app"
          \/ c.do = "unset" /\ c.ev \in ToSet(Slots(KindOf[c.o])) /\ c.x = None
          \/ c.do \in {"packetize", "chain"} /\ KindOf[c.o] = "track"
          \/ c.do = "receive" /\ c.o \in Channels
          \/ c.do \in {"close", "delete", "pointer"}
EventOK(e) ==
    /\ e[2] \in Objects
    /\ \/ e[1] = "OPEN" /\ KindOf[e[2]] = "dc"
       \/ e[1] = "client" /\ KindOf[e[2]] = "ws" /\ Owner[e[2]] # e[2]
       \/ e[1] = "data" /\ e[2] \in Channels
       \/ e[1] \in {"up", "reset"}
Announces(e) == e[1] \in {"OPEN", "client"}

\* Calls that keep something under the handle of an object, that end it, or all.
Keeps(c, o) == c.do \in {"pointer", "packetize", "chain"} /\ c.o = o
Ends(c, o) == c.do = "cleanup" \/ (c.do = "delete" /\ c.o = o)
Creates(c) == c.do = "create"
Makes(c, o) == Creates(c) /\ c.o = o
Cleans(c) == c.do = "cleanup"

\* A sequence with a call, and a call of a plan by some threads or by a callback.
In(s, Test(_)) == \E i \in 1..Len(s) : Test(s[i])
Some(p, threads, Test(_)) ==
    (\E t \in threads : In(p.calls[t], Test)) \/ (\E k \in DOMAIN p.body : In(p.body[k], Test))

IsSeq(s) == Len(s) \in Nat /\ s = [i \in 1..Len(s) |-> s[i]]
ASSUME PlansAssumption ==
    \A p \in Plans :
       /\ IsSeq(p.net) /\ \A i \in 1..Len(p.net) : EventOK(p.net[i])
       /\ \A t \in App : IsSeq(p.calls[t])
       /\ \A k \in DOMAIN p.body : IsSeq(p.body[k])
       /\ ~Some(p, App, LAMBDA c : ~CallOK(c))

\* What the C API asks of an application, as it checks handles only when a call
\* begins: what one thread keeps under a handle, no other thread ends meanwhile,
\* and nothing is kept under a handle that is gone; rtcCleanup() is not called while
\* another thread may be given handles.
ASSUME DisciplineAssumption ==
    \A p \in Plans :
       /\ \A o \in Objects :
             \/ ~Some(p, App, LAMBDA c : Keeps(c, o))
             \/ ~Some(p, App, LAMBDA c : Ends(c, o))
             \/ \E t \in App :
                   /\ ~Some(p, App \ {t}, LAMBDA c : Keeps(c, o) \/ Ends(c, o))
                   /\ \A i, j \in 1..Len(p.calls[t]) :
                         Ends(p.calls[t][i], o) /\ Keeps(p.calls[t][j], o) => j < i
       /\ Some(p, App, Cleans) =>
             /\ \A i \in 1..Len(p.net) : ~Announces(p.net[i])
             /\ \E t \in App : ~Some(p, App \ {t}, LAMBDA c : Creates(c) \/ Cleans(c))

\* An object is made once: no call makes a channel that an OPEN makes here, and
\* all that the plan says of its OPEN is one reliability.
rtcReliability ==
    [unordered : BOOLEAN, unreliable : BOOLEAN, maxPacketLifeTime : Int, maxRetransmits : Int]
ASSUME OpensAssumption ==
    \A p \in Plans : \A i, j \in 1..Len(p.net) :
       p.net[i][1] = "OPEN" =>
          /\ p.net[i][3] \in rtcReliability
          /\ ~Some(p, App, LAMBDA c : Makes(c, p.net[i][2]))
          /\ p.net[j][1] = "OPEN" /\ p.net[j][2] = p.net[i][2] => p.net[j][3] = p.net[i][3]

VARIABLES
    plan,                   \* the member of Plans this behaviour follows
    net, tasks,             \* events to come, and the queue of mProcessor
    table,                  \* peerConnectionMap, dataChannelMap, trackMap,
                            \* webSocketMap and webSocketServerMap, as pairs
    userPointer,            \* userPointerMap
    lastId, mutex,          \* the counter, and the thread that keeps the mutex
    id,                     \* the handle of each object, as its closures know it
    media,                  \* rtcpChainableHandlerMap, rtpConfigMap, rtcpSrReporterMap
    mMediaHandler, chain,   \* the handler of each track, and what is chained to it
    known, deleted, got,    \* what the application knows: handles it was told, the
                            \* channels it deleted, and the messages of each
    together,               \* channels that two threads have flushed at once
    cb, stored,             \* registered callbacks, and missed calls kept for them
    mOpenTriggered, mIsOpen, mIsClosed, mRecvQueue,
    pending,                \* mPendingDataChannels, mPendingTracks
    alive,                  \* the life of the C++ object behind each handle
    init,                   \* the reliability of each data channel, the description
                            \* of each track
    stack

tables == <<table, userPointer, lastId, id>>
handlers == <<media, mMediaHandler, chain>>
app == <<known, deleted, got, together>>
slots == <<cb, stored>>
chan == <<mOpenTriggered, mIsOpen, mIsClosed, mRecvQueue, pending>>
life == <<alive, init>>
env == <<plan, mutex>>
io == <<net, tasks>>
vars == <<env, io, tables, handlers, app, slots, chan, life, stack>>

F(op, o, ev, x) == [op |-> op, o |-> o, ev |-> ev, x |-> x, rest |-> <<>>]
Body(calls) == IF calls = <<>> THEN <<>>
               ELSE <<[F("body", None, None, None) EXCEPT !.rest = calls]>>
ResetFrame(o) == [F("reset", o, None, None) EXCEPT !.rest = Slots(KindOf[o])]

Init ==
    /\ plan \in Plans
    /\ net = plan.net /\ tasks = <<>>
    /\ table = [k \in Kinds |-> {}]
    /\ userPointer = << >>
    /\ lastId = 0 /\ mutex = None
    /\ id = [o \in Objects |-> 0]
    /\ media = [k \in Tables |-> << >>]
    /\ mMediaHandler = [o \in Objects |-> 0] /\ chain = <<>>
    /\ known = {} /\ deleted = {}
    /\ got = [o \in Channels |-> <<>>] /\ together = {}
    /\ cb = [o \in Objects |-> [ev \in ToSet(Slots(KindOf[o])) |-> None]]
    /\ stored = [o \in Objects |-> {}]
    /\ mOpenTriggered = [o \in Channels |-> FALSE]
    /\ mIsOpen = [o \in Objects |-> FALSE]
    /\ mIsClosed = [o \in Objects |-> FALSE]
    /\ mRecvQueue = [o \in Channels |-> <<>>]
    /\ pending = [o \in Objects |-> <<>>]
    /\ alive = [o \in Objects |-> "new"]
    /\ init = [o \in Objects |-> {}]
    /\ stack = [t \in Threads |-> IF t \in App THEN Body(plan.calls[t]) ELSE <<>>]

-----------------------------------------------------------------------------
At(t, op) == stack[t] # <<>> /\ Head(stack[t]).op = op
Top(t) == Head(stack[t])
Go(t, fs) == stack' = [stack EXCEPT ![t] = fs \o Tail(@)]
Return(t) == Go(t, <<>>)

\* std::mutex: taken and released in a step, except by eraseAll().
MutexFree == mutex = None

\* Threads inside a callback of o, as its recursive mutex sees them.
Inside(o, ev) ==
    {t \in Threads : \E i \in DOMAIN stack[t] :
        stack[t][i].op \in {"closure", "in"} /\ stack[t][i].o = o /\ stack[t][i].ev = ev}
SlotFree_NotRecursive(t, o, ev) == Inside(o, ev) = {}
SlotFree(t, o, ev) == Inside(o, ev) \subseteq {t}

Registered(o) == <<id[o], o>> \in table[KindOf[o]]

\* An object that is created or announced is a new one.
Fresh(o) == alive[o] = "new" /\ init[o] = {}

\* An entry of a map set, or added, and one taken away.
Put(f, i, v) == [j \in DOMAIN f \cup {i} |-> IF j = i THEN v ELSE f[j]]
Without(f, i) == [j \in DOMAIN f \ {i} |-> f[j]]

\* emplacePeerConnection and its like, under a new identifier.
Emplace(o) ==
    /\ MutexFree
    /\ lastId' = lastId + 1
    /\ id' = [id EXCEPT ![o] = lastId + 1]
    /\ table' = [table EXCEPT ![KindOf[o]] = @ \cup {<<lastId + 1, o>>}]
    /\ userPointer' = Put(userPointer, lastId + 1, "null")

\* setUserPointer: also makes the entry of a handle that has none.
SetUserPointer(i, ptr) ==
    /\ MutexFree
    /\ userPointer' = Put(userPointer, i, ptr)

EraseEntry_KeepPointer(o) ==
    /\ table' = [table EXCEPT ![KindOf[o]] = @ \ {<<id[o], o>>}]
    /\ UNCHANGED <<userPointer, media>>

\* erasePeerConnection and its like, and eraseChannel: with the entry goes all
\* that is kept under the handle.
EraseEntry(o) ==
    /\ table' = [table EXCEPT ![KindOf[o]] = @ \ {<<id[o], o>>}]
    /\ userPointer' = Without(userPointer, id[o])
    /\ media' = IF KindOf[o] = "track" THEN [k \in Tables |-> Without(media[k], id[o])]
                                       ELSE media

\* No call of another thread, nor a table, keeps the object alive.
Unreferenced(t, o) ==
    /\ alive[o] = "alive" /\ ~Registered(o)
    /\ \A u \in Threads \ {t} : \A i \in DOMAIN stack[u] :
          stack[u][i].op \notin {"erase", "return"} \/ stack[u][i].o # o

-----------------------------------------------------------------------------
\* The frames that carry out a call of the API on the object of a handle.
Frames(c) ==
    LET f(op) == F(op, c.o, c.ev, c.x)
        end == F("return", c.o, None, None)
    IN CASE c.do = "create" -> <<f("create"), F("return", Owner[c.o], None, None)>>
         [] c.do \in {"set", "unset"} -> <<f("assign"), end>>
         [] c.do = "close" -> <<f("close"), end>>
         [] c.do = "receive" -> <<f("peek"), end>>
         [] c.do = "packetize" -> <<f("packetize"), end>>
         [] c.do = "chain" -> <<f("chain"), end>>
         [] c.do = "delete" ->
              (CASE KindOf[c.o] = "server" ->
                      <<F("assign", c.o, "announce", None), f("stop"), f("erase"), end>>
                 [] KindOf[c.o] = "ws" /\ c.x = "forced" ->
                      <<f("remoteClose"), ResetFrame(c.o), f("erase")>>
                 [] OTHER -> <<f("close"), f("erase")>>)

\* The object a call looks up: rtcCreate* of an object that belongs to another
\* looks up that one.
Target(c) == IF c.do = "create" THEN Owner[c.o] ELSE c.o

\* rtcCreatePeerConnection, rtcCreateWebSocket and rtcCreateWebSocketServer.
IsRoot(c) == c.do = "create" /\ Owner[c.o] = c.o

\* wrap(): a call on a handle that is in no table returns RTC_ERR_INVALID.  The
\* application waits until it knows a handle before it uses it.
Invoke(t) ==
    /\ At(t, "body")
    /\ LET c == Head(Top(t).rest)
           rest == Body(Tail(Top(t).rest))
       IN IF c.do = "cleanup"
          THEN /\ Go(t, <<F("eraseAll", None, None, None)>> \o rest)
               /\ UNCHANGED userPointer
          ELSE /\ MutexFree
               /\ IsRoot(c) \/ id[Target(c)] \in known
               /\ \/ /\ c.do = "pointer"
                     /\ SetUserPointer(id[c.o], c.x)
                     /\ Go(t, rest)
                  \/ /\ c.do # "pointer"
                     /\ UNCHANGED userPointer
                     /\ Go(t, IF Registered(Target(c)) \/ IsRoot(c)
                              THEN Frames(c) \o rest ELSE rest)
    /\ UNCHANGED <<env, io, table, lastId, id, handlers, app, slots, chan, life>>

\* The end of a call: the thread that drops the last reference destroys.
EndCall(t) ==
    /\ At(t, "return")
    /\ LET o == Top(t).o IN
       IF Unreferenced(t, o)
       THEN Go(t, <<F("destroy", o, None, None), Top(t)>>) /\ UNCHANGED deleted
       ELSE /\ Return(t)
            /\ deleted' = IF Top(t).ev = "deleted" /\ (KindOf[o] = "ws" => alive[o] = "gone")
                          THEN deleted \cup {o} ELSE deleted
    /\ UNCHANGED <<env, io, tables, handlers, known, got, together, slots, chan, life>>

\* rtcCreatePeerConnection, rtcCreateDataChannelEx, rtcAddTrackEx,
\* rtcCreateWebSocket and rtcCreateWebSocketServer: the object, then its handle.
Create(t) ==
    /\ At(t, "create")
    /\ LET o == Top(t).o
           x == Top(t).x
       IN IF KindOf[o] = "track" /\ TrackDescription(x) = {}
          THEN Return(t) /\ UNCHANGED <<tables, known, cb, life>>
          ELSE /\ Fresh(o) /\ Emplace(o)
               /\ alive' = [alive EXCEPT ![o] = "alive"]
               /\ init' = [init EXCEPT ![o] = CASE KindOf[o] = "dc" -> {ReliabilityOf(x)}
                                               [] KindOf[o] = "track" -> TrackDescription(x)
                                               [] OTHER -> {}]
               /\ cb' = IF KindOf[o] = "server" THEN [cb EXCEPT ![o].announce = "app"] ELSE cb
               /\ IF Owner[o] = o
                  THEN Return(t) /\ known' = known \cup {lastId + 1}
                  ELSE Go(t, <<F("find", o, "create", None)>>) /\ UNCHANGED known
    /\ UNCHANGED <<env, io, handlers, deleted, got, together, stored, chan>>

\* What a callback of the application does.
BodyOf(o, ev) == IF <<o, ev>> \in DOMAIN plan.body THEN plan.body[<<o, ev>>] ELSE <<>>

FindPointer_NullIsNone(t) ==
    /\ At(t, "find") /\ MutexFree
    /\ LET o == Top(t).o
           owner == id[Owner[o]]
       IN IF owner \in DOMAIN userPointer /\ userPointer[owner] # "null"
          THEN Go(t, <<F("inherit", o, Top(t).ev, userPointer[owner])>>) /\ UNCHANGED known
          ELSE /\ Return(t)
               /\ known' = IF Top(t).ev = "create" THEN known \cup {id[o]} ELSE known
    /\ UNCHANGED <<env, io, tables, handlers, deleted, got, together, slots, chan, life>>

\* getUserPointer(pc), by rtcCreateDataChannelEx and rtcAddTrackEx, or by the
\* closures of rtcSetDataChannelCallback and its like, which say nothing when
\* the handle is gone.
FindPointer(t) ==
    /\ At(t, "find") /\ MutexFree
    /\ LET o == Top(t).o
           owner == id[Owner[o]]
       IN IF owner \in DOMAIN userPointer
          THEN Go(t, <<F("inherit", o, Top(t).ev, userPointer[owner])>>) /\ UNCHANGED known
          ELSE /\ Return(t)
               /\ known' = IF Top(t).ev = "create" THEN known \cup {id[o]} ELSE known
    /\ UNCHANGED <<env, io, tables, handlers, deleted, got, together, slots, chan, life>>

\* rtcSetUserPointer of the new handle, which the application then learns.  The
\* closure of rtcCreateWebSocketServer sets the pointer of the server instead.
Inherit(t) ==
    /\ At(t, "inherit")
    /\ LET o == Top(t).o IN
       /\ SetUserPointer(IF KindOf[Owner[o]] = "server" THEN id[Owner[o]] ELSE id[o], Top(t).x)
       /\ known' = known \cup {id[o]}
       /\ IF Top(t).ev = "create" THEN Return(t) ELSE Go(t, Body(BodyOf(o, "announce")))
    /\ UNCHANGED <<env, io, table, lastId, id, handlers, deleted, got, together, slots, chan, life>>

-----------------------------------------------------------------------------
\* Callbacks: synchronized_callback, and Channel::trigger*.

\* rtcSetSignalingStateChangeCallback(pc, NULL) resets another callback.
Assigned(ev, x) == IF ev = "signaling" /\ x = None THEN "gathering" ELSE ev

\* rtcSet*Callback.  A stored call is replayed at once, under the mutex of the
\* callback; onMessage() and onDataChannel() then look for what is waiting.
Assign(t) ==
    /\ At(t, "assign")
    /\ LET o == Top(t).o
           ev == Assigned(Top(t).ev, Top(t).x)
           missed == Top(t).x # None /\ ev \in stored[o]
       IN /\ SlotFree(t, o, ev)
          /\ cb' = [cb EXCEPT ![o][ev] = Top(t).x]
          /\ stored' = IF missed THEN [stored EXCEPT ![o] = @ \ {ev}] ELSE stored
          /\ tasks' = IF ev = "announce" /\ KindOf[o] = "pc" THEN Append(tasks, <<"announce", o>>)
                                                            ELSE tasks
          /\ Go(t, (IF missed THEN <<F("closure", o, ev, None)>> ELSE <<>>)
                   \o (IF ev = "message" THEN <<F("flush", o, None, None)>> ELSE <<>>))
    /\ UNCHANGED <<env, net, tables, handlers, app, chan, life>>

\* A callback is called.  Without one the call is stored, by those of a channel
\* that store; the one given to an incoming channel is triggerDataChannel.
Trigger(t) ==
    /\ At(t, "trigger")
    /\ LET o == Top(t).o
           ev == Top(t).ev
           call == F("closure", o, ev, Top(t).x)
           pc == Owner[o]
       IN /\ SlotFree(t, o, ev)
          /\ \/ /\ cb[o][ev] = None
                /\ stored' = IF o \in Channels /\ ev # "message"
                             THEN [stored EXCEPT ![o] = @ \cup {ev}] ELSE stored
                /\ Go(t, IF ev = "announce" THEN <<F("destroy", Top(t).x, None, None)>> ELSE <<>>)
                /\ UNCHANGED <<cb, mOpenTriggered, pending>>
             \/ /\ cb[o][ev] = "app"
                /\ Go(t, <<call>>)
                /\ UNCHANGED <<slots, mOpenTriggered, pending>>
             \/ /\ cb[o][ev] = "lib"
                /\ mOpenTriggered' = [mOpenTriggered EXCEPT ![o] = FALSE]
                /\ cb' = [cb EXCEPT ![o].open = None]
                /\ pending' = [pending EXCEPT ![pc] = Append(@, o)]
                /\ Go(t, <<F("announce", pc, None, None), F("in", o, ev, None)>>)
                /\ UNCHANGED stored
    /\ UNCHANGED <<env, io, tables, handlers, app, mIsOpen, mIsClosed, mRecvQueue, life>>

\* The closures of rtcSet*Callback: the application is called only while the
\* handle has a user pointer.  An announced object gets its handle first.
Closure(t) ==
    /\ At(t, "closure")
    /\ LET o == Top(t).o
           ev == Top(t).ev
           new == Top(t).x
           inside == [Top(t) EXCEPT !.op = IF ev = "stolen" THEN "called" ELSE "in"]
       IN \/ /\ ev = "announce"
             /\ Emplace(new)
             /\ alive' = [alive EXCEPT ![new] = "alive"]
             /\ Go(t, <<F("find", new, ev, None), inside>>)
             /\ UNCHANGED got
          \/ /\ ev # "announce" /\ MutexFree
             /\ IF id[o] \in DOMAIN userPointer
                THEN /\ Go(t, Append(Body(BodyOf(o, IF ev = "stolen" THEN "state" ELSE ev)), inside))
                     /\ got' = IF ev = "message" THEN [got EXCEPT ![o] = Append(@, new)] ELSE got
                ELSE Return(t) /\ UNCHANGED got
             /\ UNCHANGED <<tables, alive>>
    /\ UNCHANGED <<env, io, handlers, known, deleted, together, slots, chan, init>>

Called(t) ==
    /\ At(t, "in") \/ At(t, "called")
    /\ Return(t)
    /\ UNCHANGED <<env, io, tables, handlers, app, slots, chan, life>>

Opened_NoFlush(t) ==
    /\ At(t, "opened")
    /\ LET o == Top(t).o IN
       /\ mOpenTriggered' = [mOpenTriggered EXCEPT ![o] = TRUE]
       /\ Go(t, <<F("trigger", o, "open", None)>>)
    /\ UNCHANGED <<env, io, tables, handlers, app, slots, mIsOpen, mIsClosed, mRecvQueue, pending, life>>

Opened(t) ==
    /\ At(t, "opened")
    /\ LET o == Top(t).o IN
       /\ mOpenTriggered' = [mOpenTriggered EXCEPT ![o] = TRUE]
       /\ Go(t, <<F("trigger", o, "open", None), F("flush", o, None, None)>>)
    /\ UNCHANGED <<env, io, tables, handlers, app, slots, mIsOpen, mIsClosed, mRecvQueue, pending, life>>

\* triggerAvailable: with the size the queue has by now.
Available(t) ==
    /\ At(t, "available")
    /\ LET o == Top(t).o
           flush == F("flush", o, None, None)
       IN Go(t, IF Len(mRecvQueue[o]) = 1 THEN <<F("trigger", o, "available", None), flush>>
                                          ELSE <<flush>>)
    /\ UNCHANGED <<env, io, tables, handlers, app, slots, chan, life>>

Flush(t) ==
    /\ At(t, "flush")
    /\ Go(t, IF mOpenTriggered[Top(t).o] THEN <<[Top(t) EXCEPT !.op = "loop"]>> ELSE <<>>)
    /\ UNCHANGED <<env, io, tables, handlers, app, slots, chan, life>>

\* The loop of flushPendingMessages takes a message, and then calls.
FlushLoop(t) ==
    /\ At(t, "loop")
    /\ LET o == Top(t).o IN
       /\ SlotFree(t, o, "message")
       /\ IF cb[o].message = None \/ mRecvQueue[o] = <<>>
          THEN Return(t) /\ UNCHANGED mRecvQueue
          ELSE /\ Go(t, <<F("trigger", o, "message", Head(mRecvQueue[o])), Top(t)>>)
               /\ mRecvQueue' = [mRecvQueue EXCEPT ![o] = Tail(@)]
       /\ together' = IF \E u \in Threads \ {t} : \E i \in DOMAIN stack[u] :
                            stack[u][i].op = "loop" /\ stack[u][i].o = o
                      THEN together \cup {o} ELSE together
    /\ UNCHANGED <<env, io, tables, handlers, known, deleted, got, slots, mOpenTriggered,
                   mIsOpen, mIsClosed, pending, life>>

\* triggerPendingDataChannels: what is announced is then opened.
Announce(t) ==
    /\ At(t, "announce")
    /\ LET o == Top(t).o IN
       /\ SlotFree(t, o, "announce")
       /\ IF cb[o].announce = None \/ pending[o] = <<>>
          THEN Return(t) /\ UNCHANGED pending
          ELSE LET new == Head(pending[o]) IN
               /\ pending' = [pending EXCEPT ![o] = Tail(@)]
               /\ Go(t, <<F("trigger", o, "announce", new), F("opened", new, None, None), Top(t)>>)
    /\ UNCHANGED <<env, io, tables, handlers, app, slots, mOpenTriggered, mIsOpen, mIsClosed, mRecvQueue, life>>

Reset_NoWait(t) ==
    /\ At(t, "reset")
    /\ LET o == Top(t).o
           ev == Head(Top(t).rest)
       IN /\ cb' = [cb EXCEPT ![o][ev] = None]
          /\ mOpenTriggered' = IF o \in Channels THEN [mOpenTriggered EXCEPT ![o] = FALSE]
                                                 ELSE mOpenTriggered
          /\ Go(t, IF Len(Top(t).rest) = 1 THEN <<>> ELSE <<[Top(t) EXCEPT !.rest = Tail(@)]>>)
    /\ UNCHANGED <<env, io, tables, handlers, app, stored, mIsOpen, mIsClosed, mRecvQueue, pending, life>>

\* resetCallbacks: one callback after the other, each when no other thread is
\* inside it.
Reset(t) ==
    /\ At(t, "reset")
    /\ LET o == Top(t).o
           ev == Head(Top(t).rest)
       IN /\ SlotFree(t, o, ev)
          /\ cb' = [cb EXCEPT ![o][ev] = None]
          /\ mOpenTriggered' = IF o \in Channels THEN [mOpenTriggered EXCEPT ![o] = FALSE]
                                                 ELSE mOpenTriggered
          /\ Go(t, IF Len(Top(t).rest) = 1 THEN <<>> ELSE <<[Top(t) EXCEPT !.rest = Tail(@)]>>)
    /\ UNCHANGED <<env, io, tables, handlers, app, stored, mIsOpen, mIsClosed, mRecvQueue, pending, life>>

-----------------------------------------------------------------------------
\* Closing, deleting and destroying.
\* close() of a data channel or track, of a WebSocket, whose transport closes
\* first if it is open, and of a peer connection, likewise.
Close(t) ==
    /\ At(t, "close")
    /\ LET o == Top(t).o IN
       /\ mIsOpen' = [mIsOpen EXCEPT ![o] = FALSE]
       /\ \/ /\ KindOf[o] \in {"dc", "track"}
             /\ mIsClosed' = [mIsClosed EXCEPT ![o] = TRUE]
             /\ mMediaHandler' = [mMediaHandler EXCEPT ![o] = 0]
             /\ Go(t, (IF mIsClosed[o] THEN <<>> ELSE <<F("trigger", o, "closed", None)>>)
                      \o <<ResetFrame(o)>>)
             /\ UNCHANGED net
          \/ /\ KindOf[o] \in {"ws", "pc"}
             /\ IF mIsOpen[o]
                THEN Return(t) /\ net' = Append(net, <<"reset", o, None>>)
                ELSE Go(t, <<[Top(t) EXCEPT !.op = "remoteClose"]>>) /\ UNCHANGED net
             /\ UNCHANGED <<mIsClosed, mMediaHandler>>
    /\ UNCHANGED <<env, tasks, tables, media, chain, app, slots, mOpenTriggered, mRecvQueue, pending, life>>

\* remoteClose(): a peer connection steals its state callback and calls it
\* without its mutex, and closes its channels on the processor.
RemoteClose(t) ==
    /\ At(t, "remoteClose")
    /\ LET o == Top(t).o IN
       /\ mIsOpen' = [mIsOpen EXCEPT ![o] = FALSE]
       /\ mIsClosed' = [mIsClosed EXCEPT ![o] = TRUE]
       /\ \/ /\ mIsClosed[o]
             /\ Return(t)
             /\ UNCHANGED <<tasks, cb>>
          \/ /\ ~mIsClosed[o] /\ o \in Channels
             /\ Go(t, <<F("trigger", o, "closed", None)>>)
             /\ UNCHANGED <<tasks, cb>>
          \/ /\ ~mIsClosed[o] /\ KindOf[o] = "pc"
             /\ SlotFree(t, o, "state")
             /\ tasks' = Append(tasks, <<"closeChannels", o>>)
             /\ cb' = [cb EXCEPT ![o].state = None]
             /\ Go(t, (IF cb[o].state = None THEN <<>> ELSE <<F("closure", o, "stolen", None)>>)
                      \o <<ResetFrame(o)>>)
    /\ UNCHANGED <<env, net, tables, handlers, app, stored, mOpenTriggered, mRecvQueue, pending, life>>

\* erase*: throws if another thread was faster.
Erase(t) ==
    /\ At(t, "erase") /\ MutexFree
    /\ LET o == Top(t).o IN
       IF Registered(o)
       THEN EraseEntry(o) /\ Go(t, <<F("return", o, "deleted", None)>>)
       ELSE Go(t, <<F("return", o, None, None)>>) /\ UNCHANGED <<table, userPointer, media>>
    /\ UNCHANGED <<env, io, lastId, id, mMediaHandler, chain, app, slots, chan, life>>

\* The destructors of the C++ objects.
Destroy(t) ==
    /\ At(t, "destroy")
    /\ LET o == Top(t).o
           f(op) == F(op, o, None, None)
       IN /\ alive' = [alive EXCEPT ![o] = "gone"]
          /\ Go(t, CASE KindOf[o] = "dc" -> <<f("close")>>
                     [] KindOf[o] = "track" -> <<ResetFrame(o)>>
                     [] KindOf[o] = "ws" -> <<f("remoteClose"), ResetFrame(o)>>
                     [] KindOf[o] = "pc" -> <<f("remoteClose")>>
                     [] KindOf[o] = "server" -> <<f("stop")>>)
    /\ UNCHANGED <<env, io, tables, handlers, app, slots, chan, init>>

\* WebSocketServer::stop() joins the thread of the server.
Stop(t) ==
    /\ At(t, "stop")
    /\ LET o == Top(t).o IN
       IF mIsClosed[o]
       THEN /\ stack[Server] = <<>>
            /\ Return(t)
            /\ UNCHANGED mIsClosed
       ELSE /\ mIsClosed' = [mIsClosed EXCEPT ![o] = TRUE]
            /\ UNCHANGED stack
    /\ UNCHANGED <<env, io, tables, handlers, app, slots, mOpenTriggered, mIsOpen, mRecvQueue, pending, life>>

\* eraseAll() of rtcCleanup() keeps the mutex while it clears the tables, and
\* with it while the objects that no call refers to are destroyed.
EraseAll(t) ==
    /\ At(t, "eraseAll") /\ MutexFree
    /\ mutex' = t
    /\ table' = [k \in Kinds |-> {}]
    /\ userPointer' = << >>
    /\ media' = [k \in Tables |-> << >>]
    /\ LET held == {o \in Objects : alive[o] = "alive"
                       /\ \A u \in Threads \ {t} : \A i \in DOMAIN stack[u] :
                             stack[u][i].op \notin {"erase", "return"} \/ stack[u][i].o # o}
           order == SetToSeq(held)
       IN Go(t, [i \in DOMAIN order |-> F("destroy", order[i], None, None)]
                \o <<F("erasedAll", None, None, None)>>)
    /\ UNCHANGED <<plan, io, lastId, id, mMediaHandler, chain, app, slots, chan, life>>

ErasedAll(t) ==
    /\ At(t, "erasedAll")
    /\ mutex' = None
    /\ Return(t)
    /\ UNCHANGED <<plan, io, tables, handlers, app, slots, chan, life>>

-----------------------------------------------------------------------------
\* Receiving by polling, and media handlers.

\* rtcReceiveMessage looks at the first message, and discards it only if the
\* buffer takes it.  What a track lets see, it moves out of the queue.
Peek(t) ==
    /\ At(t, "peek")
    /\ LET o == Top(t).o
           m == Head(mRecvQueue[o])
       IN IF mRecvQueue[o] = <<>>
          THEN Return(t) /\ UNCHANGED mRecvQueue
          ELSE /\ mRecvQueue' = IF KindOf[o] = "track" THEN [mRecvQueue EXCEPT ![o][1] = "moved"]
                                                      ELSE mRecvQueue
               /\ Go(t, IF ReceiveMessage(FALSE, MessageSize, Top(t).x.buffer, Top(t).x.size).discard
                        THEN <<F("discard", o, None, [message |-> m])>> ELSE <<>>)
    /\ UNCHANGED <<env, io, tables, handlers, app, slots, mOpenTriggered, mIsOpen, mIsClosed, pending, life>>

Discard_KeepMessage(t) ==
    /\ At(t, "discard")
    /\ got' = [got EXCEPT ![Top(t).o] = Append(@, Top(t).x.message)]
    /\ Return(t)
    /\ UNCHANGED <<env, io, tables, handlers, known, deleted, together, slots, chan, life>>

Discard(t) ==
    /\ At(t, "discard")
    /\ LET o == Top(t).o IN
       /\ got' = [got EXCEPT ![o] = Append(@, Top(t).x.message)]
       /\ mRecvQueue' = [mRecvQueue EXCEPT ![o] = IF @ = <<>> THEN @ ELSE Tail(@)]
    /\ Return(t)
    /\ UNCHANGED <<env, io, tables, handlers, known, deleted, together, slots, mOpenTriggered,
                   mIsOpen, mIsClosed, pending, life>>

\* emplace() keeps the entry of an earlier handler.
Kept(f, i, h) == IF i \in DOMAIN f THEN f ELSE Put(f, i, h)

\* rtcSetH264PacketizationHandler, rtcSetOpusPacketizationHandler.
Packetize(t) ==
    /\ At(t, "packetize") /\ MutexFree
    /\ LET o == Top(t).o
           h == Len(chain) + 1
       IN /\ chain' = Append(chain, <<>>)
          /\ media' = [media EXCEPT !.handler = Kept(@, id[o], h), !.config = Kept(@, id[o], h)]
          /\ mMediaHandler' = [mMediaHandler EXCEPT ![o] = h]
    /\ Return(t)
    /\ UNCHANGED <<env, io, tables, app, slots, chan, life>>

\* rtcChainRtcpSrReporter needs the configuration and keeps the reporter, then
\* it and rtcChainRtcpNackResponder add to the handler of the table.
Chain(t) ==
    /\ At(t, "chain") /\ MutexFree
    /\ LET i == id[Top(t).o]
           sr == Top(t).x = "sr"
       IN IF sr /\ i \notin DOMAIN media.config
          THEN UNCHANGED <<media, chain>>
          ELSE /\ media' = IF sr THEN [media EXCEPT !.reporter = Kept(@, i, media.config[i])] ELSE media
               /\ chain' = IF i \in DOMAIN media.handler
                           THEN [chain EXCEPT ![media.handler[i]] = Append(@, Top(t).x)] ELSE chain
    /\ Return(t)
    /\ UNCHANGED <<env, io, tables, mMediaHandler, app, slots, chan, life>>

-----------------------------------------------------------------------------
\* Events of the network and of the processor.

\* An event of the network finds its object made, and the connection up.
Ready(e) ==
    LET o == e[2] IN
    CASE e[1] = "OPEN" -> mIsOpen[Owner[o]] /\ Fresh(o)
      [] e[1] = "client" -> alive[Owner[o]] = "alive" /\ Fresh(o)
      [] OTHER -> alive[o] # "new" \/ mIsOpen[o]

Receive ==
    /\ stack[Net] = <<>> /\ net # <<>>
    /\ LET e == Head(net)
           o == e[2]
           frame(op) == F(op, o, None, None)
           do(fs) == stack' = [stack EXCEPT ![Net] = fs]
           ignored == alive[o] = "gone" \/ mIsClosed[o]
       IN /\ Ready(e) /\ e[1] # "client"
          /\ net' = Tail(net)
          /\ \/ /\ e[1] = "OPEN"
                /\ cb' = [cb EXCEPT ![o].open = "lib"]
                /\ init' = [init EXCEPT ![o] = {FromOpen(OpenMessage(ReliabilityOf(e[3])))}]
                /\ mIsOpen' = [mIsOpen EXCEPT ![o] = TRUE]
                /\ do(<<frame("opened")>>)
                /\ UNCHANGED <<mRecvQueue, tasks>>
             \/ /\ e[1] = "up"
                /\ mIsOpen' = IF ignored THEN mIsOpen ELSE [mIsOpen EXCEPT ![o] = TRUE]
                /\ tasks' = IF ignored \/ KindOf[o] # "pc" THEN tasks ELSE Append(tasks, <<"state", o>>)
                /\ do(IF ignored \/ o \notin Channels \/ mIsOpen[o] THEN <<>> ELSE <<frame("opened")>>)
                /\ UNCHANGED <<cb, init, mRecvQueue>>
             \/ /\ e[1] = "data"
                /\ IF ignored \/ (KindOf[o] = "track" /\ Len(mRecvQueue[o]) >= RecvQueueLimit)
                   THEN UNCHANGED <<stack, mRecvQueue>>
                   ELSE /\ Len(mRecvQueue[o]) < RecvQueueLimit
                        /\ mRecvQueue' = [mRecvQueue EXCEPT ![o] = Append(@, e[3])]
                        /\ do(<<frame("available")>>)
                /\ UNCHANGED <<cb, init, mIsOpen, tasks>>
             \/ /\ e[1] = "reset"
                /\ do(<<frame("remoteClose")>>)
                /\ UNCHANGED <<cb, init, mIsOpen, mRecvQueue, tasks>>
    /\ UNCHANGED <<env, tables, handlers, app, stored, mOpenTriggered, mIsClosed, pending, alive>>

\* WebSocketServer::runLoop: a client nobody listens for is dropped.
Accept ==
    /\ stack[Server] = <<>> /\ net # <<>>
    /\ LET e == Head(net)
           server == Owner[e[2]]
       IN /\ e[1] = "client" /\ Ready(e) /\ ~mIsClosed[server]
          /\ SlotFree(Server, server, "announce")
          /\ net' = Tail(net)
          /\ stack' = [stack EXCEPT ![Server] =
                         IF cb[server].announce = None THEN <<>>
                         ELSE <<F("trigger", server, "announce", e[2])>>]
    /\ UNCHANGED <<env, tasks, tables, handlers, app, slots, chan, life>>

\* flushPendingDataChannels, trigger<State>, closeDataChannels and closeTracks.
RunTask ==
    /\ stack[Proc] = <<>> /\ tasks # <<>>
    /\ LET k == Head(tasks)[1]
           pc == Head(tasks)[2]
           owned == SetToSeq({o \in Channels : Owner[o] = pc /\ alive[o] = "alive"})
       IN stack' = [stack EXCEPT ![Proc] =
             CASE k = "announce" -> <<F("announce", pc, None, None)>>
               [] k = "state" -> <<F("trigger", pc, "state", None)>>
               [] k = "closeChannels" -> [i \in DOMAIN owned |-> F("close", owned[i], None, None)]]
    /\ tasks' = Tail(tasks)
    /\ UNCHANGED <<env, net, tables, handlers, app, slots, chan, life>>

-----------------------------------------------------------------------------
Step(t) ==
    \/ Invoke(t) \/ EndCall(t)
    \/ Create(t) \/ FindPointer(t) \/ Inherit(t)
    \/ Assign(t) \/ Trigger(t) \/ Closure(t) \/ Called(t)
    \/ Opened(t) \/ Available(t) \/ Flush(t) \/ FlushLoop(t) \/ Announce(t) \/ Reset(t)
    \/ Close(t) \/ RemoteClose(t) \/ Erase(t) \/ Destroy(t) \/ Stop(t)
    \/ EraseAll(t) \/ ErasedAll(t)
    \/ Peek(t) \/ Discard(t) \/ Packetize(t) \/ Chain(t)

Next ==
    \/ \E t \in Threads : Step(t)
    \/ Receive
    \/ Accept
    \/ RunTask

\* Every behaviour is finite, as its plan is: that some thread goes on while one
\* can is all that is assumed of the scheduler.
Fairness == WF_vars(Next)

Spec == Init /\ [][Next]_vars /\ Fairness

-----------------------------------------------------------------------------
TypeOK ==
    /\ mutex \in Threads \cup {None}
    /\ lastId \in Nat /\ id \in [Objects -> 0..lastId]
    /\ \A k \in Kinds : table[k] \subseteq (1..lastId) \X {o \in Objects : KindOf[o] = k}
    /\ DOMAIN userPointer \subseteq 1..lastId
    /\ known \subseteq 1..lastId /\ deleted \subseteq Objects
    /\ \A o \in Objects : \A ev \in DOMAIN cb[o] : cb[o][ev] \in {None, "app", "lib"}
    /\ \A o \in Channels : Len(mRecvQueue[o]) <= RecvQueueLimit
    /\ alive \in [Objects -> {"new", "alive", "gone"}]

\* One number is the handle of one object, in one table, so that the order in
\* which getChannel() searches them does not matter; and nothing is kept under
\* the number of a handle that was erased.
TablesConsistent ==
    /\ \A k, l \in Kinds : \A e \in table[k], f \in table[l] : e[1] = f[1] => e = f /\ k = l
    /\ \A i \in DOMAIN userPointer : \E k \in Kinds : \E e \in table[k] : e[1] = i
    /\ \A m \in Tables : \A i \in DOMAIN media[m] : \E e \in table["track"] : e[1] = i

\* Every handle in a table is known to the application, or about to be told to
\* it, unless the handle of the object that announces it was deleted meanwhile:
\* a handle that nobody knows is never deleted.
HandlesTold ==
    \A k \in Kinds : \A e \in table[k] :
       \/ e[1] \in known
       \/ \E t \in Threads : stack[t] # <<>> /\ Top(t).op \in {"find", "inherit"} /\ Top(t).o = e[2]
       \/ id[Owner[e[2]]] \notin DOMAIN userPointer

\* The tables are sound at every moment, in the middle of any call.
CapiInv == TypeOK /\ TablesConsistent /\ HandlesTold

\* Thread t finds a user pointer in a closure, and calls the application.
Enters(t, o) ==
    /\ At(t, "closure") /\ Top(t).o = o
    /\ stack'[t] # stack[t] /\ Len(stack'[t]) >= Len(stack[t])
NoneStarts == \A o \in Channels : \A t \in Threads : Enters(t, o) => o \notin deleted
NoneRuns ==
    \A o \in deleted' \ deleted : o \in Channels =>
       \A ev \in DOMAIN cb[o] : \A t \in Inside(o, ev) :
          At(t, "closure") \/ Len(stack'[t]) < Len(stack[t])

\* No callback of a channel starts after rtcDelete() or its like has returned
\* for it, nor is one still running on another thread when it returns: the
\* application may free what the user pointer points to.  Not so a WebSocket
\* that a call in progress keeps alive: only its destructor resets callbacks.
NoCallbackAfterDelete == [][NoneStarts /\ NoneRuns]_vars

\* The application gets each message of a channel once, by callback or by
\* rtcReceiveMessage(), and in the order in which they arrived unless two
\* threads have emptied the queue at once: the receiving thread, and one that
\* sets the callback or announces the channel late.
Arrivals(o) == LET data == SelectSeq(plan.net, LAMBDA e : e[1] = "data" /\ e[2] = o)
               IN [i \in DOMAIN data |-> data[i][3]]
DeliveredInOrder ==
    \A o \in Channels :
       /\ IsInjective(got[o])
       /\ o \notin together => IsPrefix(got[o], Arrivals(o))

\* What rtcGetDataChannelReliability() says of a channel, at either end, is what
\* the rtcDataChannelInit of the creator asked for.
Promised(i, remote) ==
    [unordered |-> i.unordered, unreliable |-> i.unreliable,
     maxPacketLifeTime |-> IF i.unreliable /\ i.maxPacketLifeTime > 0 THEN i.maxPacketLifeTime ELSE 0,
     maxRetransmits |-> IF i.unreliable /\ i.maxPacketLifeTime <= 0
                        THEN IF remote /\ i.maxRetransmits < 0 THEN 0 ELSE i.maxRetransmits
                        ELSE 0]
ReliabilityCarried ==
    \A j \in DOMAIN plan.net :
       LET e == plan.net[j] IN
       e[1] = "OPEN" => \A r \in init[e[2]] : GetReliability(r) = Promised(e[3], TRUE)

\* A buffer of the size that a call without a buffer tells is large enough, for
\* one buffer, for both of rtcGetSelectedCandidatePair(), and for a message, and
\* no smaller one is ever filled; without a value, nothing is.
BuffersFit ==
    \A o \in Objects : KindOf[o] = "pc" =>
       \A len \in 1..2 :
          LET there == mIsOpen[o]
              told == GetOptional(there, len, FALSE, 0)
              both == GetPair(there, <<len, 1>>, <<FALSE, FALSE>>, <<0, 0>>)
              message(text) == Magnitude(ReceiveMessage(text, len, FALSE, 0).size)
          IN /\ there => told = len
             /\ \A size \in 0..3 :
                   /\ GetOptional(there, len, TRUE, size) >= 0 <=> there /\ size >= told
                   /\ GetPair(there, <<len, 1>>, <<TRUE, TRUE>>, <<size, size>>) >= 0
                        <=> there /\ size >= both
                   /\ \A text \in BOOLEAN :
                         ReceiveMessage(text, len, TRUE, -size).discard <=> size >= message(text)

\* Every call of the API returns, and every callback with it: destructors and
\* resets wait for callbacks that end.
CallsReturn ==
    <>[](\A t \in Threads : stack[t] = <<>> \/ (At(t, "body") /\ Len(stack[t]) = 1))

\* While an open channel has a message callback, what is received is handed to
\* it, whichever of the two came first.
MessagesDelivered ==
    <>[](\A o \in Channels : cb[o].message = "app" /\ mOpenTriggered[o] => mRecvQueue[o] = <<>>)

\* rtcCleanup() may find objects that were not destroyed ("objects were not
\* properly destroyed before cleanup"): it must not wait for its own mutex.
NoSelfDeadlock == \A t \in Threads : mutex = t => ~At(t, "closure")

=============================================================================
