----------------------------- MODULE WebSocket -----------------------------
(***************************************************************************)
(* One WebSocket, client or server side, over the transports it stacks:    *)
(* TCP, the proxy connection, TLS and the WebSocket protocol               *)
(* (src/src/impl/websocket.cpp, tcptransport.cpp, httpproxytransport.cpp,  *)
(* tlstransport.cpp, wstransport.cpp), with the poll service, the thread   *)
(* pool, the teardown thread, and the thread of a WebSocketServer.         *)
(*                                                                         *)
(* Every thread has a stack of frames, innermost first.  The callbacks of  *)
(* a transport are synchronized_callbacks: whoever sets or calls one waits *)
(* until no other thread is inside.  An exception unwinds the stack to the *)
(* handler that catches it, and releases what is held on the way.          *)
(***************************************************************************)
EXTENDS WsData, FiniteSets

CONSTANTS
    App, Server,            \* the application's thread, and the server's
    Poll, Worker, Timer,    \* the poll service; two threads of the pool, one for
                            \* tasks, one for what was scheduled for later
    Teardown,               \* TearDownProcessor
    Plans,                  \* what the application and the remote peer do
    RecvQueueLimit

Threads == {App, Server, Poll, Worker, Timer, Teardown}
Kinds == {"tcp", "proxy", "tls", "ws"}

ASSUME WebSocketAssumption == Cardinality(Threads) = 6 /\ RecvQueueLimit \in Nat \ {0}

\* The calls the application makes, on its thread, when the WebSocket opens, and when
\* the server announces one; what it sends is a message.
Calls == {"open", "close", "forceClose", "send", "stopServer"}
ASSUME PlansAssumption ==
    \A p \in Plans : \A calls \in {p.calls, p.onOpen, p.onClient} :
        /\ calls \in Seq({calls[i] : i \in DOMAIN calls})
        /\ \A i \in DOMAIN calls :
              /\ calls[i][1] \in Calls
              /\ calls[i][1] = "send" => LET payload == calls[i][2].payload
                                        IN payload \in Seq({payload[j] : j \in DOMAIN payload})

VARIABLES
    plan,
    state,                  \* of the WebSocket
    member,                 \* which of mTcpTransport... are not null
    array,                  \* what closeTransports passed to the teardown thread
    st, alive,              \* each transport: mState, and its life
    onState, onRecv,        \* transports whose callbacks are set
    mSock, socks, lost,     \* the descriptor, those open, those of failed attempts
    entry,                  \* the socket's entry in the poll service
    mResolved, mSendQueue,
    mIncomingQueue, mStopping, mPendingRecvCount,   \* of the TLS transport
    mBuffer,                \* what each transport keeps of its input
    mPartial, mCloseSent, mOutstandingPings,        \* of the WebSocket transport
    tasks, timers,          \* of the pool
    listening, pipe, clients,   \* the server's socket, its interrupter, and the
                            \* connections that wait to be accepted
    segments,               \* what the peer has still to send
    idle, stalls,           \* how often the connection will be idle, or full
    broken,                 \* a send on the socket has failed
    received, handed, wire, \* messages for the application; cells given to the
                            \* socket, and those it took
    missed, overtaken, raced, crashed,  \* what went wrong, see the properties
    stack

ws == <<state, member, array>>
transports == <<st, alive, onState, onRecv>>
tcp == <<mSock, socks, lost, entry, mResolved>>
sending == <<mSendQueue, handed, wire>>
tls == <<mIncomingQueue, mStopping, mPendingRecvCount>>
framing == <<mPartial, mCloseSent, mOutstandingPings>>
pool == <<tasks, timers>>
server == <<listening, pipe, clients>>
net == <<segments, idle, stalls, broken>>
ghosts == <<missed, overtaken, raced, crashed>>
env == <<plan, server, net, received>>
io == <<tcp, sending>>
layers == <<tls, mBuffer, framing>>
vars == <<env, ghosts, ws, transports, io, layers, pool, stack>>

IsClient == plan.role = "client"
IsSecure == plan.url = "wss"

\* The transport below and above each other one.
Lower(k) == CASE k = "ws" /\ IsSecure -> "tls"
              [] k # "proxy" /\ plan.proxy -> "proxy"
              [] OTHER -> "tcp"
Above(k) == CASE k = "tcp" /\ plan.proxy -> "proxy"
              [] k \in {"tcp", "proxy"} /\ IsSecure -> "tls"
              [] OTHER -> "ws"
Used == {"tcp"} \cup (IF plan.proxy THEN {"proxy"} ELSE {}) \cup (IF IsSecure THEN {"tls"} ELSE {})
Below(k) == CASE k = "tcp" -> {"tcp"} [] k = "proxy" -> {"tcp", "proxy"} [] OTHER -> Used

F(op, k, x) == [op |-> op, k |-> k, x |-> x]

\* remoteClose(), and stop() of each transport: TcpTransport has none of its own.
RemoteClose == <<F("close", "ws", <<>>), F("closeTransports", "ws", <<>>)>>
Stop(k) ==
    CASE k = "tcp" -> <<>>
      [] k = "proxy" -> <<F("offRecv", "tcp", <<>>)>>
      [] k = "tls" -> <<F("offRecv", Lower("tls"), <<>>), F("tlsStop", "tls", <<>>)>>
      [] OTHER -> <<F("wsClose", "ws", <<>>)>>

\* What the application does, in a callback or not: it goes on after an exception.
Body(calls) ==
    [i \in 1..2 * Len(calls) |->
        IF i % 2 = 0 THEN F("caught", "ws", <<>>)
        ELSE LET call == calls[(i + 1) \div 2] IN F(call[1], "ws", call[2])]
Null == << <<"null", "">> >>
Hello == << <<"hello", "">> >>

Init ==
    /\ plan \in Plans
    /\ state = "Closed" /\ member = {} /\ array = {}
    /\ st = [k \in Kinds |-> "Disconnected"] /\ alive = [k \in Kinds |-> "none"]
    /\ onState = {} /\ onRecv = {}
    /\ mSock = 0 /\ socks = {} /\ lost = {} /\ entry = {} /\ mResolved = <<>>
    /\ mSendQueue = <<>>
    /\ mIncomingQueue = <<>> /\ mStopping = FALSE /\ mPendingRecvCount = 0
    /\ mBuffer = [k \in Kinds |-> <<>>]
    /\ mPartial = <<"none", <<>>>> /\ mCloseSent = FALSE /\ mOutstandingPings = 0
    /\ tasks = <<>> /\ timers = {}
    /\ listening = (plan.role = "server") /\ pipe = 0
    /\ clients = (IF plan.role = "server" THEN 1 ELSE 0)
    /\ segments = plan.remote /\ idle = plan.idle /\ stalls = plan.stalls /\ broken = FALSE
    /\ received = <<>> /\ handed = <<>> /\ wire = <<>>
    /\ missed = FALSE /\ overtaken = FALSE /\ raced = FALSE /\ crashed = FALSE
    /\ stack = [t \in Threads |-> CASE t = App -> Body(plan.calls)
                                    [] t = Server /\ plan.role = "server" -> <<F("accept", "tcp", <<>>)>>
                                    [] OTHER -> <<>>]

-----------------------------------------------------------------------------
At(t, op) == stack[t] # <<>> /\ Head(stack[t]).op = op
Top(t) == Head(stack[t])

\* The ends of scopes, of locks and of try blocks are reached without a step of
\* their own.
Markers == {"unlock", "stateEnd", "recvEnd", "wsTry", "tlsTry", "processEnd", "sent", "caught",
            "left"}
Strip(s) ==
    LET rest == {i \in DOMAIN s : s[i].op \notin Markers}
    IN IF rest = {} THEN <<>> ELSE SubSeq(s, CHOOSE i \in rest : \A j \in rest : i <= j, Len(s))
Begin(t, fs) == stack' = [stack EXCEPT ![t] = fs]
Go(t, fs) == stack' = [stack EXCEPT ![t] = Strip(fs \o Tail(@))]
Return(t) == Go(t, <<>>)

\* synchronized_callback: no other thread is inside the callback of k.
FreeOf(t, end, k) ==
    \A u \in Threads \ {t} : \A i \in DOMAIN stack[u] : ~(stack[u][i].op = end /\ stack[u][i].k = k)

\* TcpTransport::mSendMutex.
SendFree(t) == FreeOf(t, "unlock", "tcp")

\* PollService::mMutex, recursive, is kept by the poll thread while it processes.
PollFree(t) == t = Poll \/ stack[Poll] = <<>>

\* Where an exception is caught, and what then runs: of the scopes that were left,
\* only references have to be released.
Catchers == {"started", "wsTry", "tlsTry", "closeSent", "processEnd", "stateEnd", "recvEnd",
             "accept", "caught"}
Caught(f) ==
    CASE f.op = "started" -> <<F("undo", f.k, <<>>)>> \o RemoteClose \o <<F("throw", f.k, <<>>)>>
      [] f.op \in {"wsTry", "tlsTry"} -> <<F("lost", f.k, <<>>)>>
      [] f.op = "closeSent" -> <<F("change", "ws", "Disconnected")>>
      [] f.op = "processEnd" -> <<F("gone", "tcp", <<>>)>>
      [] OTHER -> <<f>>
Raise(t) ==
    LET s == Tail(stack[t])
        at == {i \in DOMAIN s : s[i].op \in Catchers}
        i == IF at = {} THEN Len(s) + 1 ELSE CHOOSE i \in at : \A j \in at : i <= j
        scoped == [j \in 1..i - 1 |-> IF s[j].op = "release" THEN s[j] ELSE F("left", "", <<>>)]
    IN Begin(t, Strip(scoped \o
                      (IF at = {} THEN <<>> ELSE Caught(s[i]) \o SubSeq(s, i + 1, Len(s)))))

Held_NotCaptured(t, k) ==
    \/ k \in member
    \/ \E u \in Kinds \ {"tcp"} : alive[u] \in {"alive", "dying"} /\ Lower(u) = k
    \/ k = "tls" /\ "doRecv" \in ToSet(tasks)
    \/ \E u \in Threads : \E i \in DOMAIN stack[u] :
          /\ stack[u][i].op = "release" /\ stack[u][i].k = k
          /\ u # t \/ i # 1

\* The references to a transport: the WebSocket's, the teardown's, that of the
\* transport above, those of calls in progress, and of a task of the TLS transport.
Held(t, k) ==
    \/ k \in member \cup (IF At(t, "reset") THEN array \ {k} ELSE array)
    \/ \E u \in Kinds \ {"tcp"} : alive[u] \in {"alive", "dying"} /\ Lower(u) = k
    \/ k = "tls" /\ "doRecv" \in ToSet(tasks)
    \/ \E u \in Threads : \E i \in DOMAIN stack[u] :
          /\ stack[u][i].op = "release" /\ stack[u][i].k = k
          /\ u # t \/ i # 1

-----------------------------------------------------------------------------
\* Transport: changeState, recv, and what the callbacks do.

ChangeState(t) ==
    /\ At(t, "change")
    /\ LET k == Top(t).k IN
       /\ st' = [st EXCEPT ![k] = Top(t).x]
       /\ Go(t, IF st[k] = Top(t).x THEN <<>> ELSE <<F("call", k, Top(t).x)>>)
    /\ UNCHANGED <<env, ghosts, ws, io, layers, pool, alive, onState, onRecv>>

OnState_AnyState(k, s) ==
    IF s # "Connected" THEN RemoteClose
    ELSE IF k = "ws" THEN <<F("openNow", "ws", <<>>)>> ELSE <<F("init", Above(k), <<>>)>>

\* The state callbacks that set*Transport and init*Transport give to a transport: once
\* that of WebSocket is connected, the state is tested, and then exchanged.
OnState(k, s) ==
    CASE s # "Connected" -> RemoteClose
      [] s = "Connected" /\ k # "ws" -> <<F("init", Above(k), <<>>)>>
      [] OTHER -> IF state = "Connecting" THEN <<F("openNow", "ws", <<>>)>> ELSE <<>>

CallState(t) ==
    /\ At(t, "call")
    /\ LET k == Top(t).k IN
       /\ FreeOf(t, "stateEnd", k)
       /\ Go(t, IF k \in onState THEN OnState(k, Top(t).x) \o <<F("stateEnd", k, <<>>)>> ELSE <<>>)

\* recv(): the receive callback is the incoming() of the transport above, or that of
\* the WebSocket.
Receives(t, who) ==
    /\ At(t, "recv")
    /\ Top(t).k \in onRecv /\ FreeOf(t, "recvEnd", Top(t).k)
    /\ who = IF Top(t).k = "ws" THEN "app" ELSE Above(Top(t).k)
Incoming(t, fs) == Go(t, fs \o <<F("recvEnd", Top(t).k, <<>>)>>)

Recv(t) == At(t, "recv") /\ Top(t).k \notin onRecv /\ Return(t)

\* onRecv(nullptr) and onStateChange(nullptr).
Detach(t) ==
    /\ \/ /\ At(t, "offRecv")
          /\ FreeOf(t, "recvEnd", Top(t).k)
          /\ onRecv' = onRecv \ {Top(t).k} /\ UNCHANGED onState
       \/ /\ At(t, "offState")
          /\ FreeOf(t, "stateEnd", Top(t).k)
          /\ onState' = onState \ {Top(t).k} /\ UNCHANGED onRecv
    /\ Return(t)
    /\ UNCHANGED <<env, ghosts, ws, io, layers, pool, st, alive>>

\* The end of a catch block that throws again.
Throw(t) == At(t, "throw") /\ Raise(t)

Destructor_KeepLower(k) ==
    IF k = "tcp" THEN <<F("tcpClose", k, <<>>)>> ELSE <<F("offRecv", Lower(k), <<>>)>>

\* The destructors: that of TlsTransport stops it, but for MbedTLS, that of
\* TcpTransport closes the socket, and ~Transport stops and releases the one below.
Destructor(k) ==
    CASE k = "tcp" -> <<F("tcpClose", k, <<>>)>>
      [] k = "tls" /\ plan.backend # "MbedTLS" -> Stop(k) \o <<F("destroyed", k, <<>>)>>
      [] OTHER -> <<F("offRecv", Lower(k), <<>>), F("destroyed", k, <<>>)>>

\* A thread drops a reference; the last one destroys the transport.  A call of
\* WebSocket::outgoing() keeps no reference to the transport it uses.
Release(t) ==
    /\ \E op \in {"release", "reset"} : At(t, op)
    /\ LET k == Top(t).k
           last == alive[k] = "alive" /\ ~Held(t, k)
       IN /\ array' = IF Top(t).op = "reset" THEN array \ {k} ELSE array
          /\ alive' = IF last THEN [alive EXCEPT ![k] = "dying"] ELSE alive
          /\ crashed' = (crashed \/ (last /\ k = "ws" /\ ~FreeOf(t, "sent", k)))
          /\ Go(t, IF last THEN Destructor(k) ELSE <<>>)
    /\ UNCHANGED <<env, io, layers, pool, state, member, st, onState, onRecv, missed, overtaken, raced>>

Destroyed(t) ==
    /\ At(t, "destroyed")
    /\ LET k == Top(t).k IN
       /\ alive' = [alive EXCEPT ![k] = "gone"]
       /\ Go(t, Stop(Lower(k)) \o <<F("release", Lower(k), <<>>)>>)
    /\ UNCHANGED <<env, ghosts, ws, io, layers, pool, st, onState, onRecv>>

-----------------------------------------------------------------------------
\* The application, and WebSocket.

Open(t) ==
    /\ At(t, "open")
    /\ IF state = "Closed" /\ plan.url # "invalid"
       THEN state' = "Connecting" /\ Go(t, <<F("init", "tcp", <<>>)>>)
       ELSE Raise(t) /\ UNCHANGED state
    /\ UNCHANGED <<env, ghosts, transports, io, layers, pool, member, array>>

\* close() loads the state and then exchanges it.
Close(t) ==
    /\ At(t, "close")
    /\ Go(t, IF state \in {"Connecting", "Open"} THEN <<F("closing", "ws", <<>>)>> ELSE <<>>)

ForceClose(t) == At(t, "forceClose") /\ Go(t, RemoteClose)

Overtakes == \E t \in Threads : At(t, "openNow")

\* The WebSocket transport is stopped, which does nothing until it is connected.
Closing(t) ==
    /\ At(t, "closing")
    /\ state' = "Closing"
    /\ overtaken' = (overtaken \/ Overtakes)
    /\ IF "ws" \in member
       THEN /\ missed' = (\/ missed
                          \/ /\ st["ws"] # "Connected"
                             /\ Tail(stack[t]) = <<>> \/ stack[t][2].op # "closeTransports")
            /\ Go(t, Stop("ws") \o <<F("release", "ws", <<>>)>>)
       ELSE Go(t, RemoteClose) /\ UNCHANGED missed
    /\ UNCHANGED <<env, transports, io, layers, pool, member, array, raced, crashed>>

\* The first thread to get here takes the transports, but for the proxy's, waits
\* until no other thread is in their callbacks, and has them torn down.
CloseTransports(t) ==
    /\ At(t, "closeTransports")
    /\ IF state = "Closed"
       THEN Return(t) /\ UNCHANGED <<ws, ghosts>>
       ELSE LET taken == member \ {"proxy"}
                off(op, k) == IF k \in taken THEN <<F(op, k, <<>>)>> ELSE <<>>
                the(k) == IF k \in taken THEN <<k>> ELSE <<>>
            IN /\ state' = "Closed"
               /\ overtaken' = (overtaken \/ Overtakes)
               /\ member' = member \ taken
               /\ array' = array \cup taken
               /\ Go(t, off("offRecv", "ws") \o off("offState", "ws") \o off("offState", "tls")
                        \o off("offState", "tcp")
                        \o <<F("enqueue", "ws", the("ws") \o the("tls") \o the("tcp"))>>)
               /\ UNCHANGED <<missed, raced, crashed>>
    /\ UNCHANGED <<env, transports, io, layers, pool>>

\* The task of the teardown thread: stop() of the topmost, then each reset().
EnqueueTeardown(t) ==
    /\ At(t, "enqueue") /\ stack[Teardown] = <<>>
    /\ LET taken == Top(t).x
           resets == [i \in DOMAIN taken |-> F("reset", taken[i], <<>>)]
           task == IF taken = <<>> THEN <<>> ELSE Stop(taken[1]) \o resets
       IN stack' = [stack EXCEPT ![t] = Strip(Tail(@)), ![Teardown] = task]

\* outgoing() tests mWsTransport and then uses it; a null pointer ends the program.
Outgoing(t) ==
    /\ \/ /\ At(t, "send")
          /\ IF state = "Open" /\ "ws" \in member THEN Go(t, <<F("use", "ws", Top(t).x)>>)
                                                  ELSE Raise(t)
          /\ UNCHANGED crashed
       \/ /\ At(t, "use")
          /\ crashed' = (crashed \/ "ws" \notin member)
          /\ Go(t, IF st["ws"] = "Connected"
                   THEN <<F("write", Lower("ws"), Cells(Top(t).x, IsClient)), F("sent", "ws", <<>>)>>
                   ELSE <<>>)
    /\ UNCHANGED <<env, ws, transports, io, layers, pool, missed, overtaken, raced>>

ReceiveMessage(t) ==
    /\ Receives(t, "app")
    /\ IF Top(t).x = Null
       THEN Incoming(t, RemoteClose) /\ UNCHANGED received
       ELSE Incoming(t, <<>>) /\ received' = Append(received, Top(t).x)
    /\ UNCHANGED <<ghosts, ws, transports, io, layers, pool, plan, server, net>>

OpenNow(t) ==
    /\ At(t, "openNow")
    /\ state' = "Open"
    /\ Go(t, IF state # "Open" THEN Body(plan.onOpen) ELSE <<>>)
    /\ UNCHANGED <<env, ghosts, transports, io, layers, pool, member, array>>

\* scheduleConnectionTimeout, and the close timer of the WebSocket transport.
Timeout(t) ==
    /\ t = Timer /\ stack[t] = <<>>
    /\ \E timer \in timers :
          /\ timers' = timers \ {timer}
          /\ Begin(t, CASE timer = "connect" /\ state = "Connecting" -> RemoteClose
                         [] timer = "close" /\ alive["ws"] = "alive" ->
                               <<F("change", "ws", "Disconnected"), F("release", "ws", <<>>)>>
                         [] OTHER -> <<>>)
    /\ UNCHANGED <<env, ghosts, ws, transports, io, layers, tasks>>

-----------------------------------------------------------------------------
\* Bringing the transports up.

\* emplaceTransport: start() may throw, and the WebSocket may be closed meanwhile.
Emplace(k) == <<F("start", k, <<>>), F("started", k, <<>>), F("release", k, <<>>)>>
Started(t) ==
    /\ \E op \in {"started", "undo"} : At(t, op)
    /\ LET k == Top(t).k IN
       IF Top(t).op = "undo" \/ state = "Closed"
       THEN member' = member \ {k} /\ Go(t, Stop(k))
       ELSE Return(t) /\ UNCHANGED member
    /\ UNCHANGED <<env, ghosts, transports, io, layers, pool, state, array>>

SetTcpTransport(t) ==
    /\ At(t, "init") /\ Top(t).k = "tcp"
    /\ member' = member \cup {"tcp"}
    /\ alive' = [alive EXCEPT !["tcp"] = "alive"]
    /\ onState' = onState \cup {"tcp"}
    /\ timers' = timers \cup ({"connect"} \cap plan.timeouts)
    /\ Go(t, Emplace("tcp"))
    /\ UNCHANGED <<env, ghosts, io, layers, state, array, st, onRecv, tasks>>

\* An existing transport is kept; one on a transport that is gone throws.
InitTransport(t, k) ==
    /\ At(t, "init") /\ Top(t).k = k
    /\ IF k \in member \/ Lower(k) \notin member
       THEN /\ Go(t, IF k \in member THEN <<>> ELSE RemoteClose \o <<F("throw", k, <<>>)>>)
            /\ UNCHANGED <<member, alive, onState, onRecv>>
       ELSE /\ member' = member \cup {k}
            /\ alive' = [alive EXCEPT ![k] = "alive"]
            /\ onState' = onState \cup {k}
            /\ onRecv' = IF k = "ws" THEN onRecv \cup {k} ELSE onRecv
            /\ Go(t, Emplace(k))
    /\ UNCHANGED <<env, ghosts, io, layers, pool, state, array, st>>
InitProxyTransport(t) == InitTransport(t, "proxy")
InitTlsTransport(t) == InitTransport(t, "tls")
InitWsTransport(t) == InitTransport(t, "ws")

\* registerIncoming, and the state that start() sets.
Register(t, k) ==
    /\ At(t, "start") /\ Top(t).k = k
    /\ FreeOf(t, "recvEnd", Lower(k))
    /\ onRecv' = onRecv \cup {Lower(k)}
    /\ st' = [st EXCEPT ![k] = "Connecting"]
    /\ UNCHANGED <<env, ghosts, ws, io, alive, onState, mBuffer, framing, timers>>

\* enqueueRecv: one task at a time; there is none for a transport being destroyed.
EnqueueRecv ==
    IF mPendingRecvCount = 0 /\ alive["tls"] = "alive"
    THEN mPendingRecvCount' = 1 /\ tasks' = Append(tasks, "doRecv")
    ELSE UNCHANGED <<mPendingRecvCount, tasks>>

Write(k, cells) == F("write", k, cells)

StartProxy(t) ==
    /\ Register(t, "proxy")
    /\ Go(t, <<Write("tcp", ConnectRequest)>>)
    /\ UNCHANGED <<tls, tasks>>

\* GnuTLS and MbedTLS start the handshake in the task, OpenSSL at once.
StartTls(t) ==
    /\ Register(t, "tls")
    /\ IF plan.backend = "OpenSSL"
       THEN /\ Go(t, IF IsClient THEN <<Write(Lower("tls"), Hello)>> ELSE <<>>)
            /\ UNCHANGED <<tls, tasks>>
       ELSE Return(t) /\ EnqueueRecv /\ UNCHANGED <<mIncomingQueue, mStopping>>

StartWs(t) ==
    /\ Register(t, "ws")
    /\ Go(t, IF IsClient THEN <<Write(Lower("ws"), UpgradeRequest)>> ELSE <<>>)
    /\ UNCHANGED <<tls, tasks>>

TlsStop(t) ==
    /\ At(t, "tlsStop")
    /\ mStopping' = TRUE
    /\ EnqueueRecv
    /\ Return(t)
    /\ UNCHANGED <<env, ghosts, ws, transports, io, mIncomingQueue, mBuffer, framing, timers>>

-----------------------------------------------------------------------------
\* TcpTransport: connecting.

StartTcp(t) ==
    /\ At(t, "start") /\ Top(t).k = "tcp"
    /\ IF mSock = 0
       THEN /\ st' = [st EXCEPT !["tcp"] = "Connecting"]
            /\ tasks' = Append(tasks, "resolve")
            /\ Return(t)
       ELSE /\ Go(t, <<F("change", "tcp", "Connected"), F("setPoll", "tcp", "In")>>)
            /\ UNCHANGED <<st, tasks>>
    /\ UNCHANGED <<env, ghosts, ws, io, layers, alive, onState, onRecv, timers>>

\* The pool runs a task: a TcpTransport is kept while it resolves or attempts.
RunTask(t) ==
    /\ t = Worker /\ stack[t] = <<>> /\ tasks # <<>>
    /\ tasks' = Tail(tasks)
    /\ LET k == IF Head(tasks) = "doRecv" THEN "tls" ELSE "tcp" IN
       Begin(t, IF alive[k] = "alive" THEN <<F(Head(tasks), k, <<>>), F("release", k, <<>>)>> ELSE <<>>)
    /\ UNCHANGED <<env, ghosts, ws, transports, io, layers, timers>>

ConnectFails == <<F("change", "tcp", "Failed"), F("unlock", "tcp", <<>>)>>

Resolve(t) ==
    /\ At(t, "resolve") /\ SendFree(t)
    /\ Go(t, IF st["tcp"] = "Connecting" /\ plan.addresses = <<>> THEN ConnectFails ELSE <<>>)
    /\ mResolved' = plan.addresses
    /\ tasks' = IF st["tcp"] = "Connecting" /\ plan.addresses # <<>>
                THEN Append(tasks, "attempt") ELSE tasks
    /\ UNCHANGED <<env, ghosts, ws, transports, layers, mSock, socks, lost, entry, mSendQueue,
                   handed, wire, timers>>

\* createSocket: connect() may be refused at once.  Only the destructor would cancel
\* the attempts, and the task holds a reference.
NewSocket == Len(plan.addresses) - Len(mResolved) + 1

Attempt(t) ==
    /\ At(t, "attempt") /\ SendFree(t) /\ st["tcp"] = "Connecting"
    /\ \/ /\ mResolved = <<>>
          /\ Go(t, ConnectFails)
          /\ UNCHANGED <<mResolved, tasks, mSock, socks>>
       \/ /\ mResolved # <<>>
          /\ mResolved' = Tail(mResolved)
          /\ IF Head(mResolved) = "refused"
             THEN /\ mSock' = 0
                  /\ tasks' = Append(tasks, "attempt")
                  /\ Return(t)
                  /\ UNCHANGED socks
             ELSE /\ mSock' = NewSocket
                  /\ socks' = socks \cup {NewSocket}
                  /\ Go(t, <<F("addPoll", "tcp", Head(mResolved)), F("unlock", "tcp", <<>>)>>)
                  /\ UNCHANGED tasks
    /\ UNCHANGED <<env, ghosts, ws, transports, layers, lost, entry, sending, timers>>

\* PollService::add, for an attempt, and by setPoll.
AddPoll(t) ==
    /\ PollFree(t)
    /\ \/ /\ At(t, "addPoll")
          /\ entry' = {[sock |-> mSock, for |-> "attempt", dir |-> "Out", event |-> Top(t).x]}
       \/ /\ At(t, "setPoll")
          /\ entry' = {[sock |-> mSock, for |-> "process", dir |-> Top(t).x, event |-> "ok"]}
    /\ Return(t)
    /\ UNCHANGED <<env, ghosts, ws, transports, layers, pool, mSock, socks, lost, mResolved,
                   sending>>

\* TcpTransport::close, under mSendMutex: PollService::remove waits for its turn.
TcpClose(t) ==
    /\ \/ /\ At(t, "tcpClose") /\ SendFree(t)
          /\ Go(t, <<F("tcpRemove", "tcp", <<>>), F("change", "tcp", "Disconnected"),
                     F("unlock", "tcp", <<>>)>>)
          /\ UNCHANGED <<mSock, socks, entry>>
       \/ /\ At(t, "tcpRemove") /\ PollFree(t)
          /\ socks' = socks \ {mSock} /\ mSock' = 0
          /\ entry' = {e \in entry : e.sock # mSock}
          /\ Return(t)
    /\ UNCHANGED <<env, ghosts, ws, transports, layers, pool, lost, mResolved, sending>>

\* The poll thread finds an event on a socket that connects.
PollAttempt(t) ==
    /\ t = Poll /\ stack[t] = <<>>
    /\ \E e \in entry :
          /\ e.for = "attempt"
          /\ IF e.event = "ok"
             THEN /\ Begin(t, <<F("change", "tcp", "Connected"), F("setPoll", "tcp", "In")>>)
                  /\ UNCHANGED <<lost, entry, tasks>>
             ELSE /\ entry' = {}
                  /\ lost' = lost \cup {mSock}
                  /\ tasks' = Append(tasks, "attempt")
                  /\ UNCHANGED stack
    /\ UNCHANGED <<env, ghosts, ws, transports, layers, mSock, socks, mResolved, sending, timers>>

-----------------------------------------------------------------------------
\* TcpTransport: sending.  trySendQueue() is called by send(), which has locked
\* mSendMutex, and by process(), which has not.

Sending(t) == \E op \in {"trySendQueue", "trySendFront", "trySend"} : At(t, op)
Races(t) == \E u \in Threads \ {t} : Sending(u)

\* What the socket takes of a message: all of it, or some when it is full, as no
\* socket is before its first message.
Takes(message) == {n \in 0..Len(message) : n = Len(message) \/ (stalls > 0 /\ wire # <<>>)}
Rest(message, n) == SubSeq(message, n + 1, Len(message))
Full(message, n) == n < Len(message)
Put(message, n) ==
    /\ wire' = wire \o SubSeq(message, 1, n)
    /\ stalls' = IF Full(message, n) THEN stalls - 1 ELSE stalls
\* It may fail once the peer has reset the connection, and then it always does.
Reset == plan.end = "reset" /\ segments = <<>>

\* send() of the transport k, which throws unless it and those below are connected.
\* With nothing in the queue the message is tried at once.
Send(t) ==
    /\ At(t, "write") /\ SendFree(t)
    /\ LET m == Top(t).x
           connected == \A k \in Below(Top(t).k) : st[k] = "Connected"
       IN \/ /\ ~connected \/ (Reset /\ mSendQueue = <<>>)
             /\ broken' = (broken \/ connected)
             /\ Raise(t)
             /\ UNCHANGED <<handed, mSendQueue, wire, stalls, raced>>
          \/ /\ connected /\ mSendQueue # <<>>
             /\ handed' = handed \o m
             /\ Go(t, <<F("trySendQueue", "tcp", m), F("unlock", "tcp", <<>>)>>)
             /\ UNCHANGED <<mSendQueue, wire, stalls, broken, raced>>
          \/ /\ connected /\ mSendQueue = <<>> /\ ~broken
             /\ handed' = handed \o m
             /\ raced' = (raced \/ Races(t))
             /\ \E n \in Takes(m) :
                   /\ Put(m, n)
                   /\ mSendQueue' = IF Full(m, n) THEN <<Rest(m, n)>> ELSE <<>>
                   /\ Go(t, IF Full(m, n) THEN <<F("setPoll", "tcp", "Both"), F("unlock", "tcp", <<>>)>>
                                          ELSE <<>>)
             /\ UNCHANGED broken
    /\ UNCHANGED <<ws, transports, layers, pool, plan, tcp, server, segments, idle, received,
                   missed, overtaken, crashed>>

TrySendQueue_NoFlush(t) ==
    /\ At(t, "trySendQueue")
    /\ Go(t, IF Top(t).x = <<>> THEN <<F("setPoll", "tcp", "In")>>
             ELSE <<F("trySend", "tcp", Top(t).x)>>)

\* trySendQueue: the first of the queue, and then the next; the message that comes
\* after the queue is tried directly.
TrySendQueue(t) ==
    /\ At(t, "trySendQueue")
    /\ Go(t, CASE mSendQueue # <<>> -> <<F("trySendFront", "tcp", Head(mSendQueue)), Top(t)>>
               [] mSendQueue = <<>> /\ Top(t).x = <<>> -> <<F("setPoll", "tcp", "In")>>
               [] OTHER -> <<F("trySend", "tcp", Top(t).x)>>)

\* trySendMessage, of the first message of the queue: what is left of it replaces
\* the one that is first by then, and the new message waits behind it.
TrySendMessage(t) ==
    /\ \E op \in {"trySend", "trySendFront"} : At(t, op)
    /\ raced' = (raced \/ Races(t))
    /\ LET m == Top(t).x
           front == Top(t).op = "trySendFront"
           after == IF front THEN stack[t][2].x ELSE <<>>
           queue == IF front /\ mSendQueue # <<>> THEN Tail(mSendQueue) ELSE mSendQueue
           kept(n) == IF ~Full(m, n) \/ (front /\ mSendQueue = <<>>) THEN <<>> ELSE <<Rest(m, n)>>
       IN \/ /\ Reset
             /\ broken' = TRUE
             /\ Raise(t)
             /\ UNCHANGED <<wire, mSendQueue, stalls>>
          \/ /\ ~broken
             /\ UNCHANGED broken
             /\ \E n \in Takes(m) :
                   /\ Put(m, n)
                   /\ mSendQueue' = IF ~front THEN queue \o kept(n)
                                    ELSE IF ~Full(m, n) THEN queue
                                    ELSE kept(n) \o queue \o (IF after = <<>> THEN <<>> ELSE <<after>>)
                   /\ LET poll == IF front /\ after = <<>> THEN <<>> ELSE <<F("setPoll", "tcp", "Both")>>
                          done == IF front THEN Tail(Tail(stack[t])) ELSE Tail(stack[t])
                      IN IF Full(m, n) THEN Begin(t, Strip(poll \o done)) ELSE Return(t)
    /\ UNCHANGED <<ws, transports, layers, pool, plan, tcp, handed, server, segments, idle,
                   received, missed, overtaken, crashed>>

-----------------------------------------------------------------------------
\* TcpTransport::process, on the poll thread.

\* The peer sends what comes next once it has what that answers.
Arrived == segments # <<>> /\ (segments[1].after = <<"", "">> \/ segments[1].after \in ToSet(wire))
Ended == segments = <<>> /\ plan.end \in {"eof", "reset"}

\* What poll() reports of a connected socket.
Reports(e, event) ==
    CASE event = "In" -> e.dir # "Out" /\ (Arrived \/ Ended)
      [] event = "Out" -> e.dir = "Both"
      [] event = "Timeout" -> e.dir = "In" /\ idle > 0 /\ ~Arrived /\ ~Ended
      [] OTHER -> Ended /\ plan.end = "reset"

\* PollService::process: errors and timeouts erase the entry before the callback,
\* which keeps the transport alive while it runs.
PollProcess(t) ==
    /\ t = Poll /\ stack[t] = <<>>
    /\ \E e \in entry, event \in {"In", "Out", "Timeout", "Error"} :
          /\ e.for = "process" /\ Reports(e, event)
          /\ entry' = IF event \in {"Timeout", "Error"} THEN {} ELSE entry
          /\ idle' = IF event = "Timeout" THEN idle - 1 ELSE idle
          /\ Begin(t, IF alive["tcp"] # "alive" THEN <<>>
                ELSE (CASE event = "In" -> <<F("read", "tcp", <<>>)>>
                        [] event = "Out" -> <<F("trySendQueue", "tcp", <<>>)>>
                        [] event = "Timeout" -> <<F("recv", "tcp", <<>>), F("setPoll", "tcp", "In")>>
                        [] OTHER -> <<F("gone", "tcp", <<>>)>>)
                     \o <<F("processEnd", "tcp", <<>>), F("release", "tcp", <<>>)>>)
    /\ UNCHANGED <<ghosts, ws, transports, layers, pool, plan, mSock, socks, lost, mResolved,
                   sending, server, segments, stalls, broken, received>>

\* The recv() loop of process(), and the end of the connection.
Process(t) ==
    /\ \/ /\ At(t, "read")
          /\ IF Arrived
             THEN LET cells == segments[1].cells IN
                  \E n \in (plan.cuts \cap 1..Len(cells)) \cup {Len(cells)} :
                     /\ segments' = (IF n = Len(cells) THEN <<>>
                                     ELSE <<[after |-> <<"", "">>, cells |-> Rest(cells, n)]>>) \o Tail(segments)
                     /\ Go(t, <<F("recv", "tcp", SubSeq(cells, 1, n)), Top(t)>>)
             ELSE /\ Go(t, IF Ended THEN <<F("gone", "tcp", <<>>)>> ELSE <<>>)
                  /\ UNCHANGED segments
          /\ UNCHANGED entry
       \/ /\ At(t, "gone")
          /\ entry' = {}
          /\ Go(t, <<F("change", "tcp", "Disconnected"), F("recv", "tcp", Null)>>)
          /\ UNCHANGED segments
    /\ UNCHANGED <<ghosts, ws, transports, layers, pool, plan, mSock, socks, lost, mResolved,
                   sending, server, idle, stalls, broken, received>>

-----------------------------------------------------------------------------
\* What the transports do with their input.

\* The end of incoming() when the connection is lost, and of doRecv().
Lost(t) ==
    /\ At(t, "lost")
    /\ LET k == Top(t).k IN
       Go(t, IF st[k] = "Connected" THEN <<F("change", k, "Disconnected"), F("recv", k, Null)>>
                                    ELSE <<F("change", k, "Failed")>>)

ProxyIncoming(t) ==
    /\ \/ /\ Receives(t, "proxy")
          /\ LET m == Top(t).x
                 buffer == mBuffer["proxy"] \o m
                 parsed == ParseProxyResponse(buffer)
                 n == HttpLength(buffer)
             IN CASE st["proxy"] \notin {"Connecting", "Connected"} ->
                       Incoming(t, <<>>) /\ UNCHANGED mBuffer
                  [] st["proxy"] \in {"Connecting", "Connected"} /\ m = Null ->
                       Incoming(t, <<F("lost", "proxy", <<>>)>>) /\ UNCHANGED mBuffer
                  [] st["proxy"] = "Connected" /\ m # Null ->
                       Incoming(t, <<F("recv", "proxy", m)>>) /\ UNCHANGED mBuffer
                  [] OTHER ->
                       /\ mBuffer' = [mBuffer EXCEPT !["proxy"] =
                             IF parsed = "done" THEN Rest(buffer, n) ELSE buffer]
                       /\ Incoming(t, CASE parsed = "more" -> <<>>
                              [] parsed = "error" -> <<F("lost", "proxy", <<>>)>>
                              [] OTHER -> <<F("change", "proxy", "Connected"), F("rest", "proxy", <<>>)>>)
       \/ /\ At(t, "rest")
          /\ mBuffer' = [mBuffer EXCEPT !["proxy"] = <<>>]
          /\ Go(t, IF mBuffer["proxy"] # <<>> THEN <<F("recv", "proxy", mBuffer["proxy"])>> ELSE <<>>)
    /\ UNCHANGED <<env, ghosts, ws, transports, io, pool, tls, framing>>

\* The bounded queue of the TLS transport keeps the poll thread waiting.
TlsIncoming(t) ==
    /\ Receives(t, "tls")
    /\ IF Top(t).x = Null
       THEN mStopping' = TRUE /\ UNCHANGED mIncomingQueue
       ELSE /\ mStopping \/ Len(mIncomingQueue) < RecvQueueLimit
            /\ mIncomingQueue' = IF mStopping THEN mIncomingQueue ELSE Append(mIncomingQueue, Top(t).x)
            /\ UNCHANGED mStopping
    /\ EnqueueRecv
    /\ Incoming(t, <<>>)
    /\ UNCHANGED <<env, ghosts, ws, transports, io, mBuffer, framing, timers>>

\* doRecv begins.  With GnuTLS a transport that is neither connecting nor connected
\* fails, with the others nothing is done.
DoRecv(t) ==
    /\ At(t, "doRecv")
    /\ mPendingRecvCount' = 0
    /\ Go(t, IF st["tls"] \in {"Connecting", "Connected"}
             THEN <<F("pull", "tls", <<>>), F("tlsTry", "tls", <<>>)>>
             ELSE IF plan.backend = "GnuTLS" THEN <<F("lost", "tls", <<>>)>> ELSE <<>>)
    /\ UNCHANGED <<env, ghosts, ws, transports, io, pool, mIncomingQueue, mStopping, mBuffer,
                   framing>>

\* ReadCallback, and the pop() of the loop for OpenSSL: messages without cells are
\* passed through.  A client of GnuTLS or MbedTLS first says hello.
Pull(t) ==
    /\ At(t, "pull") /\ mBuffer["tls"] = <<>>
    /\ LET silent == /\ plan.backend # "OpenSSL" /\ IsClient
                     /\ st["tls"] = "Connecting" /\ Hello[1] \notin ToSet(handed)
       IN IF silent \/ mIncomingQueue = <<>>
          THEN /\ Go(t, CASE silent -> <<Write(Lower("tls"), Hello), Top(t)>>
                          [] ~silent /\ mStopping -> <<F("lost", "tls", <<>>)>>
                          [] OTHER -> <<>>)
               /\ UNCHANGED <<mIncomingQueue, mBuffer>>
          ELSE /\ mIncomingQueue' = Tail(mIncomingQueue)
               /\ mBuffer' = [mBuffer EXCEPT !["tls"] = Head(mIncomingQueue)]
               /\ Go(t, IF Head(mIncomingQueue) = <<>> THEN <<F("recv", "tls", <<>>), Top(t)>>
                                                      ELSE <<Top(t)>>)
    /\ UNCHANGED <<env, ghosts, ws, transports, io, pool, mStopping, mPendingRecvCount, framing>>

\* The library takes what was pulled: the peer's part of the handshake, which a
\* server answers.
Shake(t) ==
    /\ At(t, "pull") /\ mBuffer["tls"] # <<>> /\ st["tls"] = "Connecting"
    /\ mBuffer' = [mBuffer EXCEPT !["tls"] = Tail(@)]
    /\ Go(t, IF mBuffer["tls"][1] # Hello[1] THEN <<F("lost", "tls", <<>>)>>
             ELSE (IF IsClient THEN <<>> ELSE <<Write(Lower("tls"), Hello)>>)
                  \o <<F("change", "tls", "Connected"), F("shaken", "tls", <<>>)>>)
    /\ UNCHANGED <<env, ghosts, ws, transports, io, pool, tls, framing>>

\* Then records, up to the close alert.  OpenSSL reads only while it is connected.
ReadRecords(t) ==
    /\ At(t, "pull") /\ mBuffer["tls"] # <<>> /\ st["tls"] # "Connecting"
    /\ mBuffer' = [mBuffer EXCEPT !["tls"] = <<>>]
    /\ LET input == mBuffer["tls"]
           bye == {i \in DOMAIN input : input[i] = <<"bye", "">>}
           records == IF bye = {} THEN input ELSE SubSeq(input, 1, (CHOOSE i \in bye : TRUE) - 1)
       IN Go(t, IF plan.backend = "OpenSSL" /\ st["tls"] # "Connected" THEN <<Top(t)>>
                ELSE (IF records = <<>> THEN <<>> ELSE <<F("recv", "tls", records)>>)
                     \o (IF bye = {} THEN <<Top(t)>> ELSE <<F("lost", "tls", <<>>)>>))
    /\ UNCHANGED <<env, ghosts, ws, transports, io, pool, tls, framing>>

\* After the handshake GnuTLS and MbedTLS look at the state again.
Shaken(t) ==
    /\ At(t, "shaken")
    /\ Go(t, IF st["tls"] = "Connected" \/ plan.backend = "OpenSSL" THEN <<F("pull", "tls", <<>>)>>
                                                               ELSE <<F("lost", "tls", <<>>)>>)

-----------------------------------------------------------------------------
\* WsTransport.

WsFrame(opcode, payload) == Write(Lower("ws"), Cells(Frame(opcode, TRUE, payload), IsClient))

\* incoming(): the handshake, then a ping when the connection is idle or what is
\* read; what is parsed leaves the buffer.
WsIncoming(t) ==
    /\ Receives(t, "ws")
    /\ LET m == Top(t).x
           buffer == mBuffer["ws"] \o m
           parsed == IF IsClient THEN ParseResponse(buffer) ELSE ParseRequest(buffer)
           open == <<F("change", "ws", "Connected"), F("frames", "ws", m)>>
           write(cells) == IF IsClient THEN <<>> ELSE <<Write(Lower("ws"), cells)>>
           within(fs) == Incoming(t, fs \o <<F("wsTry", "ws", <<>>)>>)
       IN CASE st["ws"] \notin {"Connecting", "Connected"} -> Incoming(t, <<>>) /\ UNCHANGED mBuffer
            [] st["ws"] \in {"Connecting", "Connected"} /\ m = Null ->
                  Incoming(t, <<F("lost", "ws", <<>>)>>) /\ UNCHANGED mBuffer
            [] st["ws"] = "Connecting" /\ m # Null ->
                  /\ mBuffer' = [mBuffer EXCEPT !["ws"] =
                                    IF parsed = "done" THEN Rest(buffer, HttpLength(buffer)) ELSE buffer]
                  /\ within(CASE parsed = "more" -> <<>>
                              [] parsed = "done" -> write(UpgradeResponse) \o open
                              [] OTHER -> write(UpgradeError(parsed)) \o <<F("throw", "ws", <<>>)>>)
            [] OTHER -> /\ mBuffer' = [mBuffer EXCEPT !["ws"] = buffer]
                        /\ within(<<F("frames", "ws", m)>>)
    /\ UNCHANGED <<env, ghosts, ws, transports, io, pool, tls, framing>>

Ping(t) ==
    /\ At(t, "frames")
    /\ Top(t).x = <<>> \/ st["ws"] # "Connected"
    /\ Go(t, IF st["ws"] = "Connected" THEN <<WsFrame("ping", <<>>), F("pinged", "ws", <<>>)>> ELSE <<>>)

\* readFrame() and recvFrame(), again and again.
Deliver(opcode, payload) == <<F("recv", "ws", <<opcode, payload>>)>>
AfterData_KeepPartial(frame, all) ==
    <<IF frame.opcode = "continuation" THEN mPartial[1] ELSE frame.opcode, all>>

\* What a data frame leaves in mPartial.
AfterData(frame, all) ==
    <<IF frame.opcode = "continuation" THEN mPartial[1] ELSE frame.opcode, IF frame.fin THEN <<>> ELSE all>>

RecvFrame(t) ==
    /\ \/ At(t, "frames") /\ st["ws"] = "Connected" /\ Top(t).x # <<>>
       \/ At(t, "next")
    /\ LET read == ReadFrame(mBuffer["ws"])
           frame == read.frame
           continues == frame.opcode = "continuation"
           data == frame.opcode \in {"text", "binary", "continuation"}
           all == IF continues THEN mPartial[2] \o frame.payload ELSE frame.payload
           opcode == IF continues THEN mPartial[1] ELSE frame.opcode
           next(fs) == Go(t, IF read.len = 0 THEN <<>> ELSE fs \o <<F("next", "ws", <<>>)>>)
       IN /\ mBuffer' = [mBuffer EXCEPT !["ws"] = Rest(@, read.len)]
          /\ mPartial' = IF data THEN AfterData(frame, all) ELSE mPartial
          /\ mOutstandingPings' = IF frame.opcode = "pong" THEN 0 ELSE mOutstandingPings
          /\ next(CASE data -> (IF continues \/ mPartial[2] = <<>> THEN <<>> ELSE Deliver(mPartial[1], mPartial[2]))
                              \o (IF frame.fin THEN Deliver(opcode, all) ELSE <<>>)
                    [] frame.opcode = "ping" -> <<WsFrame("pong", frame.payload)>>
                    [] frame.opcode = "pong" -> <<>>
                    [] frame.opcode = "close" -> <<F("wsClose", "ws", <<>>), F("change", "ws", "Disconnected")>>
                    [] OTHER -> <<F("wsClose", "ws", <<>>)>>)
    /\ UNCHANGED <<env, ghosts, ws, transports, io, pool, tls, mCloseSent>>

\* addOutstandingPing.
AddOutstandingPing(t) ==
    /\ At(t, "pinged")
    /\ mOutstandingPings' = mOutstandingPings + 1
    /\ Go(t, IF plan.maxPings > 0 /\ mOutstandingPings + 1 > plan.maxPings
             THEN <<F("change", "ws", "Failed")>> ELSE <<>>)
    /\ UNCHANGED <<env, ghosts, ws, transports, io, pool, tls, mBuffer, mPartial, mCloseSent>>

\* close() of WsTransport: only when connected, and once.
WsClose(t) ==
    /\ \/ /\ At(t, "wsClose")
          /\ IF st["ws"] # "Connected" \/ mCloseSent
             THEN Return(t) /\ UNCHANGED mCloseSent
             ELSE /\ mCloseSent' = TRUE
                  /\ Go(t, <<WsFrame("close", <<>>), F("closeSent", "ws", <<>>)>>)
          /\ UNCHANGED timers
       \/ /\ At(t, "closeSent")
          /\ timers' = timers \cup ({"close"} \cap plan.timeouts)
          /\ Return(t)
          /\ UNCHANGED mCloseSent
    /\ UNCHANGED <<env, ghosts, ws, transports, io, tls, mBuffer, mPartial, mOutstandingPings, tasks>>

-----------------------------------------------------------------------------
\* WebSocketServer, and its TcpServer.

\* accept() waits in poll() for a connection or the interrupter, without the mutex;
\* runLoop() makes a WebSocket of a connection, and tells the application.
Accept(t) ==
    /\ \/ /\ At(t, "accept")
          /\ Go(t, IF listening THEN <<F("polling", "tcp", <<>>), Top(t)>> ELSE <<>>)
          /\ UNCHANGED <<state, alive, mSock, socks, pipe, clients>>
       \/ /\ At(t, "polling")
          /\ pipe > 0 \/ (listening /\ clients > 0)
          /\ pipe' = IF listening THEN 0 ELSE pipe
          /\ IF listening /\ clients > 0
             THEN /\ clients' = clients - 1
                  /\ mSock' = 1 /\ socks' = {1}
                  /\ state' = "Connecting"
                  /\ Go(t, <<F("init", "tcp", <<>>), F("client", "ws", <<>>)>>)
             ELSE Return(t) /\ UNCHANGED <<state, mSock, socks, clients>>
          /\ UNCHANGED alive
       \/ /\ At(t, "client")
          /\ Go(t, Body(plan.onClient))
          /\ UNCHANGED <<state, alive, mSock, socks, pipe, clients>>
    /\ UNCHANGED <<ghosts, layers, pool, plan, member, array, st, onState, onRecv, lost, entry,
                   mResolved, sending, listening, net, received>>

StopServer_NoInterrupt(t) ==
    /\ \/ At(t, "stopServer") /\ listening' = FALSE /\ Go(t, <<F("join", "ws", <<>>)>>)
       \/ At(t, "join") /\ stack[Server] = <<>> /\ Return(t) /\ UNCHANGED listening
    /\ UNCHANGED <<ghosts, ws, transports, io, layers, pool, plan, pipe, clients, net, received>>

\* stop(): the listening socket is closed, the server's thread woken and joined.
StopServer(t) ==
    /\ \/ /\ At(t, "stopServer")
          /\ listening' = FALSE
          /\ pipe' = pipe + 1
          /\ Go(t, <<F("join", "ws", <<>>)>>)
       \/ /\ At(t, "join")
          /\ stack[Server] = <<>>
          /\ Return(t)
          /\ UNCHANGED <<listening, pipe>>
    /\ UNCHANGED <<ghosts, ws, transports, io, layers, pool, plan, clients, net, received>>

-----------------------------------------------------------------------------
\* What only changes the stack.
Move(t) ==
    \/ CallState(t) \/ Recv(t) \/ Throw(t) \/ Close(t) \/ ForceClose(t) \/ EnqueueTeardown(t) \/ TrySendQueue(t)
    \/ Lost(t) \/ Shaken(t) \/ Ping(t)

Step(t) ==
    \/ Move(t) /\ UNCHANGED <<env, ghosts, ws, transports, io, layers, pool>>
    \/ ChangeState(t) \/ Detach(t) \/ Release(t) \/ Destroyed(t) \/ Open(t) \/ Closing(t)
    \/ CloseTransports(t) \/ Outgoing(t) \/ ReceiveMessage(t) \/ OpenNow(t) \/ Timeout(t)
    \/ Started(t) \/ SetTcpTransport(t) \/ InitProxyTransport(t) \/ InitTlsTransport(t)
    \/ InitWsTransport(t) \/ StartProxy(t) \/ StartTls(t) \/ StartWs(t) \/ StartTcp(t) \/ TlsStop(t)
    \/ RunTask(t) \/ Resolve(t) \/ Attempt(t) \/ AddPoll(t) \/ TcpClose(t) \/ PollAttempt(t)
    \/ Send(t) \/ TrySendMessage(t) \/ PollProcess(t) \/ Process(t) \/ ProxyIncoming(t)
    \/ TlsIncoming(t) \/ DoRecv(t) \/ Pull(t) \/ Shake(t) \/ ReadRecords(t)
    \/ WsIncoming(t) \/ RecvFrame(t) \/ AddOutstandingPing(t) \/ WsClose(t)
    \/ Accept(t) \/ StopServer(t)

\* A program that has crashed does nothing any more.
Next == ~crashed /\ \E t \in Threads : Step(t)

\* No behaviour goes on for ever: threads run, timers expire, and the peer sends
\* what the plan says.
Spec == Init /\ [][Next]_vars /\ WF_vars(Next)

-----------------------------------------------------------------------------
TypeOK ==
    /\ state \in {"Connecting", "Open", "Closing", "Closed"}
    /\ st \in [Kinds -> {"Disconnected", "Connecting", "Connected", "Completed", "Failed"}]
    /\ alive \in [Kinds -> {"none", "alive", "dying", "gone"}]
    /\ member \cup array \subseteq Used \cup {"ws"}
    /\ \A k \in member \cup array : alive[k] = "alive"
    /\ onState \cup onRecv \subseteq {k \in Kinds : alive[k] # "none"}
    /\ socks \cup lost \cup {mSock} \subseteq Nat
    /\ mPendingRecvCount \in Nat /\ mOutstandingPings \in Nat /\ pipe \in Nat

\* What the peer says arrives in order and whole, whatever the fragments, the
\* control frames between them and the places where the connection cuts.
ReceivedInOrder == IsPrefix(received, plan.said)

\* What is given to the connection leaves in the order of the calls, each message
\* whole, though the socket takes only part of it and the rest waits in mSendQueue.
\* Not so once process() empties the queue while send() does: it lacks the mutex.
WrittenInOrder == raced \/ IsPrefix(wire, handed)

\* A WebSocket that closes does not open any more, unless it began to close between
\* the test of the state and its exchange, when the handshake ends.
NeverReopened ==
    [][(state \in {"Closing", "Closed"} /\ state' = "Open") => overtaken]_vars

\* send() found the socket full and waits for the poll service with mSendMutex locked,
\* while a callback on the poll thread waits for mSendMutex: neither goes on.
Inverted == At(Poll, "write") /\ \E t \in Threads \ {Poll} : At(t, "setPoll") /\ ~SendFree(Poll)

\* No thread waits for ever for a callback of a transport, a mutex, the poll service,
\* or the thread of the server: every call returns, but for accept() while the server
\* listens, and for the two calls that take the same two mutexes in opposite orders.
CallsReturn ==
    <>[](\/ crashed \/ Inverted
         \/ \A t \in Threads : stack[t] = <<>> \/ (At(t, "polling") /\ listening))

\* A WebSocket that does not stay open ends closed, its transports are destroyed and
\* their socket closed, unless close() came during the handshake and was lost, the
\* transports hang on that of a proxy, or the socket is that of a failed attempt.
Released ==
    <>[](\/ crashed \/ Inverted \/ missed \/ overtaken \/ state = "Open"
         \/ state = "Closed" /\ ("proxy" \in member \/ socks \subseteq lost))
=============================================================================
