------------------------------ MODULE Lifecycle ------------------------------
(***************************************************************************)
(* A PeerConnection that brings its transports up, one upon the other,     *)
(* while it is closed (src/src/impl/peerconnection.cpp:66-91, 120-385 and  *)
(* 1153-1213): the application, the agent's thread, the pool and the       *)
(* association start, fail and close it at the same time.                  *)
(*                                                                         *)
(* A transport lives as long as something refers to it: a member of the    *)
(* connection, a variable of a thread, a teardown task, or the transport   *)
(* above it.  A state callback holds its mutex until it returns, and to    *)
(* reset it waits for that.  A change of the connection's state and the    *)
(* enqueueing of its announcement are one step, and what the transports    *)
(* do below their state is left out.                                       *)
(***************************************************************************)
EXTENDS Naturals, Sequences, FiniteSets

CONSTANTS
    Ice, Dtls, Sctp,        \* the transports of each kind that may be created
    Throws,                 \* kinds whose start() may fail
    Plans,                  \* bounds: the calls the application may make, each once at
                            \* most, and how many transports may end by themselves
    None

Kinds == {"ice", "dtls", "sctp"}
Transports == Ice \cup Dtls \cup Sctp
Threads == {"user", "closer", "agent", "worker", "association", "processor", "teardown"}

ASSUME LifecycleAssumption ==
    /\ None \notin Transports
    /\ Ice \cap Dtls = {} /\ Ice \cap Sctp = {} /\ Dtls \cap Sctp = {}
    /\ Throws \subseteq Kinds
    /\ \A p \in Plans : p.calls \subseteq {"offer", "renegotiate", "close", "destroy"}
                        /\ p.failures \in Nat

VARIABLES
    state, closing,
    member,                 \* mIceTransport, mDtlsTransport, mSctpTransport
    mState,                 \* of each transport, "none" before it is created
    mLower,
    mStateChangeCallback,   \* transports whose callback is set
    gathering,              \* ICE transports whose agent runs
    ending,                 \* transports that have been stopped
    plan,                   \* the bounds of this behaviour
    failures,               \* number of transports that ended by themselves
    remoteApp, localApp,    \* the descriptions have an application
    channels,               \* data channels and tracks are "open" or "closed"
    queue,                  \* of mProcessor
    told,                   \* the last state given to the application: Closed, or another
    listening,              \* stateChangeCallback is set
    calls,                  \* calls the application has made
    tasks,                  \* of the TearDownProcessor: transports by kind
    at, on, what, mine,     \* of each thread: where it is, the transport whose
    held                    \* callback it runs, the kind it starts and what it
                            \* started, and the transports its variables hold

facts == <<remoteApp, localApp, failures>>
lives == <<mState, mLower, gathering>>
thread == <<at, on, what, mine>>
keep == <<facts, channels, told, listening, calls>>
vars == <<state, closing, member, lives, mStateChangeCallback, ending, keep, queue, tasks,
          thread, held, plan>>

States == {"New", "Connecting", "Connected", "Disconnected", "Failed", "Closed"}
TransportStates == {"Disconnected", "Connecting", "Connected", "Failed"}
Of(k) == CASE k = "ice" -> Ice [] k = "dtls" -> Dtls [] k = "sctp" -> Sctp
LowerKind_Ice(k) == "ice"
LowerKind(k) == IF k = "sctp" THEN "dtls" ELSE "ice"
Initializing == {"load", "store", "start", "check", "drop"}
Labels == {"idle", "gather", "renegotiate", "callback", "close", "remoteClose", "stop",
           "remoteStop", "test", "cas", "tell", "sctp", "dtls", "ice", "clear", "reset"} \cup Initializing

TypeOK ==
    /\ state \in States /\ told \in {"none", "other", "Closed"}
    /\ {closing, listening, remoteApp, localApp} \subseteq BOOLEAN
    /\ \A k \in Kinds : member[k] \in Of(k) \cup {None}
    /\ mState \in [Transports -> TransportStates \cup {"none"}]
    /\ \A x \in Ice : mLower[x] = None
    /\ \A x \in Dtls : mLower[x] \in Ice \cup {None}
    /\ \A x \in Sctp : mLower[x] \in Dtls \cup {None}
    /\ UNION {mStateChangeCallback, gathering, ending} \subseteq Transports
    /\ \A x \in Transports : x \in ending => mState[x] # "none"
    /\ failures \in 0..plan.failures
    /\ channels \in {"open", "closed"} /\ calls \subseteq plan.calls
    /\ at \in [Threads -> Labels]
    /\ {on[t] : t \in Threads} \subseteq Transports \cup {"connection", None}
    /\ \A t \in Threads : held[t] \subseteq Transports /\ mine[t] \in Transports \cup {None}
    /\ what \in [Threads -> Kinds]

Init ==
    /\ state = "New" /\ told = "none" /\ closing = FALSE /\ listening = TRUE
    /\ member = [k \in Kinds |-> None]
    /\ mState = [x \in Transports |-> "none"]
    /\ mLower = [x \in Transports |-> None]
    /\ mStateChangeCallback = {} /\ gathering = {} /\ ending = {} /\ failures = 0 /\ plan \in Plans
    /\ remoteApp \in BOOLEAN /\ localApp = remoteApp
    /\ channels = "open" /\ queue = <<>> /\ calls = {} /\ tasks = <<>>
    /\ at = [t \in Threads |-> "idle"] /\ on = [t \in Threads |-> None]
    /\ what = [t \in Threads |-> "ice"] /\ mine = [t \in Threads |-> None]
    /\ held = [t \in Threads |-> {}]

-----------------------------------------------------------------------------
\* The transports something refers to, and those below them.
Below(S) == S \cup ({mLower[x] : x \in S} \ {None})
Alive ==
    Below(Below(({member[k] : k \in Kinds} \ {None})
                \cup (UNION {held[t] : t \in Threads})
                \cup (UNION {tasks[i] : i \in 1..Len(tasks)})))

\* A step of t stops the transports S and releases references: a destructor stops
\* the lower transport, and that of an ICE transport joins the agent's thread.
Ends(t, S) ==
    LET gone == Alive \ Alive' IN
    /\ ending' = (ending \cup S \cup {mLower[x] : x \in gone}) \cap Alive'
    /\ gone \cap Ice # {} => t = "agent" \/ at["agent"] = "idle"

Goes(t, label) == at' = [at EXCEPT ![t] = label] /\ UNCHANGED <<on, what, mine>>

Returns(t) ==
    /\ at' = [at EXCEPT ![t] = "idle"]
    /\ on' = [on EXCEPT ![t] = None]
    /\ mine' = [mine EXCEPT ![t] = None]
    /\ held' = [held EXCEPT ![t] = {}]
    /\ what' = [what EXCEPT ![t] = "ice"]

InCallback_Never(x, t) == FALSE
InCallback(x, t) == \E u \in Threads \ {t} : on[u] = x /\ at[u] \notin {"idle", "callback"}

\* PeerConnection::changeState to a state that is not Closed, then other tasks.
ChangeState(new, more) ==
    LET changes == state \notin {"Closed", new} IN
    /\ state' = IF changes THEN new ELSE state
    /\ queue' = (IF changes THEN Append(queue, "tell") ELSE queue) \o more

-----------------------------------------------------------------------------
\* initIceTransport, initDtlsTransport, initSctpTransport.

\* The catch block.
Throw(t) == ChangeState("Failed", <<>>) /\ Returns(t)

Load(t) ==
    LET k == what[t] IN LET lower == member[LowerKind(k)] IN
    /\ at[t] = "load"
    /\ \/ /\ member[k] # None
          /\ IF t = "user" /\ k = "ice"
             THEN /\ held' = [held EXCEPT ![t] = {member[k]}]
                  /\ mine' = [mine EXCEPT ![t] = member[k]]
                  /\ at' = [at EXCEPT ![t] = "gather"]
                  /\ UNCHANGED <<on, what>>
             ELSE Returns(t)
          /\ UNCHANGED <<state, queue>>
       \/ /\ member[k] = None
          /\ k # "ice" => lower # None
          /\ k = "sctp" => localApp /\ remoteApp
          /\ held' = [held EXCEPT ![t] = IF k = "ice" THEN @ ELSE @ \cup {lower}]
          /\ mine' = [mine EXCEPT ![t] = IF k = "ice" THEN None ELSE lower]
          /\ at' = [at EXCEPT ![t] = "store"]
          /\ UNCHANGED <<on, what, state, queue>>
       \/ /\ member[k] = None
          /\ k # "ice" /\ (lower = None \/ (k = "sctp" /\ ~(localApp /\ remoteApp)))
          /\ Throw(t)
    /\ UNCHANGED <<closing, member, lives, mStateChangeCallback, tasks, keep>>
    /\ Ends(t, {})

\* emplaceTransport publishes the new transport ...
Store(t) ==
    LET k == what[t] IN
    /\ at[t] = "store"
    /\ \E y \in Of(k) : mState[y] = "none"
    /\ LET x == CHOOSE y \in Of(k) : mState[y] = "none" IN
        /\ member' = [member EXCEPT ![k] = x]
        /\ mState' = [mState EXCEPT ![x] = "Disconnected"]
        /\ mLower' = [mLower EXCEPT ![x] = mine[t]]
        /\ mStateChangeCallback' = mStateChangeCallback \cup {x}
        /\ mine' = [mine EXCEPT ![t] = x]
        /\ held' = [held EXCEPT ![t] = @ \cup {x}]
    /\ at' = [at EXCEPT ![t] = "start"]
    /\ UNCHANGED <<state, closing, gathering, queue, tasks, on, what, keep>>
    /\ Ends(t, {})

\* ... starts it, which may throw ...
Start(t) ==
    LET k == what[t] IN
    /\ at[t] = "start"
    /\ \/ /\ mState' = IF k = "ice" THEN mState ELSE [mState EXCEPT ![mine[t]] = "Connecting"]
          /\ Goes(t, "check")
          /\ UNCHANGED <<member, state, queue, held>>
       \/ /\ k \in Throws
          /\ member' = [member EXCEPT ![k] = None]
          /\ Throw(t)
          /\ UNCHANGED mState
    /\ UNCHANGED <<closing, mLower, gathering, mStateChangeCallback, tasks, keep>>
    /\ Ends(t, {})

\* ... and then tests whether the connection was closed meanwhile.
Late_Never == FALSE
Late == closing \/ state = "Closed"

Check(t) ==
    /\ at[t] = "check"
    /\ IF Late
       THEN /\ member' = [member EXCEPT ![what[t]] = None]
            /\ Goes(t, "drop") /\ UNCHANGED held
       ELSE /\ IF what[t] = "ice" THEN Goes(t, "gather") /\ UNCHANGED held ELSE Returns(t)
            /\ UNCHANGED member
    /\ UNCHANGED <<state, closing, lives, mStateChangeCallback, queue, tasks, keep>>
    /\ Ends(t, {})

\* stop(): one of an association that is connecting announces the failure at once.
Announces(x) == x \in Sctp /\ mState[x] = "Connecting"
Stop(t, x) ==
    IF Announces(x)
    THEN /\ mState' = [mState EXCEPT ![x] = "Failed"]
         /\ ~InCallback(x, t)
         /\ IF x \in mStateChangeCallback THEN ChangeState("Failed", <<"remoteClose">>)
            ELSE UNCHANGED <<state, queue>>
    ELSE UNCHANGED <<mState, state, queue>>

Drop(t) ==
    /\ at[t] = "drop"
    /\ Stop(t, mine[t])
    /\ Returns(t)
    /\ UNCHANGED <<closing, member, mLower, gathering, mStateChangeCallback, tasks, keep>>
    /\ Ends(t, {mine[t]})

-----------------------------------------------------------------------------
\* The application: setLocalDescription() or setRemoteDescription() starts the ICE
\* transport and then gathers; a later remote description may add an application.
Offer ==
    /\ at["user"] = "idle" /\ "offer" \in plan.calls \ calls /\ "destroy" \notin calls
    /\ calls' = calls \cup {"offer"}
    /\ at' = [at EXCEPT !["user"] = "load"]
    /\ what' = [what EXCEPT !["user"] = "ice"]
    /\ UNCHANGED <<state, closing, member, lives, mStateChangeCallback, ending, facts,
                   channels, queue, told, listening, tasks, on, mine, held>>

Gather ==
    /\ at["user"] = "gather"
    /\ gathering' = gathering \cup {mine["user"]}
    /\ Returns("user")
    /\ UNCHANGED <<state, closing, member, mState, mLower, mStateChangeCallback, queue,
                   tasks, keep>>
    /\ Ends("user", {})

\* processRemoteDescription
Renegotiate ==
    /\ at["user"] = "idle"
    /\ "renegotiate" \in plan.calls \ calls /\ "offer" \in calls /\ "destroy" \notin calls
    /\ calls' = calls \cup {"renegotiate"}
    /\ remoteApp' = TRUE
    /\ localApp' \in {localApp, TRUE}
    /\ at' = [at EXCEPT !["user"] = "renegotiate"]
    /\ what' = [what EXCEPT !["user"] = "sctp"]
    /\ UNCHANGED <<state, closing, member, lives, mStateChangeCallback, ending, failures,
                   channels, queue, told, listening, tasks, on, mine, held>>

RenegotiateTest ==
    /\ at["user"] = "renegotiate"
    /\ IF member["sctp"] = None /\ member["dtls"] # None /\ mState[member["dtls"]] = "Connected"
       THEN Goes("user", "load") /\ UNCHANGED held
       ELSE Returns("user")
    /\ UNCHANGED <<state, closing, member, lives, mStateChangeCallback, ending, queue,
                   tasks, keep>>

-----------------------------------------------------------------------------
\* Transport::changeState on the thread of a transport, and its callback.
Change(t, x, new) ==
    /\ at[t] = "idle" /\ x \in Alive
    /\ mState' = [mState EXCEPT ![x] = new]
    /\ at' = [at EXCEPT ![t] = "callback"]
    /\ on' = [on EXCEPT ![t] = x]
    /\ held' = [held EXCEPT ![t] = IF t = "agent" THEN {} ELSE {x}]
    /\ UNCHANGED <<state, closing, member, mLower, gathering, mStateChangeCallback, ending,
                   remoteApp, localApp, channels, queue, told, listening, calls, tasks,
                   what, mine>>

\* Packets go up on the threads of the transports below.
Receives(x) == at["agent"] = "idle" /\ (x \in Sctp => at["worker"] = "idle")

Comes(t, x, new) == Change(t, x, new) /\ UNCHANGED failures
Fails(t, x, new) ==
    /\ failures < plan.failures
    /\ failures' = failures + 1
    /\ Change(t, x, new)

IceChange ==
    \E x \in gathering :
        \/ mState[x] = "Disconnected" /\ Comes("agent", x, "Connecting")
        \/ mState[x] = "Connecting" /\ Comes("agent", x, "Connected")
        \/ mState[x] \in {"Connecting", "Connected"} /\ Fails("agent", x, "Failed")

DtlsChange ==
    \E x \in Dtls :
        \/ mState[x] = "Connecting" /\ x \notin ending /\ Receives(x)
           /\ Comes("worker", x, "Connected")
        \/ mState[x] = "Connecting" /\ Fails("worker", x, "Failed")
        \/ mState[x] = "Connected" /\ Fails("worker", x, "Disconnected")

SctpChange ==
    \E x \in Sctp :
        \/ mState[x] = "Connecting" /\ Receives(x) /\ Comes("association", x, "Connected")
        \/ mState[x] = "Connecting" /\ Fails("association", x, "Failed")
        \/ mState[x] = "Connected" /\ Fails("association", x, "Disconnected")

\* A transport that was stopped comes to its end.
Finish(x) ==
    /\ x \in ending
    /\ \/ x \in Dtls /\ mState[x] = "Connecting" /\ Comes("worker", x, "Failed")
       \/ x \in Dtls /\ mState[x] = "Connected" /\ Comes("worker", x, "Disconnected")
       \/ x \in Sctp /\ mState[x] = "Connected" /\ Comes("association", x, "Disconnected")

\* Whether the callback goes on to start the transport above.
Climbs(x) == mState[x] = "Connected" /\ (x \in Ice \/ (x \in Dtls /\ remoteApp))

Consequence_None(s) == <<>>
Consequence(s) == IF s \in {"Failed", "Disconnected"} THEN <<"remoteClose">> ELSE <<>>

\* The callback of a transport goes on to start the one above, or changes the state
\* (what a new association does to the channels is in DataChannels).
Callback(t) ==
    LET x == on[t] IN
    /\ at[t] = "callback"
    /\ \/ /\ x \in mStateChangeCallback /\ Climbs(x)
          /\ at' = [at EXCEPT ![t] = "load"]
          /\ what' = [what EXCEPT ![t] = IF x \in Ice THEN "dtls" ELSE "sctp"]
          /\ UNCHANGED <<on, mine, held, state, queue>>
       \/ /\ x \in mStateChangeCallback /\ ~Climbs(x)
          /\ ChangeState(mState[x], Consequence(mState[x]))
          /\ Returns(t)
       \/ /\ x \notin mStateChangeCallback
          /\ Returns(t) /\ UNCHANGED <<state, queue>>
    /\ UNCHANGED <<closing, member, lives, mStateChangeCallback, tasks, keep>>
    /\ Ends(t, {})

-----------------------------------------------------------------------------
\* close(), and ~PeerConnection, which calls remoteClose().
Call(name, label) ==
    /\ at["closer"] = "idle" /\ name \in plan.calls \ calls /\ "destroy" \notin calls
    /\ name = "destroy" => at["user"] = "idle"
    /\ calls' = calls \cup {name}
    /\ Goes("closer", label)
    /\ UNCHANGED <<state, closing, member, lives, mStateChangeCallback, ending, facts,
                   channels, queue, told, listening, tasks, held>>

CallClose == Call("close", "close")
CallDestroy == Call("destroy", "remoteClose")

\* closing.exchange(true)
CloseFlag(t) ==
    /\ at[t] \in {"close", "remoteClose"}
    /\ closing' = TRUE
    /\ \/ ~closing /\ Goes(t, IF at[t] = "close" THEN "stop" ELSE "remoteStop") /\ UNCHANGED held
       \/ closing /\ at[t] = "remoteClose" /\ Goes(t, "test") /\ UNCHANGED held
       \/ closing /\ at[t] = "close" /\ Returns(t)
    /\ UNCHANGED <<state, member, lives, mStateChangeCallback, ending, queue, tasks, keep>>

\* The association is stopped, or without one remoteClose() is called.
CloseStop(t) ==
    LET x == member["sctp"] IN
    /\ at[t] \in {"stop", "remoteStop"}
    /\ \/ /\ x # None
          /\ Stop(t, x)
          /\ IF at[t] = "stop" THEN Returns(t) ELSE Goes(t, "test") /\ UNCHANGED held
       \/ /\ x = None
          /\ Goes(t, "test")
          /\ UNCHANGED <<mState, state, queue, held>>
    /\ UNCHANGED <<closing, member, mLower, gathering, mStateChangeCallback, tasks, keep>>
    /\ Ends(t, {x} \ {None})

\* The rest of remoteClose(), and closeTransports().
Test(t) ==
    /\ at[t] = "test"
    /\ IF state = "Closed" THEN Returns(t) /\ UNCHANGED queue
       ELSE queue' = Append(queue, "closeChannels") /\ Goes(t, "cas") /\ UNCHANGED held
    /\ UNCHANGED <<state, closing, member, lives, mStateChangeCallback, tasks, keep>>
    /\ Ends(t, {})

\* Of several threads one takes the connection to Closed.
Cas(t) ==
    /\ at[t] = "cas"
    /\ state' = "Closed"
    /\ IF state = "Closed" THEN Returns(t) ELSE Goes(t, "tell") /\ UNCHANGED held
    /\ UNCHANGED <<closing, member, lives, mStateChangeCallback, queue, tasks, keep>>
    /\ Ends(t, {})

\* The callback is stolen, called at once, and the others are reset.
Listens_On == listening
Listens == FALSE

Tell(t) ==
    /\ at[t] = "tell"
    /\ ~InCallback("connection", t)
    /\ told' = "Closed" /\ listening' = Listens
    /\ Goes(t, "sctp")
    /\ UNCHANGED <<state, closing, member, lives, mStateChangeCallback, ending, facts,
                   channels, queue, calls, tasks, held>>

Exchange(t) ==
    LET k == at[t] IN
    /\ k \in Kinds
    /\ held' = [held EXCEPT ![t] = @ \cup ({member[k]} \ {None})]
    /\ member' = [member EXCEPT ![k] = None]
    /\ Goes(t, CASE k = "sctp" -> "dtls" [] k = "dtls" -> "ice" [] k = "ice" -> "clear")
    /\ UNCHANGED <<state, closing, lives, mStateChangeCallback, ending, queue, tasks, keep>>

\* The callbacks of the transports are reset, which waits for those in progress,
\* and the transports given to the TearDownProcessor.
Clear(t) ==
    /\ at[t] = "clear"
    /\ \A x \in held[t] : ~InCallback(x, t)
    /\ mStateChangeCallback' = mStateChangeCallback \ held[t]
    /\ tasks' = Append(tasks, held[t]) /\ Returns(t)
    /\ UNCHANGED <<state, closing, member, lives, queue, keep>>
    /\ Ends(t, {})

Closing(t) ==
    CloseFlag(t) \/ CloseStop(t) \/ Test(t) \/ Cas(t) \/ Tell(t) \/ Exchange(t) \/ Clear(t)

-----------------------------------------------------------------------------
\* The next task of mProcessor; the state callback of the application may close the
\* connection, with the callback's mutex held.
Take ==
    /\ at["processor"] = "idle" /\ queue # <<>>
    /\ queue' = Tail(queue)
    /\ \/ /\ Head(queue) = "remoteClose"
          /\ Goes("processor", "remoteClose")
          /\ UNCHANGED <<told, channels, calls>>
       \/ /\ Head(queue) = "closeChannels"
          /\ channels' = "closed"
          /\ UNCHANGED <<told, thread, calls>>
       \/ /\ Head(queue) = "tell"
          /\ IF listening THEN told' = "other" ELSE UNCHANGED told
          /\ \/ UNCHANGED <<thread, calls>>
             \/ /\ listening /\ "close" \in plan.calls \ calls
                /\ calls' = calls \cup {"close"}
                /\ at' = [at EXCEPT !["processor"] = "close"]
                /\ on' = [on EXCEPT !["processor"] = "connection"]
                /\ UNCHANGED <<what, mine>>
          /\ UNCHANGED channels
    /\ UNCHANGED <<state, closing, member, lives, mStateChangeCallback, ending, facts,
                   listening, tasks, held>>

\* The teardown task stops the topmost transport ...
TearDownStop ==
    LET all == Head(tasks) IN
    LET top == IF all \cap Sctp # {} THEN all \cap Sctp
               ELSE IF all \cap Dtls # {} THEN all \cap Dtls ELSE all IN
    /\ at["teardown"] = "idle" /\ tasks # <<>>
    /\ held' = [held EXCEPT !["teardown"] = all]
    /\ tasks' = Tail(tasks)
    /\ Goes("teardown", "reset")
    /\ mState' = [x \in Transports |-> IF x \in top /\ Announces(x) THEN "Failed" ELSE mState[x]]
    /\ UNCHANGED <<state, closing, member, mLower, gathering, mStateChangeCallback, queue,
                   keep>>
    /\ Ends("teardown", top)

\* ... and releases them all.
TearDownReset ==
    /\ at["teardown"] = "reset"
    /\ Returns("teardown")
    /\ UNCHANGED <<state, closing, member, lives, mStateChangeCallback, queue, tasks, keep>>
    /\ Ends("teardown", {})

Initialize(t) == Load(t) \/ Store(t) \/ Start(t) \/ Check(t) \/ Drop(t)

\* Each thread does one thing at a time.
Step(t) ==
    \/ t \in {"user", "agent", "worker"} /\ Initialize(t)
    \/ t \in {"agent", "worker", "association"} /\ Callback(t)
    \/ t \in {"closer", "processor"} /\ Closing(t)
    \/ t = "user" /\ (Gather \/ RenegotiateTest)
    \/ t = "processor" /\ Take
    \/ t = "teardown" /\ (TearDownStop \/ TearDownReset)

Next ==
    /\ UNCHANGED plan
    /\ \/ \E t \in Threads : Step(t)
       \/ Offer \/ Renegotiate \/ CallClose \/ CallDestroy
       \/ IceChange \/ DtlsChange \/ SctpChange
       \/ \E x \in Transports : Finish(x)

\* What has begun goes on: each thread runs, and a transport that was stopped ends.
Fairness ==
    /\ \A t \in Threads : WF_vars(Step(t) /\ UNCHANGED plan)
    /\ \A x \in Transports : WF_vars(Finish(x) /\ UNCHANGED plan)

Spec == Init /\ [][Next]_vars /\ Fairness

-----------------------------------------------------------------------------
\* close() ends: whatever the transports do, the application is told Closed.
ClosesEventually == closing ~> (told = "Closed")

\* Closed is the last state the application is told.
ClosedIsLast == [][told = "Closed" => told' = told]_vars

\* A closed connection leaves no transport behind, also one that was being started,
\* and its channels and tracks are closed.
AllReleased == (state = "Closed") ~> (Alive = {} /\ channels = "closed")

\* The agent's thread, which the destructor of an ICE transport joins, never
\* releases the last reference to it.
AgentNotOnItself ==
    [][(\E x \in Ice : x \in Alive /\ x \notin Alive') => at'["agent"] = at["agent"]]_vars

\* No step announces anything after Closed, or has the agent join itself.
LifecycleSafety == []TypeOK /\ ClosedIsLast /\ AgentNotOnItself
=============================================================================
