-------------------------- MODULE Lifecycle_proofs --------------------------
(***************************************************************************)
(* Proofs about Lifecycle, for any transports, failures and calls of the   *)
(* application: nothing is announced after Closed, and the agent's thread, *)
(* which the destructor of an ICE transport joins, never destroys one.     *)
(***************************************************************************)
EXTENDS Lifecycle, SequenceTheorems, TLAPS

\* The transports that exist or existed: only these are referred to.
Created == {x \in Transports : mState[x] # "none"}

Holders ==
    /\ member \in [Kinds -> Created \cup {None}]
    /\ mLower \in [Transports -> Created \cup {None}]
    /\ held \in [Threads -> SUBSET Created]
    /\ tasks \in Seq(SUBSET Created)

References ==
    /\ Holders
    /\ mine \in [Threads -> Created \cup {None}]
    /\ on \in [Threads -> Transports \cup {"connection", None}]
    /\ gathering \subseteq Ice \cap Created
    /\ mStateChangeCallback \subseteq Created /\ ending \subseteq Created
    /\ plan \in Plans

\* A thread runs the callbacks of one kind of transport, and starts the kind above;
\* the application starts ICE and, after a new description, SCTP.
Owns(t, x) ==
    \/ t = "agent" /\ x \in Ice
    \/ t = "worker" /\ x \in Dtls
    \/ t = "association" /\ x \in Sctp

MayStart(t, k) ==
    \/ t = "agent" /\ k = "dtls"
    \/ t = "worker" /\ k = "sctp"
    \/ t = "user" /\ k \in {"ice", "sctp"}

Caller(t) ==
    /\ t \in {"agent", "worker", "association"} =>
          /\ at[t] \in {"idle", "callback"} \cup Initializing
          /\ at[t] # "idle" => Owns(t, on[t]) /\ on[t] \in Created
    /\ at[t] \in Initializing => MayStart(t, what[t])
    /\ at[t] = "store" => \/ what[t] = "ice" /\ mine[t] = None
                          \/ what[t] # "ice" /\ mine[t] \in Of(LowerKind(what[t]))
    /\ at[t] \in {"start", "check", "drop"} => mine[t] \in Of(what[t])
    /\ at[t] = "gather" => t = "user" /\ what[t] = "ice" /\ mine[t] \in Ice
    /\ at[t] = "renegotiate" => t = "user" /\ what[t] = "sctp"
    /\ at[t] = "callback" => t \in {"agent", "worker", "association"}

Callers == \A t \in Threads : Caller(t)

\* The application makes one offer, hence one ICE transport, whose agent it starts
\* when it has published the transport.
OneIce ==
    /\ \A x, y \in Ice \cap Created : x = y
    /\ Ice \cap Created # {} => "offer" \in calls
    /\ at["user"] \in {"load", "store"} /\ what["user"] = "ice" =>
          "offer" \in calls /\ Ice \cap Created = {}
    /\ at["user"] \in {"start", "check", "drop", "gather"} /\ what["user"] = "ice" =>
          gathering = {}

\* The agent runs a callback of an ICE transport, under the mutex of the callback
\* while it starts the one above, and holds nothing before that.
Agent ==
    /\ at["agent"] # "idle" => on["agent"] \in gathering
    /\ at["agent"] \in Initializing => on["agent"] \in mStateChangeCallback
    /\ at["agent"] \notin Initializing => held["agent"] = {}

\* An ICE transport whose callback is set is still the connection's, or is in the
\* hands of the thread that closes the connection and has yet to reset it.
Registered ==
    \A x \in Ice \cap mStateChangeCallback :
        \/ x \in gathering
        \/ at["user"] \in {"start", "check", "gather"} /\ what["user"] = "ice"
        => \/ x = member["ice"]
           \/ \E t \in {"closer", "processor"} : at[t] = "clear" /\ x \in held[t]

Deaf == told = "Closed" => ~listening

Inv ==
    TypeOK /\ References /\ Callers /\ OneIce /\ Agent /\ Registered /\ Deaf

-----------------------------------------------------------------------------
\* A step of t leaves the other threads where they are.
Others(t) ==
    /\ at' \in [Threads -> Labels] /\ what' \in [Threads -> Kinds]
    /\ on' \in [Threads -> Transports \cup {"connection", None}]
    /\ mine' \in [Threads -> Transports \cup {None}]
    /\ held' \in [Threads -> SUBSET Transports]
    /\ \A u \in Threads \ {t} :
          /\ at'[u] = at[u] /\ on'[u] = on[u] /\ what'[u] = what[u]
          /\ mine'[u] = mine[u] /\ held'[u] = held[u]

\* The parts of TypeOK and References, as types of one variable each.
LEMMA Typed ==
    ASSUME TypeOK, References
    PROVE  /\ at \in [Threads -> Labels] /\ what \in [Threads -> Kinds]
           /\ on \in [Threads -> Transports \cup {"connection", None}]
           /\ mine \in [Threads -> Transports \cup {None}]
           /\ held \in [Threads -> SUBSET Transports]
           /\ member \in [Kinds -> Transports \cup {None}]
           /\ mState \in [Transports -> TransportStates \cup {"none"}]
           /\ mLower \in [Transports -> Transports \cup {None}]
  BY DEF TypeOK, References, Holders, Created

\* A thread goes to another label and moves no other thread.
LEMMA GoesTo ==
    ASSUME TypeOK, References, NEW t \in Threads, NEW l \in Labels, Goes(t, l), UNCHANGED held
    PROVE  Others(t) /\ at'[t] = l
  <1>1. at' = [at EXCEPT ![t] = l] /\ UNCHANGED <<on, what, mine, held>>
    BY DEF Goes
  <1> QED
    BY <1>1, Typed DEF Others

\* A thread that returns drops its references.
LEMMA ReturnsTo ==
    ASSUME TypeOK, References, NEW t \in Threads, Returns(t)
    PROVE  Others(t) /\ at'[t] = "idle" /\ held'[t] = {} /\ mine'[t] = None
  <1>1. "idle" \in Labels /\ "ice" \in Kinds
    BY DEF Labels, Kinds
  <1> QED
    BY <1>1, Typed DEF Returns, Others

\* A step of a thread moves no other thread.
LEMMA StepOthers ==
    ASSUME TypeOK, References, NEW t \in Threads, Step(t)
    PROVE  Others(t)
  <1>1. /\ at \in [Threads -> Labels] /\ what \in [Threads -> Kinds]
        /\ on \in [Threads -> Transports \cup {"connection", None}]
        /\ mine \in [Threads -> Transports \cup {None}]
        /\ held \in [Threads -> SUBSET Transports]
        /\ member \in [Kinds -> Transports \cup {None}]
    BY Typed
  <1>2. {"idle", "gather", "renegotiate", "callback", "close", "remoteClose", "stop",
         "remoteStop", "test", "cas", "tell", "sctp", "dtls", "ice", "clear", "reset",
         "load", "store", "start", "check", "drop"} \subseteq Labels
    BY DEF Labels, Initializing
  <1>3. Returns(t) => Others(t)
    BY ReturnsTo
  <1>4. \A l \in Labels : Goes(t, l) /\ UNCHANGED held => Others(t)
    BY GoesTo
  <1>5. ASSUME Load(t) PROVE Others(t)
    <2>1. CASE at' = [at EXCEPT ![t] = "gather"] /\ UNCHANGED <<on, what>>
               /\ member[what[t]] # None
               /\ held' = [held EXCEPT ![t] = {member[what[t]]}]
               /\ mine' = [mine EXCEPT ![t] = member[what[t]]]
      BY <1>1, <1>2, <2>1 DEF Others
    <2>2. CASE /\ what[t] # "ice" => member[LowerKind(what[t])] # None
               /\ held' = [held EXCEPT ![t] = IF what[t] = "ice" THEN @
                                              ELSE @ \cup {member[LowerKind(what[t])]}]
               /\ mine' = [mine EXCEPT ![t] = IF what[t] = "ice" THEN None
                                              ELSE member[LowerKind(what[t])]]
               /\ at' = [at EXCEPT ![t] = "store"] /\ UNCHANGED <<on, what>>
      <3>1. LowerKind(what[t]) \in Kinds
        BY DEF LowerKind, Kinds
      <3> QED
        BY <1>1, <1>2, <2>2, <3>1 DEF Others
    <2>3. CASE Returns(t)
      BY <1>3, <2>3
    <2> QED
      BY <1>5, <2>1, <2>2, <2>3 DEF Load, Throw
  <1>6. ASSUME Store(t) PROVE Others(t)
    <2>1. PICK x \in Transports : /\ mine' = [mine EXCEPT ![t] = x]
                                  /\ held' = [held EXCEPT ![t] = @ \cup {x}]
      <3> DEFINE x == CHOOSE y \in Of(what[t]) : mState[y] = "none"
      <3>1. x \in Of(what[t])
        BY <1>6 DEF Store
      <3>2. x \in Transports
        BY <1>1, <3>1 DEF Of, Kinds, Transports
      <3> QED
        BY <1>6, <3>2 DEF Store
    <2>2. at' = [at EXCEPT ![t] = "start"] /\ UNCHANGED <<on, what>>
      BY <1>6 DEF Store
    <2> QED
      BY <1>1, <1>2, <2>1, <2>2 DEF Others
  <1>7. ASSUME Start(t) PROVE Others(t)
    BY <1>2, <1>3, <1>4, <1>7 DEF Start, Throw
  <1>8. ASSUME Check(t) PROVE Others(t)
    BY <1>2, <1>3, <1>4, <1>8 DEF Check
  <1>9. ASSUME Drop(t) PROVE Others(t)
    BY <1>3, <1>9 DEF Drop
  <1>10. ASSUME Callback(t) PROVE Others(t)
    <2>1. CASE Returns(t)
      BY <1>3, <2>1
    <2>2. CASE /\ at' = [at EXCEPT ![t] = "load"]
               /\ what' = [what EXCEPT ![t] = IF on[t] \in Ice THEN "dtls" ELSE "sctp"]
               /\ UNCHANGED <<on, mine, held>>
      BY <1>1, <1>2, <2>2 DEF Others, Kinds
    <2> QED
      BY <1>10, <2>1, <2>2 DEF Callback
  <1>11. ASSUME Closing(t) PROVE Others(t)
    <2>1. CASE CloseFlag(t)
      BY <1>2, <1>3, <1>4, <2>1 DEF CloseFlag
    <2>2. CASE CloseStop(t)
      BY <1>2, <1>3, <1>4, <2>2 DEF CloseStop
    <2>3. CASE Test(t) \/ Cas(t)
      BY <1>2, <1>3, <1>4, <2>3 DEF Test, Cas
    <2>4. CASE Tell(t)
      BY <1>2, <1>4, <2>4 DEF Tell
    <2>5. CASE Exchange(t)
      <3>1. PICK l \in Labels : Goes(t, l)
        BY <1>2, <2>5 DEF Exchange, Kinds
      <3>2. at[t] \in Kinds /\ held' = [held EXCEPT ![t] = @ \cup ({member[at[t]]} \ {None})]
        BY <2>5 DEF Exchange
      <3>3. at' = [at EXCEPT ![t] = l] /\ UNCHANGED <<on, what, mine>>
        BY <3>1 DEF Goes
      <3> QED
        BY <1>1, <3>2, <3>3 DEF Others
    <2>6. CASE Clear(t)
      BY <1>3, <2>6 DEF Clear
    <2> QED
      BY <1>11, <2>1, <2>2, <2>3, <2>4, <2>5, <2>6 DEF Closing
  <1>12. ASSUME t = "user", Gather \/ RenegotiateTest PROVE Others(t)
    BY <1>2, <1>3, <1>4, <1>12 DEF Gather, RenegotiateTest
  <1>13. ASSUME t = "processor", Take PROVE Others(t)
    <2>1. CASE Goes("processor", "remoteClose")
      BY <1>2, <1>4, <1>13, <2>1 DEF Take
    <2>2. CASE UNCHANGED thread
      BY <1>1, <1>13, <2>2 DEF Take, thread, Others
    <2>3. CASE /\ at' = [at EXCEPT !["processor"] = "close"]
               /\ on' = [on EXCEPT !["processor"] = "connection"]
               /\ UNCHANGED <<what, mine>>
      BY <1>1, <1>2, <1>13, <2>3 DEF Take, Others
    <2> QED
      BY <1>13, <2>1, <2>2, <2>3 DEF Take
  <1>14. ASSUME t = "teardown", TearDownStop PROVE Others(t)
    <2>1. Goes(t, "reset") /\ held' = [held EXCEPT ![t] = Head(tasks)] /\ tasks # <<>>
      BY <1>14 DEF TearDownStop
    <2>2. Head(tasks) \in SUBSET Transports
      BY <2>1, HeadTailProperties DEF References, Holders, Created
    <2> QED
      BY <1>1, <1>2, <2>1, <2>2 DEF Goes, Others
  <1>15. ASSUME t = "teardown", TearDownReset PROVE Others(t)
    BY <1>3, <1>15 DEF TearDownReset
  <1> QED
    BY <1>5, <1>6, <1>7, <1>8, <1>9, <1>10, <1>11, <1>12, <1>13, <1>14, <1>15
       DEF Step, Initialize

\* The transports of each kind.
LEMMA Kind ==
    /\ Of("ice") = Ice /\ Of("dtls") = Dtls /\ Of("sctp") = Sctp
    /\ LowerKind("sctp") = "dtls" /\ LowerKind("dtls") = "ice" /\ LowerKind("ice") = "ice"
    /\ \A k \in Kinds : Of(k) \subseteq Transports /\ LowerKind(k) \in Kinds
    /\ None \notin Transports
  <1>1. Of("ice") = Ice /\ Of("dtls") = Dtls /\ Of("sctp") = Sctp
    BY Zenon DEF Of
  <1>2. \A k \in Kinds : k = "ice" \/ k = "dtls" \/ k = "sctp"
    BY DEF Kinds
  <1> QED
    BY <1>1, <1>2, LifecycleAssumption DEF LowerKind, Kinds, Transports

\* A call of the application, which starts on its thread.
LEMMA CallOthers ==
    ASSUME TypeOK, References
    PROVE  /\ Offer => Others("user") /\ at'["user"] = "load" /\ what'["user"] = "ice"
           /\ Renegotiate => Others("user") /\ at'["user"] = "renegotiate"
           /\ CallClose => Others("closer") /\ at'["closer"] = "close"
           /\ CallDestroy => Others("closer") /\ at'["closer"] = "remoteClose"
  <1>1. {"load", "renegotiate", "close", "remoteClose"} \subseteq Labels
        /\ "user" \in Threads /\ "closer" \in Threads /\ {"ice", "sctp"} \subseteq Kinds
    BY DEF Labels, Initializing, Threads, Kinds
  <1>2. ASSUME Offer PROVE Others("user") /\ at'["user"] = "load" /\ what'["user"] = "ice"
    BY <1>1, <1>2, Typed DEF Offer, Others
  <1>3. ASSUME Renegotiate PROVE Others("user") /\ at'["user"] = "renegotiate"
    BY <1>1, <1>3, Typed DEF Renegotiate, Others
  <1>4. ASSUME CallClose PROVE Others("closer") /\ at'["closer"] = "close"
    BY <1>1, <1>4, GoesTo DEF CallClose, Call
  <1>5. ASSUME CallDestroy PROVE Others("closer") /\ at'["closer"] = "remoteClose"
    BY <1>1, <1>5, GoesTo DEF CallDestroy, Call
  <1> QED
    BY <1>2, <1>3, <1>4, <1>5

\* A transport of the thread t changes its state: IceChange, DtlsChange, SctpChange
\* and Finish.
Changes(t) ==
    \E x \in Created, new \in TransportStates :
        /\ Change(t, x, new) /\ Owns(t, x)
        /\ t = "agent" => x \in gathering
        /\ failures' = failures \/ (failures < plan.failures /\ failures' = failures + 1)

\* The state of a transport changes on the thread that drives it.
LEMMA ChangeCases ==
    ASSUME References, TypeOK,
           IceChange \/ DtlsChange \/ SctpChange \/ \E x \in Transports : Finish(x)
    PROVE  \E t \in {"agent", "worker", "association"} : Changes(t)
  <1>1. {"Disconnected", "Connecting", "Connected", "Failed"} = TransportStates
    BY DEF TransportStates
  <1>2. /\ \A x \in Transports : mState[x] # "none" => x \in Created
        /\ \A x \in gathering : x \in Ice /\ x \in Created
        /\ \A x \in ending : x \in Created
    BY DEF Created, References, Holders
  <1>3. Dtls \subseteq Transports /\ Sctp \subseteq Transports
    BY DEF Transports
  <1>4. CASE IceChange
    <2>1. PICK x \in gathering, new \in TransportStates :
              Comes("agent", x, new) \/ Fails("agent", x, new)
      BY <1>1, <1>4 DEF IceChange
    <2> QED
      BY <1>2, <2>1 DEF Changes, Owns, Comes, Fails
  <1>5. CASE DtlsChange
    <2>1. PICK x \in Dtls, new \in TransportStates :
              mState[x] # "none" /\ (Comes("worker", x, new) \/ Fails("worker", x, new))
      BY <1>1, <1>5 DEF DtlsChange
    <2> QED
      BY <1>2, <1>3, <2>1 DEF Changes, Owns, Comes, Fails
  <1>6. CASE SctpChange
    <2>1. PICK x \in Sctp, new \in TransportStates :
              mState[x] # "none" /\ (Comes("association", x, new) \/ Fails("association", x, new))
      BY <1>1, <1>6 DEF SctpChange
    <2> QED
      BY <1>2, <1>3, <2>1 DEF Changes, Owns, Comes, Fails
  <1>7. CASE \E x \in Transports : Finish(x)
    <2>1. PICK x \in Created, new \in TransportStates :
              \/ x \in Dtls /\ Comes("worker", x, new)
              \/ x \in Sctp /\ Comes("association", x, new)
      BY <1>1, <1>2, <1>7 DEF Finish
    <2> QED
      BY <2>1 DEF Changes, Owns, Comes
  <1> QED
    BY <1>4, <1>5, <1>6, <1>7

\* What the announcement of a change leaves alone.
LEMMA ChangeOthers ==
    ASSUME TypeOK, References, NEW t \in {"agent", "worker", "association"}, Changes(t)
    PROVE  /\ Others(t) /\ at[t] = "idle" /\ at'[t] = "callback"
           /\ on'[t] \in Created /\ Owns(t, on'[t]) /\ (t = "agent" => on'[t] \in gathering)
           /\ held'[t] \subseteq Created /\ (t = "agent" => held'[t] = {})
           /\ mState' \in [Transports -> TransportStates \cup {"none"}] /\ Created' = Created
           /\ UNCHANGED <<state, closing, member, mLower, gathering, mStateChangeCallback, ending,
                          remoteApp, localApp, channels, told, listening, calls, tasks, what, mine>>
  <1>1. PICK x \in Created, new \in TransportStates :
            Change(t, x, new) /\ Owns(t, x) /\ (t = "agent" => x \in gathering)
    BY DEF Changes
  <1>2. /\ at[t] = "idle" /\ at' = [at EXCEPT ![t] = "callback"]
        /\ mState' = [mState EXCEPT ![x] = new]
        /\ on' = [on EXCEPT ![t] = x]
        /\ held' = [held EXCEPT ![t] = IF t = "agent" THEN {} ELSE {x}]
        /\ UNCHANGED <<state, closing, member, mLower, gathering, mStateChangeCallback, ending,
                       remoteApp, localApp, channels, told, listening, calls, tasks, what, mine>>
    BY <1>1 DEF Change
  <1>3. t \in Threads /\ "callback" \in Labels /\ x \in Transports
    BY DEF Threads, Labels, Created
  <1>4. Others(t) /\ at'[t] = "callback" /\ on'[t] = x
        /\ held'[t] = IF t = "agent" THEN {} ELSE {x}
    BY <1>2, <1>3, Typed DEF Others
  <1>5. mState' \in [Transports -> TransportStates \cup {"none"}] /\ Created' = Created
    <2>1. "none" \notin TransportStates
      BY DEF TransportStates
    <2> QED
      BY <1>2, <1>3, <2>1, Typed DEF Created
  <1> QED
    BY <1>1, <1>2, <1>4, <1>5

\* A transport is stored: it exists from then on, and its callback is set.
LEMMA StoreEffect ==
    ASSUME TypeOK, References, NEW t \in Threads, Store(t)
    PROVE  \E x \in Of(what[t]) :
              /\ x \in Transports \ Created /\ Created' = Created \cup {x}
              /\ mState' = [mState EXCEPT ![x] = "Disconnected"]
              /\ member' = [member EXCEPT ![what[t]] = x]
              /\ mLower' = [mLower EXCEPT ![x] = mine[t]]
              /\ mStateChangeCallback' = mStateChangeCallback \cup {x}
              /\ at[t] = "store" /\ at'[t] = "start" /\ on'[t] = on[t] /\ what'[t] = what[t]
              /\ mine'[t] = x /\ held'[t] = held[t] \cup {x}
              /\ UNCHANGED <<gathering, tasks, told, listening, calls, state, closing>>
  <1> DEFINE x == CHOOSE y \in Of(what[t]) : mState[y] = "none"
  <1>1. x \in Of(what[t]) /\ mState[x] = "none"
    BY DEF Store
  <1>2. what[t] \in Kinds
    BY DEF TypeOK
  <1>3. x \in Transports
    BY <1>1, <1>2, Kind
  <1>4. /\ mState' = [mState EXCEPT ![x] = "Disconnected"]
        /\ member' = [member EXCEPT ![what[t]] = x]
        /\ mLower' = [mLower EXCEPT ![x] = mine[t]]
        /\ mStateChangeCallback' = mStateChangeCallback \cup {x}
        /\ at[t] = "store" /\ at' = [at EXCEPT ![t] = "start"] /\ UNCHANGED <<on, what>>
        /\ mine' = [mine EXCEPT ![t] = x] /\ held' = [held EXCEPT ![t] = @ \cup {x}]
        /\ UNCHANGED <<gathering, tasks, told, listening, calls, state, closing>>
    BY DEF Store, keep
  <1> HIDE DEF x
  <1>5. Created' = Created \cup {x} /\ x \notin Created
    BY <1>1, <1>3, <1>4, Typed DEF Created
  <1> QED
    BY <1>1, <1>3, <1>4, <1>5, Typed

\* No other step creates a transport.
LEMMA StatesKept ==
    ASSUME TypeOK, References, Callers, NEW t \in Threads, Step(t), ~Store(t)
    PROVE  mState' \in [Transports -> TransportStates \cup {"none"}] /\ Created' = Created
  <1>1. "Connecting" \in TransportStates /\ "Failed" \in TransportStates
        /\ "none" \notin TransportStates
    BY DEF TransportStates
  <1>2. mState \in [Transports -> TransportStates \cup {"none"}] /\ what[t] \in Kinds
    BY DEF TypeOK
  <1>3. UNCHANGED mState => Created' = Created
    BY DEF Created
  <1>4. ASSUME NEW x, Stop(t, x)
        PROVE  mState' \in [Transports -> TransportStates \cup {"none"}] /\ Created' = Created
    <2>1. CASE Announces(x)
      <3>1. mState' = [mState EXCEPT ![x] = "Failed"] /\ mState[x] = "Connecting"
        BY <1>4, <2>1 DEF Stop, Announces
      <3> QED
        BY <1>1, <1>2, <3>1 DEF Created
    <2>2. CASE ~Announces(x)
      BY <1>2, <1>3, <1>4, <2>2 DEF Stop
    <2> QED
      BY <2>1, <2>2
  <1>5. CASE Start(t)
    <2>1. mine[t] \in Created
      <3>1. at[t] = "start" /\ mine[t] \in Of(what[t])
        BY <1>5 DEF Start, Callers, Caller
      <3>2. mine[t] \in Transports /\ mine[t] # None
        BY <1>2, <3>1, Kind
      <3> QED
        BY <3>2 DEF References, Holders
    <2>2. UNCHANGED mState \/ mState' = [mState EXCEPT ![mine[t]] = "Connecting"]
      BY <1>5 DEF Start
    <2> QED
      BY <1>1, <1>2, <1>3, <2>1, <2>2 DEF Created
  <1>6. CASE Drop(t) \/ CloseStop(t)
    <2>1. (\E x : Stop(t, x)) \/ UNCHANGED mState
      BY <1>6 DEF Drop, CloseStop
    <2> QED
      BY <1>2, <1>3, <1>4, <2>1
  <1>7. CASE TearDownStop
    <2>1. PICK S : mState' = [x \in Transports |-> IF x \in S /\ Announces(x) THEN "Failed"
                                                   ELSE mState[x]]
      BY <1>7 DEF TearDownStop
    <2> QED
      BY <1>1, <1>2, <2>1 DEF Created, Announces
  <1>8. CASE UNCHANGED mState
    BY <1>2, <1>3, <1>8
  <1>9. Load(t) \/ Check(t) \/ Callback(t) => UNCHANGED mState
    BY DEF Load, Check, Callback, lives
  <1>10. CloseFlag(t) \/ Test(t) \/ Cas(t) \/ Tell(t) \/ Exchange(t) \/ Clear(t) => UNCHANGED mState
    BY DEF CloseFlag, Test, Cas, Tell, Exchange, Clear, lives
  <1>11. Gather \/ RenegotiateTest \/ Take \/ TearDownReset => UNCHANGED mState
    BY DEF Gather, RenegotiateTest, Take, TearDownReset, lives
  <1> QED
    BY <1>5, <1>6, <1>7, <1>8, <1>9, <1>10, <1>11 DEF Step, Initialize, Closing

\* What is stopped is still referred to.
LEMMA StepEnding ==
    ASSUME NEW t \in Threads, Step(t)
    PROVE  ending' = ending \/ ending' \subseteq Alive'
  <1>1. ASSUME NEW u, NEW S, Ends(u, S) PROVE ending' \subseteq Alive'
    BY <1>1 DEF Ends
  <1>2. Initialize(t) => \E S : Ends(t, S)
    BY DEF Initialize, Load, Store, Start, Check, Drop
  <1>3. Closing(t) => ending' = ending \/ \E S : Ends(t, S)
    BY DEF Closing, CloseFlag, CloseStop, Test, Cas, Tell, Exchange, Clear
  <1>4. Gather \/ RenegotiateTest \/ Take => ending' = ending \/ \E u, S : Ends(u, S)
    BY DEF Gather, RenegotiateTest, Take
  <1>5. TearDownStop \/ TearDownReset \/ Callback(t) => \E u, S : Ends(u, S)
    BY DEF TearDownStop, TearDownReset, Callback
  <1> QED
    BY <1>1, <1>2, <1>3, <1>4, <1>5 DEF Step

\* What keeps transports alive.
Roots ==
    ({member[k] : k \in Kinds} \ {None})
    \cup (UNION {held[t] : t \in Threads})
    \cup (UNION {tasks[i] : i \in 1..Len(tasks)})

\* What is alive is what is held, and the two layers below it.
LEMMA AliveRoots ==
    Alive = Below(Below(Roots)) /\ Roots \subseteq Alive
  <1>1. Alive = Below(Below(Roots))
    BY Zenon DEF Alive, Roots
  <1>2. \A S : S \subseteq Below(S)
    BY DEF Below
  <1> QED
    BY <1>1, <1>2

\* Only what was created is alive.
LEMMA AliveCreated ==
    Holders => Alive \subseteq Created
  <1> SUFFICES ASSUME Holders PROVE Alive \subseteq Created
    OBVIOUS
  <1>1. \A S \in SUBSET Created : Below(S) \in SUBSET Created
    <2>1. Created \subseteq Transports
      BY DEF Created
    <2>2. \A x \in Created : mLower[x] \in Created \cup {None}
      BY <2>1 DEF Holders
    <2> QED
      BY <2>2 DEF Below
  <1>2. {member[k] : k \in Kinds} \ {None} \subseteq Created
    BY DEF Holders
  <1>3. UNION {held[t] : t \in Threads} \subseteq Created
    BY DEF Holders
  <1>4. UNION {tasks[i] : i \in 1..Len(tasks)} \subseteq Created
    <2>1. \A i \in 1..Len(tasks) : tasks[i] \in SUBSET Created
      BY ElementOfSeq DEF Holders
    <2> QED
      BY <2>1
  <1>5. Roots \in SUBSET Created
    <2> DEFINE A == {member[k] : k \in Kinds} \ {None}
               B == UNION {held[t] : t \in Threads}
               C == UNION {tasks[i] : i \in 1..Len(tasks)}
    <2>1. Roots = A \cup B \cup C
      BY Zenon DEF Roots
    <2>2. A \subseteq Created /\ B \subseteq Created /\ C \subseteq Created
      BY Zenon, <1>2, <1>3, <1>4
    <2> HIDE DEF A, B, C
    <2> QED
      BY <2>1, <2>2
  <1> QED
    BY <1>1, <1>5, AliveRoots

\* References, given the pieces a step changes.
LEMMA Referring ==
    ASSUME References, Created \subseteq Created',
           on' \in [Threads -> Transports \cup {"connection", None}],
           \/ UNCHANGED member
           \/ \E k \in Kinds, x \in Created' \cup {None} : member' = [member EXCEPT ![k] = x],
           \/ UNCHANGED mLower
           \/ \E x \in Transports, y \in Created' \cup {None} : mLower' = [mLower EXCEPT ![x] = y],
           held' \in [Threads -> SUBSET Created'],
           mine' \in [Threads -> Created' \cup {None}],
           \/ UNCHANGED tasks
           \/ \E S \in SUBSET Created' : tasks' = Append(tasks, S)
           \/ tasks # <<>> /\ tasks' = Tail(tasks),
           gathering' \subseteq Ice \cap Created', mStateChangeCallback' \subseteq Created',
           ending' = ending \/ ending' \subseteq Alive',
           UNCHANGED plan
    PROVE  References'
  <1>1. member' \in [Kinds -> Created' \cup {None}]
    BY DEF References, Holders
  <1>2. mLower' \in [Transports -> Created' \cup {None}]
    BY DEF References, Holders
  <1>3. tasks' \in Seq(SUBSET Created')
    <2> DEFINE S == SUBSET Created
               T == SUBSET Created'
    <2>1. /\ tasks \in Seq(S) /\ S \subseteq T
          /\ \/ tasks' = tasks
             \/ \E x \in T : tasks' = Append(tasks, x)
             \/ tasks # <<>> /\ tasks' = Tail(tasks)
      BY DEF References, Holders
    <2> HIDE DEF S, T
    <2>2. tasks \in Seq(T)
      BY <2>1, SeqMonotonic
    <2>3. \A x \in T : Append(tasks, x) \in Seq(T)
      BY <2>2, AppendProperties
    <2>4. tasks # <<>> => Tail(tasks) \in Seq(T)
      BY <2>2, HeadTailProperties
    <2>5. tasks' \in Seq(T)
      BY <2>1, <2>2, <2>3, <2>4
    <2> QED
      BY <2>5 DEF T
  <1>4. Holders'
    BY <1>1, <1>2, <1>3 DEF Holders
  <1>5. ending' \subseteq Created'
    <2>1. (Alive \subseteq Created)'
      BY <1>4, AliveCreated, PTL
    <2> QED
      BY <2>1 DEF References
  <1> QED
    BY <1>4, <1>5 DEF References

\* A thread that steps holds transports that exist.
LEMMA OwnReferences ==
    ASSUME TypeOK, References, Callers, NEW t \in Threads, Step(t), ~Store(t)
    PROVE  held'[t] \subseteq Created /\ mine'[t] \in Created \cup {None}
  <1>1. /\ member \in [Kinds -> Created \cup {None}]
        /\ held \in [Threads -> SUBSET Created] /\ mine \in [Threads -> Created \cup {None}]
        /\ what[t] \in Kinds
    BY DEF TypeOK, References, Holders
  <1>2. Returns(t) => held'[t] = {} /\ mine'[t] = None
    BY <1>1 DEF Returns
  <1>3. UNCHANGED <<held, mine>> => held'[t] \subseteq Created /\ mine'[t] \in Created \cup {None}
    BY <1>1
  <1>4. \A l : Goes(t, l) => UNCHANGED mine
    BY DEF Goes
  <1>5. CASE Load(t)
    <2>1. /\ \/ member[what[t]] # None /\ held' = [held EXCEPT ![t] = {member[what[t]]}]
             \/ /\ what[t] # "ice" => member[LowerKind(what[t])] # None
                /\ held' = [held EXCEPT ![t] = IF what[t] = "ice" THEN @
                                               ELSE @ \cup {member[LowerKind(what[t])]}]
             \/ Returns(t)
          /\ \/ mine' = [mine EXCEPT ![t] = member[what[t]]]
             \/ mine' = [mine EXCEPT ![t] = IF what[t] = "ice" THEN None
                                            ELSE member[LowerKind(what[t])]]
             \/ Returns(t)
      BY <1>5 DEF Load, Throw
    <2>2. LowerKind(what[t]) \in Kinds
      BY <1>1, Kind
    <2> QED
      BY <1>1, <1>2, <2>1, <2>2
  <1>6. CASE Start(t) \/ Check(t) \/ Drop(t)
    BY <1>2, <1>3, <1>4, <1>6 DEF Start, Check, Drop, Throw
  <1>7. CASE Callback(t)
    BY <1>2, <1>3, <1>7 DEF Callback
  <1>8. CASE CloseFlag(t) \/ CloseStop(t) \/ Test(t) \/ Cas(t) \/ Tell(t) \/ Clear(t)
    BY <1>2, <1>3, <1>4, <1>8 DEF CloseFlag, CloseStop, Test, Cas, Tell, Clear
  <1>9. CASE Exchange(t)
    <2>1. /\ at[t] \in Kinds /\ UNCHANGED mine
          /\ held' = [held EXCEPT ![t] = @ \cup ({member[at[t]]} \ {None})]
      BY <1>4, <1>9 DEF Exchange
    <2> QED
      BY <1>1, <2>1
  <1>10. CASE t = "user" /\ (Gather \/ RenegotiateTest)
    BY <1>2, <1>3, <1>4, <1>10 DEF Gather, RenegotiateTest
  <1>11. CASE t = "processor" /\ Take
    BY <1>3, <1>11 DEF Take, Goes, thread
  <1>12. CASE t = "teardown" /\ TearDownStop
    <2>1. UNCHANGED mine /\ held' = [held EXCEPT ![t] = Head(tasks)] /\ tasks # <<>>
      BY <1>4, <1>12 DEF TearDownStop
    <2>2. Head(tasks) \in SUBSET Created
      BY <2>1, HeadTailProperties DEF References, Holders
    <2> QED
      BY <1>1, <2>1, <2>2
  <1>13. CASE t = "teardown" /\ TearDownReset
    BY <1>2, <1>13 DEF TearDownReset
  <1> QED
    BY <1>5, <1>6, <1>7, <1>8, <1>9, <1>10, <1>11, <1>12, <1>13 DEF Step, Initialize, Closing

\* What each step may change of the members, the callbacks, the teardown tasks and
\* the agents that run.
LEMMA Frames ==
    ASSUME NEW t \in Threads, Step(t), ~Store(t)
    PROVE  /\ \/ UNCHANGED member
              \/ (Start(t) \/ Check(t)) /\ member' = [member EXCEPT ![what[t]] = None]
              \/ Exchange(t) /\ t \in {"closer", "processor"}
                 /\ at[t] \in Kinds /\ member' = [member EXCEPT ![at[t]] = None]
           /\ UNCHANGED mLower
           /\ \/ UNCHANGED tasks
              \/ tasks' = Append(tasks, held[t])
              \/ tasks # <<>> /\ tasks' = Tail(tasks)
           /\ \/ UNCHANGED gathering
              \/ t = "user" /\ Gather /\ gathering' = gathering \cup {mine["user"]}
           /\ \/ UNCHANGED mStateChangeCallback
              \/ Clear(t) /\ t \in {"closer", "processor"}
                 /\ mStateChangeCallback' = mStateChangeCallback \ held[t]
           /\ calls \subseteq calls'
  <1>1. Load(t) \/ Drop(t) \/ Callback(t) => UNCHANGED member
    BY DEF Load, Callback, Drop
  <1>2. Start(t) \/ Check(t) => UNCHANGED member \/ member' = [member EXCEPT ![what[t]] = None]
    BY DEF Start, Check
  <1>3. Load(t) \/ Start(t) \/ Check(t) \/ Drop(t) \/ Callback(t) =>
            UNCHANGED <<mLower, tasks, gathering, mStateChangeCallback, calls>>
    BY DEF Load, Start, Check, Drop, Callback, lives, keep
  <1>4. CloseFlag(t) \/ CloseStop(t) \/ Test(t) \/ Cas(t) \/ Tell(t) =>
            UNCHANGED <<member, mLower, tasks, gathering, mStateChangeCallback, calls>>
    BY DEF CloseFlag, CloseStop, Test, Cas, Tell, lives, keep
  <1>5. Exchange(t) => /\ at[t] \in Kinds /\ member' = [member EXCEPT ![at[t]] = None]
                       /\ UNCHANGED <<mLower, tasks, gathering, mStateChangeCallback, calls>>
    BY DEF Exchange, lives, keep
  <1>6. Clear(t) => /\ mStateChangeCallback' = mStateChangeCallback \ held[t]
                    /\ tasks' = Append(tasks, held[t])
                    /\ UNCHANGED <<member, mLower, gathering, calls>>
    BY DEF Clear, lives, keep
  <1>7. Gather => /\ gathering' = gathering \cup {mine["user"]}
                  /\ UNCHANGED <<member, mLower, tasks, mStateChangeCallback, calls>>
    BY DEF Gather, keep
  <1>8. RenegotiateTest \/ Take \/ TearDownStop \/ TearDownReset =>
            /\ UNCHANGED <<member, mLower, gathering, mStateChangeCallback>>
            /\ calls \subseteq calls'
            /\ UNCHANGED tasks \/ (tasks # <<>> /\ tasks' = Tail(tasks))
    BY DEF RenegotiateTest, Take, TearDownStop, TearDownReset, lives, keep
  <1>9. CASE Load(t) \/ Start(t) \/ Check(t) \/ Drop(t) \/ Callback(t)
    BY <1>1, <1>2, <1>3, <1>9
  <1>10. CASE Closing(t) /\ t \in {"closer", "processor"}
    BY <1>4, <1>5, <1>6, <1>10 DEF Closing
  <1>11. CASE t = "user" /\ Gather
    BY <1>7, <1>11
  <1>12. CASE RenegotiateTest \/ Take \/ TearDownStop \/ TearDownReset
    BY <1>8, <1>12
  <1> QED
    BY <1>9, <1>10, <1>11, <1>12 DEF Step, Initialize

\* A step of a thread keeps the references sound.
LEMMA StepReferences ==
    ASSUME TypeOK, References, Callers, NEW t \in Threads, Step(t), UNCHANGED plan
    PROVE  References'
  <1>1. Others(t) /\ (ending' = ending \/ ending' \subseteq Alive')
    BY StepOthers, StepEnding
  <1>2. held \in [Threads -> SUBSET Created] /\ mine \in [Threads -> Created \cup {None}]
        /\ what[t] \in Kinds /\ gathering \subseteq Ice \cap Created
        /\ mStateChangeCallback \subseteq Created
    BY DEF References, Holders, TypeOK
  <1>3. ASSUME Created \subseteq Created', held'[t] \subseteq Created',
               mine'[t] \in Created' \cup {None}
        PROVE  /\ held' \in [Threads -> SUBSET Created']
               /\ mine' \in [Threads -> Created' \cup {None}]
               /\ on' \in [Threads -> Transports \cup {"connection", None}]
    <2>1. \A u \in Threads : held'[u] \in SUBSET Created' /\ mine'[u] \in Created' \cup {None}
      BY <1>1, <1>2, <1>3 DEF Others
    <2> QED
      BY <1>1, <2>1 DEF Others
  <1>4. CASE Store(t)
    <2>1. PICK x \in Of(what[t]) :
              /\ x \in Transports \ Created /\ Created' = Created \cup {x}
              /\ member' = [member EXCEPT ![what[t]] = x]
              /\ mLower' = [mLower EXCEPT ![x] = mine[t]]
              /\ mStateChangeCallback' = mStateChangeCallback \cup {x}
              /\ mine'[t] = x /\ held'[t] = held[t] \cup {x}
              /\ UNCHANGED <<gathering, tasks>>
      BY <1>4, StoreEffect
    <2>2. /\ held' \in [Threads -> SUBSET Created'] /\ mine' \in [Threads -> Created' \cup {None}]
          /\ on' \in [Threads -> Transports \cup {"connection", None}]
      BY <1>2, <1>3, <2>1
    <2>3. mine[t] \in Created' \cup {None} /\ x \in Created' /\ Created \subseteq Created'
      BY <1>2, <2>1
    <2>4. gathering' \subseteq Ice \cap Created' /\ mStateChangeCallback' \subseteq Created'
      BY <1>2, <2>1
    <2> HIDE DEF Created
    <2> QED
      BY <1>1, <1>2, <2>1, <2>2, <2>3, <2>4, Referring
  <1>5. CASE ~Store(t)
    <2>1. Created' = Created
      BY <1>5, StatesKept
    <2>2. /\ held' \in [Threads -> SUBSET Created'] /\ mine' \in [Threads -> Created' \cup {None}]
          /\ on' \in [Threads -> Transports \cup {"connection", None}]
      BY <1>3, <1>5, <2>1, OwnReferences
    <2>3. UNCHANGED member \/ \E k \in Kinds : member' = [member EXCEPT ![k] = None]
      BY <1>2, <1>5, Frames
    <2>4. UNCHANGED mLower
      BY <1>5, Frames
    <2>5. \/ UNCHANGED tasks
          \/ \E S \in SUBSET Created' : tasks' = Append(tasks, S)
          \/ tasks # <<>> /\ tasks' = Tail(tasks)
      <3>1. held[t] \in SUBSET Created'
        BY <1>2, <2>1
      <3> QED
        BY <1>5, <3>1, Frames
    <2>6. gathering' \subseteq Ice \cap Created'
      <3>1. Gather => mine["user"] \in Ice \cap Created
        BY <1>2, Kind DEF Gather, Callers, Caller, Transports, Threads
      <3> QED
        BY <1>2, <1>5, <2>1, <3>1, Frames
    <2>7. mStateChangeCallback' \subseteq Created'
      BY <1>2, <1>5, <2>1, Frames
    <2>8. Created \subseteq Created'
      BY <2>1
    <2> QED
      BY <1>1, <2>2, <2>3, <2>4, <2>5, <2>6, <2>7, <2>8, Referring
  <1> QED
    BY <1>4, <1>5

-----------------------------------------------------------------------------
\* A thread that did not move, or that does nothing of its own with transports.
LEMMA CallerKept ==
    ASSUME Created \subseteq Created', NEW t, Caller(t),
           at'[t] = at[t], on'[t] = on[t], what'[t] = what[t], mine'[t] = mine[t]
    PROVE  Caller(t)'
  <1> HIDE DEF Created
  <1> QED
    BY DEF Caller, Owns, MayStart, Of, LowerKind

\* A thread outside callbacks and initialisation is no caller.
LEMMA CallerAway ==
    ASSUME NEW t,
           at'[t] \notin Initializing \cup {"callback", "gather", "renegotiate"},
           t \in {"agent", "worker", "association"} => at'[t] = "idle"
    PROVE  Caller(t)'
  BY DEF Caller, Initializing

\* A step of a thread keeps it a caller of the right kind.
LEMMA StepCaller ==
    ASSUME TypeOK, References, Callers, NEW t \in Threads, Step(t)
    PROVE  Caller(t)'
  <1>1. Others(t) /\ Caller(t) /\ what[t] \in Kinds
    BY StepOthers DEF Callers, TypeOK
  <1>2. ASSUME at'[t] = "idle" PROVE Caller(t)'
    BY <1>2, CallerAway DEF Initializing
  <1>3. Returns(t) => at'[t] = "idle"
    BY ReturnsTo
  <1>4. \A l \in Labels : Goes(t, l) => /\ at'[t] = l /\ on'[t] = on[t]
                                        /\ what'[t] = what[t] /\ mine'[t] = mine[t]
    BY Typed DEF Goes
  <1>5. {"load", "store", "start", "check", "drop", "gather", "renegotiate", "callback",
         "close", "remoteClose", "stop", "remoteStop", "test", "cas", "tell", "sctp", "dtls",
         "ice", "clear", "reset"} \subseteq Labels
    BY DEF Labels, Initializing
  <1>6. Created \subseteq Created'
    <2>1. CASE Store(t)
      BY <2>1, StoreEffect
    <2> QED
      BY <2>1, StatesKept
  <1>7. /\ at[t] \in Initializing => MayStart(t, what[t])
        /\ t \in {"agent", "worker", "association"} =>
              (at[t] # "idle" => Owns(t, on[t]) /\ on[t] \in Created)
        /\ at[t] \in {"start", "check", "drop"} => mine[t] \in Of(what[t])
    BY <1>1 DEF Caller
  <1>8. \A l \in {"load", "store", "start", "check", "drop"} : l \in Initializing /\ l # "idle"
    BY DEF Initializing
  <1>9. CASE Load(t)
    <2>1. at[t] = "load"
      BY <1>9 DEF Load
    <2>2. CASE Returns(t)
      BY <1>2, <1>3, <2>2
    <2>3. CASE /\ t = "user" /\ what[t] = "ice" /\ member[what[t]] # None
               /\ at' = [at EXCEPT ![t] = "gather"] /\ UNCHANGED what
               /\ mine' = [mine EXCEPT ![t] = member[what[t]]]
      <3>1. at'[t] = "gather" /\ what'[t] = "ice" /\ mine'[t] \in Ice
        BY <1>1, <2>3, Kind, Typed DEF TypeOK
      <3> QED
        BY <2>3, <3>1 DEF Caller, Initializing
    <2>4. CASE /\ what[t] # "ice" => member[LowerKind(what[t])] # None
               /\ mine' = [mine EXCEPT ![t] = IF what[t] = "ice" THEN None
                                              ELSE member[LowerKind(what[t])]]
               /\ at' = [at EXCEPT ![t] = "store"] /\ UNCHANGED <<on, what>>
      <3>1. at'[t] = "store" /\ on'[t] = on[t] /\ what'[t] = what[t]
            /\ mine'[t] = IF what[t] = "ice" THEN None ELSE member[LowerKind(what[t])]
        BY <2>4, Typed
      <3>2. what[t] # "ice" => mine'[t] \in Of(LowerKind(what[t]))
        BY <1>1, <2>4, <3>1, Kind DEF TypeOK
      <3> QED
        BY <1>6, <1>7, <1>8, <2>1, <3>1, <3>2 DEF Caller, Owns
    <2> QED
      BY <1>9, <2>2, <2>3, <2>4 DEF Load, Throw
  <1>10. CASE Store(t)
    <2>1. at[t] = "store" /\ at'[t] = "start" /\ on'[t] = on[t] /\ what'[t] = what[t]
          /\ mine'[t] \in Of(what[t])
      BY <1>10, StoreEffect
    <2> QED
      BY <1>6, <1>7, <1>8, <2>1 DEF Caller, Owns
  <1>11. CASE Start(t)
    <2>1. at[t] = "start" /\ (Returns(t) \/ Goes(t, "check"))
      BY <1>11 DEF Start, Throw
    <2>2. CASE Goes(t, "check")
      BY <1>4, <1>5, <1>6, <1>7, <1>8, <2>1, <2>2 DEF Caller, Owns
    <2> QED
      BY <1>2, <1>3, <2>1, <2>2
  <1>12. CASE Check(t)
    <2>1. at[t] = "check" /\ (Returns(t) \/ Goes(t, "drop") \/ (what[t] = "ice" /\ Goes(t, "gather")))
      BY <1>12 DEF Check
    <2>2. CASE Goes(t, "drop")
      BY <1>4, <1>5, <1>6, <1>7, <1>8, <2>1, <2>2 DEF Caller, Owns
    <2>3. CASE what[t] = "ice" /\ Goes(t, "gather")
      <3>1. t = "user"
        BY <1>7, <1>8, <2>1, <2>3 DEF MayStart
      <3> QED
        BY <1>4, <1>5, <1>7, <2>1, <2>3, <3>1, Kind DEF Caller, Initializing
    <2> QED
      BY <1>2, <1>3, <2>1, <2>2, <2>3
  <1>13. CASE Drop(t)
    BY <1>2, <1>3, <1>13 DEF Drop
  <1>14. CASE t \in {"agent", "worker", "association"} /\ Callback(t)
    <2>1. CASE Returns(t)
      BY <1>2, <1>3, <2>1
    <2>2. CASE /\ Climbs(on[t]) /\ at' = [at EXCEPT ![t] = "load"]
               /\ what' = [what EXCEPT ![t] = IF on[t] \in Ice THEN "dtls" ELSE "sctp"]
               /\ UNCHANGED on
      <3>1. Owns(t, on[t]) /\ on[t] \in Created
        BY <1>7, <1>14 DEF Callback
      <3>2. at'[t] = "load" /\ on'[t] = on[t]
            /\ what'[t] = IF on[t] \in Ice THEN "dtls" ELSE "sctp"
        BY <2>2, Typed
      <3>3. MayStart(t, what'[t])
        BY <2>2, <3>1, <3>2, LifecycleAssumption DEF Climbs, Owns, MayStart
      <3> QED
        BY <1>6, <3>1, <3>2, <3>3 DEF Caller, Owns, MayStart, Initializing
    <2> QED
      BY <1>14, <2>1, <2>2 DEF Callback
  <1>15. CASE t \in {"closer", "processor"} /\ Closing(t)
    <2>1. at'[t] \in {"idle", "stop", "remoteStop", "test", "cas", "tell", "sctp", "dtls", "ice", "clear"}
      <3>1. CASE CloseFlag(t) \/ CloseStop(t)
        BY <1>3, <1>4, <1>5, <3>1 DEF CloseFlag, CloseStop
      <3>2. CASE Test(t) \/ Cas(t) \/ Tell(t) \/ Clear(t)
        BY <1>3, <1>4, <1>5, <3>2 DEF Test, Cas, Tell, Clear
      <3>3. CASE Exchange(t)
        <4>1. \E l \in {"dtls", "ice", "clear"} : Goes(t, l)
          BY <3>3, Zenon DEF Exchange, Kinds
        <4> QED
          BY <1>4, <1>5, <4>1
      <3> QED
        BY <1>15, <3>1, <3>2, <3>3 DEF Closing
    <2> QED
      BY <1>15, <2>1, CallerAway DEF Initializing
  <1>16. CASE t = "user" /\ Gather
    BY <1>2, <1>3, <1>16 DEF Gather
  <1>17. CASE t = "user" /\ RenegotiateTest
    <2>1. at[t] = "renegotiate" /\ (Returns(t) \/ Goes(t, "load"))
      BY <1>17 DEF RenegotiateTest
    <2>2. CASE Goes(t, "load")
      <3>1. at'[t] = "load" /\ what'[t] = "sctp"
        BY <1>1, <1>4, <1>5, <2>1, <2>2 DEF Caller
      <3> QED
        BY <1>17, <3>1 DEF Caller, MayStart, Initializing
    <2> QED
      BY <1>2, <1>3, <2>1, <2>2
  <1>18. CASE t = "processor" /\ Take
    <2>1. at[t] = "idle" /\ at'[t] \in {"idle", "remoteClose", "close"}
      BY <1>4, <1>5, <1>18, Typed DEF Take, thread
    <2> QED
      BY <1>18, <2>1, CallerAway DEF Initializing
  <1>19. CASE t = "teardown" /\ (TearDownStop \/ TearDownReset)
    <2>1. at'[t] \in {"idle", "reset"}
      BY <1>3, <1>4, <1>5, <1>19 DEF TearDownStop, TearDownReset
    <2> QED
      BY <1>19, <2>1, CallerAway DEF Initializing
  <1> QED
    BY <1>9, <1>10, <1>11, <1>12, <1>13, <1>14, <1>15, <1>16, <1>17, <1>18, <1>19
       DEF Step, Initialize

-----------------------------------------------------------------------------
\* The ways of the application's thread, and of the agent's.
LEMMA UserMoves ==
    ASSUME TypeOK, References, Callers, Step("user")
    PROVE  \/ at'["user"] = "idle"
           \/ /\ what'["user"] = what["user"]
              /\ \/ at["user"] = "load" /\ at'["user"] = "store"
                 \/ at["user"] = "load" /\ at'["user"] = "gather"
                    /\ what["user"] = "ice" /\ member["ice"] # None
                 \/ Store("user") /\ at["user"] = "store" /\ at'["user"] = "start"
                 \/ at["user"] = "start" /\ at'["user"] = "check" /\ UNCHANGED member
                 \/ at["user"] = "check" /\ at'["user"] = "drop"
                 \/ at["user"] = "check" /\ at'["user"] = "gather" /\ UNCHANGED member
                 \/ what["user"] = "sctp" /\ at'["user"] = "load"
  <1>1. "user" \in Threads /\ Caller("user")
        /\ at \in [Threads -> Labels] /\ what \in [Threads -> Kinds]
    BY Typed DEF Threads, Callers
  <1>2. Returns("user") => at'["user"] = "idle"
    BY <1>1, ReturnsTo
  <1>3. \A l : Goes("user", l) => at'["user"] = l /\ what'["user"] = what["user"]
    BY <1>1 DEF Goes
  <1>4. CASE Load("user")
    BY <1>1, <1>2, <1>4 DEF Load, Throw
  <1>5. CASE Store("user")
    BY <1>1, <1>5, StoreEffect
  <1>6. CASE Start("user")
    BY <1>2, <1>3, <1>6 DEF Start, Throw
  <1>7. CASE Check("user")
    BY <1>2, <1>3, <1>7 DEF Check
  <1>8. CASE Drop("user") \/ Gather
    BY <1>2, <1>8 DEF Drop, Gather
  <1>9. CASE RenegotiateTest
    <2>1. at["user"] = "renegotiate"
      BY <1>9 DEF RenegotiateTest
    <2> QED
      BY <1>1, <1>2, <1>3, <1>9, <2>1 DEF RenegotiateTest, Caller
  <1> QED
    BY <1>4, <1>5, <1>6, <1>7, <1>8, <1>9 DEF Step, Initialize

\* The agent's thread holds a transport only between a callback and its return.
LEMMA AgentMoves ==
    ASSUME TypeOK, References, Callers, Step("agent")
    PROVE  \/ at'["agent"] = "idle" /\ held'["agent"] = {}
           \/ /\ on'["agent"] = on["agent"] /\ at'["agent"] \in Initializing
              /\ \/ at["agent"] \in Initializing
                 \/ at["agent"] = "callback" /\ on["agent"] \in mStateChangeCallback
  <1>1. "agent" \in Threads /\ at \in [Threads -> Labels] /\ on \in [Threads -> Transports \cup {"connection", None}]
    BY Typed DEF Threads
  <1>2. Returns("agent") => at'["agent"] = "idle" /\ held'["agent"] = {}
    BY <1>1, ReturnsTo
  <1>3. \A l : Goes("agent", l) => at'["agent"] = l /\ on'["agent"] = on["agent"]
    BY <1>1 DEF Goes
  <1>4. CASE Load("agent")
    BY <1>1, <1>2, <1>4 DEF Load, Throw, Initializing
  <1>5. CASE Store("agent")
    BY <1>1, <1>5, StoreEffect DEF Initializing
  <1>6. CASE Start("agent")
    BY <1>2, <1>3, <1>6 DEF Start, Throw, Initializing
  <1>7. CASE Check("agent")
    <2>1. at["agent"] = "check"
      BY <1>7 DEF Check
    <2>2. what["agent"] # "ice"
      BY <1>1, <2>1 DEF Callers, Caller, MayStart, Initializing
    <2> QED
      BY <1>2, <1>3, <1>7, <2>1, <2>2 DEF Check, Initializing
  <1>8. CASE Drop("agent")
    BY <1>2, <1>8 DEF Drop
  <1>9. CASE Callback("agent")
    BY <1>1, <1>2, <1>9 DEF Callback, Initializing
  <1> QED
    BY <1>4, <1>5, <1>6, <1>7, <1>8, <1>9 DEF Step, Initialize

\* A step of a thread stores no second ICE transport.
LEMMA StepOneIce ==
    ASSUME TypeOK, References, Callers, OneIce, NEW t \in Threads, Step(t)
    PROVE  OneIce'
  <1>1. /\ t # "user" => at'["user"] = at["user"] /\ what'["user"] = what["user"]
        /\ "user" \in Threads
    BY StepOthers DEF Others, Threads
  <1>2. CASE Store(t)
    <2>1. PICK x \in Of(what[t]) :
              /\ Created' = Created \cup {x} /\ at[t] = "store" /\ at'[t] = "start"
              /\ what'[t] = what[t] /\ UNCHANGED <<gathering, calls>>
      BY <1>2, StoreEffect
    <2>2. what[t] \in Kinds /\ MayStart(t, what[t]) /\ gathering \subseteq Ice \cap Created
      BY <2>1 DEF TypeOK, Callers, Caller, Initializing, References
    <2>3. CASE what[t] = "ice"
      <3>1. t = "user"
        BY <2>2, <2>3 DEF MayStart
      <3>2. "offer" \in calls /\ Ice \cap Created = {} /\ x \in Ice
        BY <2>1, <2>3, <3>1, Kind DEF OneIce
      <3>3. Ice \cap Created' = {x} /\ gathering = {}
        BY <2>1, <2>2, <3>2
      <3> HIDE DEF Created
      <3> QED
        BY <2>1, <3>1, <3>2, <3>3 DEF OneIce
    <2>4. CASE what[t] # "ice"
      <3>1. x \notin Ice
        BY <2>1, <2>2, <2>4, Kind, LifecycleAssumption DEF Kinds
      <3>2. Ice \cap Created' = Ice \cap Created
        BY <2>1, <3>1
      <3> HIDE DEF Created
      <3> QED
        BY <1>1, <2>1, <2>4, <3>2 DEF OneIce
    <2> QED
      BY <2>3, <2>4
  <1>3. CASE ~Store(t)
    <2>1. Created' = Created /\ calls \subseteq calls'
      BY <1>3, StatesKept, Frames
    <2> HIDE DEF Created
    <2>2. CASE t # "user"
      <3>1. UNCHANGED gathering
        BY <1>3, <2>2, Frames
      <3> QED
        BY <1>1, <2>1, <2>2, <3>1 DEF OneIce
    <2>3. CASE t = "user" /\ at'["user"] = "idle"
      BY <2>1, <2>3 DEF OneIce
    <2>4. CASE t = "user" /\ at'["user"] # "idle"
      <3>1. UNCHANGED gathering
        <4>1. Gather => at'["user"] = "idle"
          BY <1>1, ReturnsTo DEF Gather
        <4> QED
          BY <1>3, <2>4, <4>1, Frames
      <3>2. what["user"] = "ice" /\ at["user"] = "load" => member["ice"] = None
        <4>1. member["ice"] \in Ice \cap Created \/ member["ice"] = None
          BY Kind DEF References, Holders, TypeOK, Kinds
        <4> QED
          BY <4>1 DEF OneIce
      <3> QED
        BY <1>3, <2>1, <2>4, <3>1, <3>2, UserMoves DEF OneIce
    <2> QED
      BY <2>2, <2>3, <2>4
  <1> QED
    BY <1>2, <1>3

\* A step of a thread keeps what the agent's thread may hold.
LEMMA StepAgent ==
    ASSUME TypeOK, References, Callers, Agent, NEW t \in Threads, Step(t)
    PROVE  Agent'
  <1>1. /\ t # "agent" => /\ at'["agent"] = at["agent"] /\ on'["agent"] = on["agent"]
                          /\ held'["agent"] = held["agent"]
        /\ "agent" \in Threads
    BY StepOthers DEF Others, Threads
  <1>2. gathering \subseteq gathering'
    <2>1. CASE Store(t)
      BY <2>1, StoreEffect
    <2>2. CASE ~Store(t)
      BY <2>2, Frames
    <2> QED
      BY <2>1, <2>2
  <1>3. at["agent"] \in Initializing /\ on["agent"] \in mStateChangeCallback =>
            on["agent"] \in mStateChangeCallback'
    <2>1. CASE Store(t)
      BY <2>1, StoreEffect
    <2>2. CASE ~Store(t) /\ ~Clear(t)
      BY <2>2, Frames
    <2>3. CASE Clear(t) /\ t \in {"closer", "processor"} /\ at["agent"] \in Initializing
      <3>1. \A x \in held[t] : ~InCallback(x, t)
        BY <2>3 DEF Clear
      <3>2. on["agent"] \notin held[t]
        BY <1>1, <2>3, <3>1 DEF InCallback, Initializing
      <3>3. mStateChangeCallback' = mStateChangeCallback \ held[t]
        BY <2>3 DEF Clear
      <3> QED
        BY <3>2, <3>3
    <2>4. CASE Clear(t) /\ t \notin {"closer", "processor"} /\ ~Store(t)
      BY <2>4, Frames
    <2> QED
      BY <2>1, <2>2, <2>3, <2>4
  <1>4. CASE t # "agent"
    BY <1>1, <1>2, <1>3, <1>4 DEF Agent
  <1>5. CASE t = "agent"
    <2>1. CASE at'["agent"] = "idle" /\ held'["agent"] = {}
      BY <2>1 DEF Agent, Initializing
    <2>2. CASE on'["agent"] = on["agent"] /\ at'["agent"] \in Initializing
               /\ at["agent"] \in Initializing
      BY <1>2, <1>3, <2>2 DEF Agent, Initializing
    <2>3. CASE on'["agent"] = on["agent"] /\ at'["agent"] \in Initializing
               /\ at["agent"] = "callback" /\ on["agent"] \in mStateChangeCallback
      <3>1. on["agent"] \in mStateChangeCallback'
        <4>1. CASE Store(t)
          BY <2>3, <4>1, StoreEffect
        <4>2. CASE ~Store(t)
          BY <1>5, <2>3, <4>2, Frames
        <4> QED
          BY <4>1, <4>2
      <3> QED
        BY <1>2, <2>3, <3>1 DEF Agent
    <2> QED
      BY <1>5, <2>1, <2>2, <2>3, AgentMoves
  <1> QED
    BY <1>4, <1>5

\* A step of a thread keeps an ICE transport with a callback in safe hands.
LEMMA StepRegistered ==
    ASSUME TypeOK, References, Callers, OneIce, Registered, NEW t \in Threads, Step(t)
    PROVE  Registered'
  <1>1. /\ \A u \in Threads \ {t} : /\ at'[u] = at[u] /\ what'[u] = what[u] /\ held'[u] = held[u]
        /\ {"user", "closer", "processor"} \subseteq Threads
        /\ member \in [Kinds -> Created \cup {None}] /\ "ice" \in Kinds
        /\ what[t] \in Kinds /\ gathering \subseteq Ice \cap Created
        /\ mStateChangeCallback \subseteq Created
    BY StepOthers DEF Others, Threads, References, Holders, Kinds, TypeOK
  <1> SUFFICES ASSUME NEW x \in Ice \cap mStateChangeCallback',
                      \/ x \in gathering'
                      \/ at'["user"] \in {"start", "check", "gather"} /\ what'["user"] = "ice"
               PROVE  \/ x = member'["ice"]
                      \/ \E u \in {"closer", "processor"} : at'[u] = "clear" /\ x \in held'[u]
    BY DEF Registered
  <1>2. CASE Store(t)
    <2>1. PICK y \in Of(what[t]) :
              /\ y \notin Created /\ member' = [member EXCEPT ![what[t]] = y]
              /\ mStateChangeCallback' = mStateChangeCallback \cup {y}
              /\ at[t] = "store" /\ what'[t] = what[t] /\ UNCHANGED gathering
      BY <1>2, StoreEffect
    <2>2. MayStart(t, what[t])
      BY <2>1 DEF Callers, Caller, Initializing
    <2>3. CASE what[t] = "ice"
      <3>1. t = "user" /\ Ice \cap Created = {}
        BY <2>1, <2>2, <2>3 DEF MayStart, OneIce
      <3>2. x = y
        BY <1>1, <2>1, <3>1
      <3> QED
        BY <1>1, <2>1, <2>3, <3>2
    <2>4. CASE what[t] # "ice"
      <3>1. x \in mStateChangeCallback /\ member'["ice"] = member["ice"]
        BY <1>1, <2>1, <2>4, Kind, LifecycleAssumption DEF Kinds
      <3>2. x \in gathering \/ (at["user"] \in {"start", "check", "gather"} /\ what["user"] = "ice")
        BY <1>1, <2>1, <2>4
      <3>3. t \notin {"closer", "processor"}
        BY <2>2 DEF MayStart
      <3> QED
        BY <1>1, <3>1, <3>2, <3>3 DEF Registered
    <2> QED
      BY <2>3, <2>4
  <1>3. CASE ~Store(t) /\ t # "user"
    <2>1. x \in mStateChangeCallback
      BY <1>3, Frames
    <2>2. \/ x = member["ice"]
          \/ \E u \in {"closer", "processor"} : at[u] = "clear" /\ x \in held[u]
      <3>1. UNCHANGED gathering
        BY <1>3, Frames
      <3> QED
        BY <1>1, <1>3, <2>1, <3>1 DEF Registered
    <2>3. ASSUME NEW u \in {"closer", "processor"}, at[u] = "clear", x \in held[u]
          PROVE  at'[u] = "clear" /\ x \in held'[u]
      <3>1. CASE u # t
        BY <1>1, <2>3, <3>1
      <3>2. CASE u = t
        <4>1. Clear(t)
          BY <2>3, <3>2 DEF Step, Closing, CloseFlag, CloseStop, Test, Cas, Tell, Exchange, Kinds, Take
        <4>2. x \notin mStateChangeCallback'
          BY <2>3, <3>2, <4>1 DEF Clear
        <4> QED
          BY <4>2
      <3> QED
        BY <3>1, <3>2
    <2>4. CASE x = member["ice"]
      <3>1. CASE UNCHANGED member
        BY <2>4, <3>1
      <3>2. CASE (Start(t) \/ Check(t)) /\ member' = [member EXCEPT ![what[t]] = None]
        <4>1. what[t] # "ice"
          <5>1. at[t] \in Initializing
            BY <3>2 DEF Start, Check, Initializing
          <5> QED
            BY <1>3, <5>1 DEF Callers, Caller, MayStart
        <4> QED
          BY <1>1, <2>4, <3>2, <4>1
      <3>3. CASE /\ Exchange(t) /\ t \in {"closer", "processor"}
                 /\ at[t] \in Kinds /\ member' = [member EXCEPT ![at[t]] = None]
        <4>1. CASE at[t] # "ice"
          BY <1>1, <2>4, <3>3, <4>1
        <4>2. CASE at[t] = "ice"
          <5>1. Goes(t, "clear")
            BY <3>3, <4>2, Zenon DEF Exchange
          <5>2. at'[t] = "clear"
            BY <5>1, Typed DEF Goes
          <5>3. x \in held'[t]
            <6>1. held' = [held EXCEPT ![t] = @ \cup ({member["ice"]} \ {None})]
              BY <3>3, <4>2 DEF Exchange
            <6>2. x # None
              BY Kind DEF Transports
            <6> QED
              BY <2>4, <6>1, <6>2, Typed
          <5> QED
            BY <3>3, <5>2, <5>3
        <4> QED
          BY <4>1, <4>2
      <3> QED
        BY <1>3, <3>1, <3>2, <3>3, Frames
    <2> QED
      BY <2>2, <2>3, <2>4
  <1>4. CASE ~Store(t) /\ t = "user"
    <2>1. /\ x \in mStateChangeCallback /\ x \in Created
          /\ UNCHANGED gathering \/ (Gather /\ gathering' = gathering \cup {mine["user"]})
          /\ \/ UNCHANGED member
             \/ (Start(t) \/ Check(t)) /\ member' = [member EXCEPT ![what[t]] = None]
      BY <1>1, <1>4, Frames
    <2>2. /\ \/ x \in gathering
             \/ at["user"] \in {"start", "check", "gather"} /\ what["user"] = "ice"
          /\ member'["ice"] = member["ice"]
      <3>1. CASE Gather
        <4>1. at["user"] = "gather" /\ UNCHANGED member
          BY <3>1 DEF Gather
        <4> QED
          BY <4>1 DEF Callers, Caller, Threads
      <3>2. CASE ~Gather /\ at'["user"] = "idle"
        <4>1. x \in gathering
          BY <2>1, <3>2
        <4>2. CASE UNCHANGED member
          BY <4>1, <4>2
        <4>3. CASE (Start(t) \/ Check(t)) /\ member' = [member EXCEPT ![what[t]] = None]
          <5>1. at["user"] \in {"start", "check"}
            BY <1>4, <4>3 DEF Start, Check
          <5>2. what["user"] # "ice"
            BY <4>1, <5>1 DEF OneIce
          <5> QED
            BY <1>1, <1>4, <4>1, <4>3, <5>2
        <4> QED
          BY <2>1, <4>2, <4>3
      <3>3. CASE ~Gather /\ at'["user"] # "idle"
        <4>1. UNCHANGED gathering
          BY <2>1, <3>3
        <4>2. what'["user"] = what["user"]
              \/ (at'["user"] = "load" /\ UNCHANGED member)
          BY <1>4, <3>3, UserMoves
        <4>3. ~(at["user"] = "load" /\ what["user"] = "ice")
          BY <2>1 DEF OneIce
        <4>4. \/ x \in gathering
              \/ at["user"] \in {"start", "check", "gather"} /\ what["user"] = "ice"
          BY <1>4, <3>3, <4>1, <4>3, UserMoves
        <4>5. CASE UNCHANGED member
          BY <4>4, <4>5
        <4>6. CASE (Start(t) \/ Check(t)) /\ member' = [member EXCEPT ![what[t]] = None]
          <5>1. CASE what["user"] # "ice"
            BY <1>1, <1>4, <4>4, <4>6, <5>1
          <5>2. CASE what["user"] = "ice" /\ ~UNCHANGED member
            <6>1. at["user"] \in {"start", "check"} /\ gathering = {}
              BY <1>4, <4>6, <5>2 DEF Start, Check, OneIce
            <6>2. at'["user"] = "drop"
              BY <1>4, <3>3, <5>2, <6>1, UserMoves
            <6> QED
              BY <4>1, <6>1, <6>2
          <5> QED
            BY <4>5, <5>1, <5>2
        <4> QED
          BY <2>1, <4>5, <4>6
      <3> QED
        BY <3>1, <3>2, <3>3
    <2> QED
      BY <1>1, <1>4, <2>1, <2>2 DEF Registered
  <1> QED
    BY <1>2, <1>3, <1>4

-----------------------------------------------------------------------------
\* What a step may do to the state, and to what the application is told.
LEMMA StepState ==
    ASSUME TypeOK, References, NEW t \in Threads, Step(t)
    PROVE  state' \in States
  <1>1. state \in States /\ TransportStates \subseteq States
        /\ "Failed" \in States /\ "Closed" \in States
    BY DEF TypeOK, TransportStates, States
  <1>2. \A new \in States : \A more : ChangeState(new, more) => state' \in States
    BY <1>1 DEF ChangeState
  <1>3. \A x : Stop(t, x) => state' \in States
    BY <1>1, <1>2 DEF Stop
  <1>4. CASE Initialize(t)
    BY <1>1, <1>2, <1>3, <1>4 DEF Initialize, Load, Store, Start, Check, Drop, Throw
  <1>5. CASE Callback(t)
    <2>1. on[t] \in mStateChangeCallback => mState[on[t]] \in States
      BY <1>1 DEF References, Created, TypeOK
    <2> QED
      BY <1>1, <1>2, <1>5, <2>1 DEF Callback
  <1>6. CASE Closing(t)
    BY <1>1, <1>3, <1>6 DEF Closing, CloseFlag, CloseStop, Test, Cas, Tell, Exchange, Clear
  <1>7. CASE Gather \/ RenegotiateTest \/ Take \/ TearDownStop \/ TearDownReset
    BY <1>1, <1>7 DEF Gather, RenegotiateTest, Take, TearDownStop, TearDownReset
  <1> QED
    BY <1>4, <1>5, <1>6, <1>7 DEF Step

\* What a step of a thread may do to what was told.
LEMMA StepTold ==
    ASSUME NEW t \in Threads, Step(t)
    PROVE  /\ UNCHANGED <<remoteApp, localApp, failures>>
           /\ \/ UNCHANGED <<told, listening>>
              \/ listening /\ told' = "other" /\ UNCHANGED listening
              \/ told' = "Closed" /\ listening' = FALSE
           /\ closing' = closing \/ closing' = TRUE
           /\ channels' = channels \/ channels' = "closed"
           /\ calls' = calls \/ ("close" \in plan.calls /\ calls' = calls \cup {"close"})
  <1>1. CASE Initialize(t) \/ Callback(t)
    BY <1>1 DEF Initialize, Load, Store, Start, Check, Drop, Callback, keep, facts
  <1>2. CASE Closing(t)
    <2>1. CASE Tell(t)
      BY <2>1 DEF Tell, Listens, facts
    <2>2. CASE ~Tell(t)
      BY <1>2, <2>2 DEF Closing, CloseFlag, CloseStop, Test, Cas, Exchange, Clear, keep, facts
    <2> QED
      BY <2>1, <2>2
  <1>3. CASE Gather \/ RenegotiateTest \/ TearDownStop \/ TearDownReset
    BY <1>3 DEF Gather, RenegotiateTest, TearDownStop, TearDownReset, keep, facts
  <1>4. CASE Take
    BY <1>4 DEF Take, facts
  <1> QED
    BY <1>1, <1>2, <1>3, <1>4 DEF Step

\* The members and what lies below each transport are of the right kind.
LEMMA StepKinds ==
    ASSUME TypeOK, References, Callers, NEW t \in Threads, Step(t)
    PROVE  /\ \A k \in Kinds : member'[k] \in Of(k) \cup {None}
           /\ \A x \in Ice : mLower'[x] = None
           /\ \A x \in Dtls : mLower'[x] \in Ice \cup {None}
           /\ \A x \in Sctp : mLower'[x] \in Dtls \cup {None}
  <1>1. /\ \A k \in Kinds : member[k] \in Of(k) \cup {None}
        /\ \A x \in Ice : mLower[x] = None
        /\ \A x \in Dtls : mLower[x] \in Ice \cup {None}
        /\ \A x \in Sctp : mLower[x] \in Dtls \cup {None}
        /\ what[t] \in Kinds
    BY DEF TypeOK
  <1>2. member \in [Kinds -> Transports \cup {None}] /\ mLower \in [Transports -> Transports \cup {None}]
    BY Typed
  <1>3. CASE Store(t)
    <2>1. PICK x \in Of(what[t]) : /\ x \in Transports /\ member' = [member EXCEPT ![what[t]] = x]
                                   /\ mLower' = [mLower EXCEPT ![x] = mine[t]] /\ at[t] = "store"
      BY <1>3, StoreEffect
    <2>2. \A k \in Kinds : member'[k] \in Of(k) \cup {None}
      BY <1>1, <1>2, <2>1
    <2>3. \/ what[t] = "ice" /\ mine[t] = None
          \/ what[t] # "ice" /\ mine[t] \in Of(LowerKind(what[t]))
      BY <2>1 DEF Callers, Caller
    <2>4. what[t] = "ice" \/ what[t] = "dtls" \/ what[t] = "sctp"
      BY <1>1 DEF Kinds
    <2>5. /\ x \in Ice => mine[t] = None
          /\ x \in Dtls => mine[t] \in Ice
          /\ x \in Sctp => mine[t] \in Dtls
      BY <2>1, <2>3, <2>4, Kind, LifecycleAssumption
    <2>6. \A y \in Transports : mLower'[y] = IF y = x THEN mine[t] ELSE mLower[y]
      BY <1>2, <2>1
    <2> QED
      BY <1>1, <2>2, <2>5, <2>6 DEF Transports
  <1>4. CASE ~Store(t)
    <2>1. /\ UNCHANGED mLower
          /\ UNCHANGED member \/ \E k \in Kinds : member' = [member EXCEPT ![k] = None]
      BY <1>1, <1>4, Frames
    <2> QED
      BY <1>1, <1>2, <2>1
  <1> QED
    BY <1>3, <1>4

\* TypeOK, given the pieces a step changes.
LEMMA Types ==
    ASSUME TypeOK, References', NEW u \in Threads, Others(u), UNCHANGED plan,
           state' \in States, told' \in {told, "other", "Closed"}, channels' \in {channels, "closed"},
           closing' \in {closing, TRUE}, listening' \in {listening, FALSE},
           remoteApp' \in {remoteApp, TRUE}, localApp' \in {localApp, TRUE},
           \A k \in Kinds : member'[k] \in Of(k) \cup {None},
           mState' \in [Transports -> TransportStates \cup {"none"}],
           \A x \in Ice : mLower'[x] = None,
           \A x \in Dtls : mLower'[x] \in Ice \cup {None},
           \A x \in Sctp : mLower'[x] \in Dtls \cup {None},
           failures' \in 0..plan.failures, calls' \subseteq plan.calls
    PROVE  TypeOK'
  <1>1. state' \in States /\ told' \in {"none", "other", "Closed"}
        /\ channels' \in {"open", "closed"} /\ calls' \subseteq plan'.calls
        /\ failures' \in 0..plan'.failures
    BY DEF TypeOK
  <1>2. {closing', listening', remoteApp', localApp'} \subseteq BOOLEAN
    <2>1. {closing, listening, remoteApp, localApp} \subseteq BOOLEAN
      BY DEF TypeOK
    <2>2. closing \in BOOLEAN /\ listening \in BOOLEAN /\ remoteApp \in BOOLEAN /\ localApp \in BOOLEAN
      BY <2>1, Zenon
    <2>3. closing' \in BOOLEAN /\ listening' \in BOOLEAN /\ remoteApp' \in BOOLEAN /\ localApp' \in BOOLEAN
      BY <2>2
    <2> QED
      BY <2>3, Zenon
  <1>3. /\ \A x \in Transports : x \in ending' => mState'[x] # "none"
        /\ UNION {mStateChangeCallback', gathering', ending'} \subseteq Transports
    BY DEF References, Created
  <1>4. /\ at' \in [Threads -> Labels] /\ what' \in [Threads -> Kinds]
        /\ {on'[t] : t \in Threads} \subseteq Transports \cup {"connection", None}
        /\ \A t \in Threads : held'[t] \subseteq Transports /\ mine'[t] \in Transports \cup {None}
    BY DEF Others
  <1> QED
    BY <1>1, <1>2, <1>3, <1>4 DEF TypeOK

\* The bounds of the plan.
LEMMA Bounds ==
    ASSUME TypeOK, References
    PROVE  /\ plan.failures \in Nat /\ failures \in 0..plan.failures /\ calls \subseteq plan.calls
           /\ failures < plan.failures => failures + 1 \in 0..plan.failures
  <1>1. plan.failures \in Nat /\ failures \in 0..plan.failures /\ calls \subseteq plan.calls
    BY LifecycleAssumption DEF TypeOK, References
  <1> QED
    BY <1>1

-----------------------------------------------------------------------------
\* Every action preserves the invariant: the steps of the threads ...
LEMMA StepInv ==
    ASSUME Inv, NEW t \in Threads, Step(t), UNCHANGED plan
    PROVE  Inv'
  <1> USE DEF Inv
  <1>1. References'
    BY StepReferences
  <1>2. Others(t)
    BY StepOthers
  <1>3. TypeOK'
    <2>1. mState' \in [Transports -> TransportStates \cup {"none"}]
      <3>1. CASE Store(t)
        <4>1. PICK x : mState' = [mState EXCEPT ![x] = "Disconnected"]
          BY <3>1, StoreEffect
        <4> QED
          BY <4>1, Typed DEF TransportStates
      <3>2. CASE ~Store(t)
        BY <3>2, StatesKept
      <3> QED
        BY <3>1, <3>2
    <2>2. /\ told' \in {told, "other", "Closed"} /\ channels' \in {channels, "closed"}
          /\ closing' \in {closing, TRUE} /\ listening' \in {listening, FALSE}
          /\ remoteApp' \in {remoteApp, TRUE} /\ localApp' \in {localApp, TRUE}
      BY StepTold
    <2>3. failures' \in 0..plan.failures /\ calls' \subseteq plan.calls
      BY StepTold, Bounds
    <2>4. state' \in States
      BY StepState
    <2>5. /\ \A k \in Kinds : member'[k] \in Of(k) \cup {None}
          /\ \A x \in Ice : mLower'[x] = None
          /\ \A x \in Dtls : mLower'[x] \in Ice \cup {None}
          /\ \A x \in Sctp : mLower'[x] \in Dtls \cup {None}
      BY StepKinds
    <2> HIDE DEF Inv
    <2> QED
      BY <1>1, <1>2, <2>1, <2>2, <2>3, <2>4, <2>5, Types DEF Inv
  <1>4. Callers'
    <2>1. Created \subseteq Created'
      <3>1. CASE Store(t)
        BY <3>1, StoreEffect
      <3>2. CASE ~Store(t)
        BY <3>2, StatesKept
      <3> QED
        BY <3>1, <3>2
    <2>2. ASSUME NEW u \in Threads, u # t PROVE Caller(u)'
      <3>1. Caller(u) /\ at'[u] = at[u] /\ on'[u] = on[u] /\ what'[u] = what[u] /\ mine'[u] = mine[u]
        BY <1>2, <2>2 DEF Others, Callers
      <3> QED
        BY <2>1, <3>1, CallerKept
    <2>3. Caller(t)'
      BY StepCaller
    <2> QED
      BY <2>2, <2>3 DEF Callers
  <1>5. OneIce'
    BY StepOneIce
  <1>6. Agent'
    BY StepAgent
  <1>7. Registered'
    BY StepRegistered
  <1>8. Deaf'
    BY StepTold DEF Deaf
  <1> QED
    BY <1>1, <1>3, <1>4, <1>5, <1>6, <1>7, <1>8

\* ... the changes of the transports ...
LEMMA ChangesInv ==
    ASSUME Inv, NEW t \in Threads, t \in {"agent", "worker", "association"}, Changes(t), UNCHANGED plan
    PROVE  Inv'
  <1> USE DEF Inv
  <1>1. /\ Others(t) /\ at[t] = "idle" /\ at'[t] = "callback"
        /\ on'[t] \in Created /\ Owns(t, on'[t]) /\ (t = "agent" => on'[t] \in gathering)
        /\ held'[t] \subseteq Created /\ (t = "agent" => held'[t] = {})
        /\ mState' \in [Transports -> TransportStates \cup {"none"}] /\ Created' = Created
        /\ UNCHANGED <<state, closing, member, mLower, gathering, mStateChangeCallback, ending,
                       remoteApp, localApp, channels, told, listening, calls, tasks, what, mine>>
    BY ChangeOthers
  <1> HIDE DEF Created
  <1>2. t \in Threads /\ \A u \in Threads : u # t => at'[u] = at[u] /\ held'[u] = held[u]
    BY <1>1 DEF Threads, Others
  <1>10. \A u \in {"user", "closer", "processor"} : at'[u] = at[u] /\ held'[u] = held[u]
    BY <1>2 DEF Threads
  <1>11. at'["user"] = at["user"]
    BY <1>10
  <1>12. Agent
    OBVIOUS
  <1>13. OneIce /\ Registered
    OBVIOUS
  <1> HIDE DEF Inv
  <1>3. References'
    <2>1. held' \in [Threads -> SUBSET Created'] /\ mine' \in [Threads -> Created' \cup {None}]
      <3>1. \A u \in Threads : held'[u] \in SUBSET Created
        BY <1>1, <1>2 DEF Inv, References, Holders
      <3> QED
        BY <1>1, <3>1 DEF Inv, Others, References
    <2>2. on' \in [Threads -> Transports \cup {"connection", None}]
      BY <1>1 DEF Others
    <2>3. gathering' \subseteq Ice \cap Created' /\ mStateChangeCallback' \subseteq Created'
      BY <1>1 DEF Inv, References
    <2> QED
      BY <1>1, <2>1, <2>2, <2>3, Referring DEF Inv
  <1>4. TypeOK'
    <2>1. failures' \in 0..plan.failures /\ calls' \subseteq plan.calls
      BY <1>1, Bounds DEF Inv, Changes
    <2>2. /\ state' \in States
          /\ \A k \in Kinds : member'[k] \in Of(k) \cup {None}
          /\ \A x \in Ice : mLower'[x] = None
          /\ \A x \in Dtls : mLower'[x] \in Ice \cup {None}
          /\ \A x \in Sctp : mLower'[x] \in Dtls \cup {None}
      BY <1>1 DEF Inv, TypeOK
    <2>3. /\ told' \in {told, "other", "Closed"} /\ channels' \in {channels, "closed"}
          /\ closing' \in {closing, TRUE} /\ listening' \in {listening, FALSE}
          /\ remoteApp' \in {remoteApp, TRUE} /\ localApp' \in {localApp, TRUE}
      BY <1>1
    <2>4. TypeOK
      BY DEF Inv
    <2>5. mState' \in [Transports -> TransportStates \cup {"none"}]
      BY <1>1
    <2>6. Others(t)
      BY <1>1
    <2> QED
      BY <1>3, <2>1, <2>2, <2>3, <2>4, <2>5, <2>6, Types
  <1>5. Callers'
    <2>1. ASSUME NEW u \in Threads, u # t PROVE Caller(u)'
      <3>1. Caller(u) /\ at'[u] = at[u] /\ on'[u] = on[u] /\ what'[u] = what[u] /\ mine'[u] = mine[u]
        BY <1>1, <2>1 DEF Inv, Others, Callers
      <3> QED
        BY <1>1, <3>1, CallerKept
    <2>2. Caller(t)'
      BY <1>1 DEF Caller, Initializing, Owns
    <2> QED
      BY <2>1, <2>2 DEF Callers
  <1>6. OneIce'
    BY <1>1, <1>11, <1>13 DEF OneIce
  <1>7. Agent'
    <2>1. CASE t = "agent"
      BY <1>1, <2>1 DEF Agent, Initializing
    <2>2. CASE t # "agent"
      <3>1. /\ at'["agent"] = at["agent"] /\ on'["agent"] = on["agent"]
            /\ held'["agent"] = held["agent"]
        BY <1>1, <2>2 DEF Others, Threads
      <3> QED
        BY <1>1, <1>12, <3>1 DEF Agent
    <2> QED
      BY <2>1, <2>2
  <1>8. Registered'
    BY <1>1, <1>10, <1>11, <1>13 DEF Registered
  <1>9. Deaf'
    BY <1>1 DEF Inv, Deaf
  <1> QED
    BY <1>3, <1>4, <1>5, <1>6, <1>7, <1>8, <1>9 DEF Inv

\* ... and the calls of the application.
LEMMA CallEffect ==
    ASSUME Offer \/ Renegotiate \/ CallClose \/ CallDestroy
    PROVE  /\ UNCHANGED <<state, closing, member, mState, mLower, gathering, mStateChangeCallback,
                          ending, channels, told, listening, tasks, held, mine, on, failures>>
           /\ remoteApp' \in {remoteApp, TRUE} /\ localApp' \in {localApp, TRUE}
           /\ \E c \in plan.calls : calls' = calls \cup {c}
           /\ Offer => at["user"] = "idle" /\ "offer" \notin calls /\ "offer" \in calls'
           /\ Renegotiate => at["user"] = "idle" /\ what' = [what EXCEPT !["user"] = "sctp"]
           /\ CallClose \/ CallDestroy => at["closer"] = "idle" /\ UNCHANGED what
  <1>1. CASE Offer
    BY <1>1 DEF Offer, Renegotiate, CallClose, CallDestroy, Call, lives, facts
  <1>2. CASE Renegotiate
    BY <1>2 DEF Offer, Renegotiate, CallClose, CallDestroy, Call, lives, facts
  <1>3. ASSUME NEW name \in {"close", "destroy"}, NEW label, Call(name, label)
        PROVE  /\ UNCHANGED <<state, closing, member, mState, mLower, gathering, mStateChangeCallback,
                              ending, channels, told, listening, tasks, held, mine, on, failures>>
               /\ UNCHANGED <<remoteApp, localApp>>
               /\ \E c \in plan.calls : calls' = calls \cup {c}
               /\ calls' = calls \cup {name} /\ at["closer"] = "idle" /\ UNCHANGED what
    BY <1>3 DEF Call, Goes, lives, facts
  <1>4. CASE CallClose \/ CallDestroy
    <2>1. \E name \in {"close", "destroy"} : \E label : Call(name, label)
      BY <1>4 DEF CallClose, CallDestroy
    <2>2. ~("offer" \notin calls /\ "offer" \in calls')
      BY <1>3, <2>1
    <2>3. Offer => "offer" \notin calls /\ "offer" \in calls'
      BY DEF Offer
    <2>4. Renegotiate => at["user"] = "idle" /\ what' = [what EXCEPT !["user"] = "sctp"]
      BY DEF Renegotiate
    <2> QED
      BY <1>3, <2>1, <2>2, <2>3, <2>4
  <1> QED
    BY <1>1, <1>2, <1>4

\* A call of the application begins.
LEMMA CallsInv ==
    ASSUME Inv, Offer \/ Renegotiate \/ CallClose \/ CallDestroy, UNCHANGED plan
    PROVE  Inv'
  <1>1. /\ UNCHANGED <<state, closing, member, mState, mLower, gathering, mStateChangeCallback,
                       ending, channels, told, listening, tasks, held, mine, on, failures>>
        /\ remoteApp' \in {remoteApp, TRUE} /\ localApp' \in {localApp, TRUE}
        /\ \E c \in plan.calls : calls' = calls \cup {c}
    BY CallEffect
  <1>2. Created' = Created
    BY <1>1 DEF Created
  <1> HIDE DEF Created
  <1>3. TypeOK /\ References /\ Callers /\ OneIce /\ Agent /\ Registered /\ Deaf
    BY DEF Inv
  <1>4. PICK t \in {"user", "closer"} :
            /\ Others(t) /\ at[t] = "idle"
            /\ t = "closer" => at'[t] \in {"close", "remoteClose"}
            /\ t = "user" => \/ Renegotiate /\ at'[t] = "renegotiate"
                             \/ Offer /\ at'[t] = "load" /\ what'[t] = "ice"
    <2>1. CASE Offer \/ Renegotiate
      BY <1>3, <2>1, CallOthers, CallEffect
    <2>2. CASE CallClose \/ CallDestroy
      BY <1>3, <2>2, CallOthers, CallEffect
    <2> QED
      BY <2>1, <2>2
  <1>5. t \in Threads
    BY DEF Threads
  <1>6. References'
    <2>1. held' \in [Threads -> SUBSET Created'] /\ mine' \in [Threads -> Created' \cup {None}]
          /\ on' \in [Threads -> Transports \cup {"connection", None}]
      BY <1>1, <1>2, <1>3 DEF References, Holders
    <2>2. gathering' \subseteq Ice \cap Created' /\ mStateChangeCallback' \subseteq Created'
      BY <1>1, <1>2, <1>3 DEF References
    <2> QED
      BY <1>1, <1>2, <1>3, <2>1, <2>2, Referring
  <1>7. TypeOK'
    <2>1. failures' \in 0..plan.failures /\ calls' \subseteq plan.calls
      BY <1>1, <1>3, Bounds
    <2>2. /\ state' \in States
          /\ \A k \in Kinds : member'[k] \in Of(k) \cup {None}
          /\ \A x \in Ice : mLower'[x] = None
          /\ \A x \in Dtls : mLower'[x] \in Ice \cup {None}
          /\ \A x \in Sctp : mLower'[x] \in Dtls \cup {None}
          /\ mState' \in [Transports -> TransportStates \cup {"none"}]
      BY <1>1, <1>3 DEF TypeOK
    <2>3. /\ told' \in {told, "other", "Closed"} /\ channels' \in {channels, "closed"}
          /\ closing' \in {closing, TRUE} /\ listening' \in {listening, FALSE}
      BY <1>1
    <2> QED
      BY <1>1, <1>3, <1>4, <1>5, <1>6, <2>1, <2>2, <2>3, Types
  <1>8. Callers'
    <2>1. ASSUME NEW u \in Threads, u # t PROVE Caller(u)'
      <3>1. Caller(u) /\ at'[u] = at[u] /\ on'[u] = on[u] /\ what'[u] = what[u] /\ mine'[u] = mine[u]
        BY <1>3, <1>4, <2>1 DEF Others, Callers
      <3> QED
        BY <1>2, <3>1, CallerKept
    <2>2. CASE t = "closer"
      <3>1. Caller(t)'
        BY <1>4, <2>2, CallerAway DEF Initializing
      <3> QED
        BY <2>1, <3>1 DEF Callers
    <2>3. CASE t = "user"
      <3>1. Caller(t)'
        <4>1. CASE Renegotiate /\ at'[t] = "renegotiate"
          <5>1. what'[t] = "sctp"
            BY <1>3, <2>3, <4>1, CallEffect, Typed DEF Threads
          <5> QED
            BY <2>3, <4>1, <5>1 DEF Caller, Initializing
        <4>2. CASE at'[t] = "load" /\ what'[t] = "ice"
          BY <2>3, <4>2 DEF Caller, MayStart, Initializing
        <4> QED
          BY <1>4, <2>3, <4>1, <4>2
      <3> QED
        BY <2>1, <3>1 DEF Callers
    <2> QED
      BY <2>2, <2>3
  <1>9. /\ t # "user" => at'["user"] = at["user"] /\ what'["user"] = what["user"]
        /\ at'["agent"] = at["agent"] /\ at'["processor"] = at["processor"]
        /\ t # "closer" => at'["closer"] = at["closer"]
    BY <1>4 DEF Others, Threads
  <1>10. OneIce'
    <2>1. CASE t # "user"
      BY <1>1, <1>2, <1>3, <1>9, <2>1 DEF OneIce
    <2>2. CASE t = "user" /\ at'["user"] = "renegotiate"
      BY <1>1, <1>2, <1>3, <2>2 DEF OneIce
    <2>3. CASE t = "user" /\ Offer /\ at'["user"] = "load"
      <3>1. "offer" \in calls' /\ "offer" \notin calls
        BY <2>3, CallEffect
      <3> QED
        BY <1>1, <1>2, <1>3, <2>3, <3>1 DEF OneIce
    <2> QED
      BY <1>4, <2>1, <2>2, <2>3
  <1>11. Agent'
    BY <1>1, <1>3, <1>9 DEF Agent
  <1>12. Registered'
    <2>1. CASE t # "user"
      BY <1>1, <1>3, <1>4, <1>9, <2>1 DEF Registered
    <2>2. CASE t = "user"
      BY <1>1, <1>3, <1>4, <1>9, <2>2 DEF Registered
    <2> QED
      BY <2>1, <2>2
  <1>13. Deaf'
    BY <1>1, <1>3 DEF Deaf
  <1> QED
    BY <1>6, <1>7, <1>8, <1>10, <1>11, <1>12, <1>13 DEF Inv

\* At first nothing is there, and no thread runs.
LEMMA Initially ==
    Init => Inv
  <1> SUFFICES ASSUME Init PROVE Inv
    OBVIOUS
  <1>1. Created = {} /\ plan \in Plans
    BY DEF Init, Created
  <1> HIDE DEF Created
  <1>2. /\ at = [t \in Threads |-> "idle"] /\ on = [t \in Threads |-> None]
        /\ what = [t \in Threads |-> "ice"] /\ mine = [t \in Threads |-> None]
        /\ held = [t \in Threads |-> {}] /\ tasks = <<>>
        /\ member = [k \in Kinds |-> None] /\ mLower = [x \in Transports |-> None]
        /\ mState = [x \in Transports |-> "none"]
        /\ mStateChangeCallback = {} /\ gathering = {} /\ ending = {} /\ failures = 0
        /\ state = "New" /\ told = "none" /\ channels = "open" /\ calls = {}
    BY DEF Init
  <1>3. References
    <2>1. tasks \in Seq(SUBSET Created)
      BY <1>2
    <2> QED
      BY <1>1, <1>2, <2>1 DEF References, Holders
  <1>4. TypeOK
    <2>1. {closing, listening, remoteApp, localApp} \subseteq BOOLEAN
      <3>1. closing \in BOOLEAN /\ listening \in BOOLEAN
        BY DEF Init
      <3>2. remoteApp \in BOOLEAN /\ localApp \in BOOLEAN
        BY Zenon DEF Init
      <3> QED
        BY Zenon, <3>1, <3>2
    <2>2. failures \in 0..plan.failures
      BY <1>1, <1>2, LifecycleAssumption
    <2>3. "idle" \in Labels /\ "ice" \in Kinds /\ "New" \in States
      BY DEF Labels, Kinds, States
    <2>4. /\ {on[t] : t \in Threads} \subseteq Transports \cup {"connection", None}
          /\ \A t \in Threads : held[t] \subseteq Transports /\ mine[t] \in Transports \cup {None}
          /\ UNION {mStateChangeCallback, gathering, ending} \subseteq Transports
      BY <1>2
    <2>5. /\ \A x \in Ice : mLower[x] = None
          /\ \A x \in Dtls : mLower[x] \in Ice \cup {None}
          /\ \A x \in Sctp : mLower[x] \in Dtls \cup {None}
          /\ \A k \in Kinds : member[k] \in Of(k) \cup {None}
      BY <1>2 DEF Transports
    <2> QED
      BY <1>2, <2>1, <2>2, <2>3, <2>4, <2>5 DEF TypeOK
  <1>5. Callers
    <2>1. ASSUME NEW t \in Threads PROVE Caller(t)
      <3>1. at[t] = "idle"
        BY <1>2
      <3> QED
        BY <3>1 DEF Caller, Initializing
    <2> QED
      BY <2>1 DEF Callers
  <1>6. at["user"] = "idle" /\ at["agent"] = "idle" /\ held["agent"] = {}
    BY <1>2 DEF Threads
  <1>7. OneIce /\ Agent /\ Registered /\ Deaf
    BY <1>1, <1>2, <1>6 DEF OneIce, Agent, Registered, Deaf, Initializing
  <1> QED
    BY <1>3, <1>4, <1>5, <1>7 DEF Inv

\* Every step leaves the invariant.
LEMMA Inductive ==
    ASSUME Inv, [Next]_vars
    PROVE  Inv'
  <1>1. CASE UNCHANGED vars
    <2>1. UNCHANGED <<state, closing, member, mState, mLower, gathering, mStateChangeCallback,
                      ending, remoteApp, localApp, failures, channels, told, listening, calls,
                      queue, tasks, at, on, what, mine, held, plan>>
      BY <1>1 DEF vars, lives, keep, facts, thread
    <2>2. TypeOK'
      BY <2>1 DEF Inv, TypeOK
    <2>3. Created' = Created /\ (Holders => Holders')
      BY <2>1 DEF Created, Holders
    <2> HIDE DEF Created
    <2>4. References'
      BY <2>1, <2>3 DEF Inv, References
    <2>5. Callers'
      <3>1. ASSUME NEW t \in Threads PROVE Caller(t)'
        BY <2>1, <2>3, CallerKept DEF Inv, Callers
      <3> QED
        BY <3>1 DEF Callers
    <2>6. OneIce' /\ Agent' /\ Registered' /\ Deaf'
      BY <2>1, <2>3 DEF Inv, OneIce, Agent, Registered, Deaf
    <2> QED
      BY <2>2, <2>4, <2>5, <2>6 DEF Inv
  <1>2. CASE Next
    <2>1. UNCHANGED plan
      BY <1>2 DEF Next
    <2>2. CASE \E t \in Threads : Step(t)
      BY <2>1, <2>2, StepInv
    <2>3. CASE Offer \/ Renegotiate \/ CallClose \/ CallDestroy
      BY <2>1, <2>3, CallsInv
    <2>4. CASE IceChange \/ DtlsChange \/ SctpChange \/ \E x \in Transports : Finish(x)
      <3>1. PICK t \in {"agent", "worker", "association"} : Changes(t)
        BY <2>4, ChangeCases DEF Inv
      <3>2. t \in Threads
        BY DEF Threads
      <3> QED
        BY <2>1, <3>1, <3>2, ChangesInv
    <2> QED
      BY <1>2, <2>2, <2>3, <2>4 DEF Next
  <1> QED
    BY <1>1, <1>2

\* Whatever transports a thread starts, holds or calls back exist, and the one ICE
\* transport stays referred to while the agent's thread runs its callback.
THEOREM Invariance ==
    Spec => []Inv
  <1>1. Init => Inv
    BY Initially
  <1>2. Inv /\ [Next]_vars => Inv'
    BY Inductive
  <1> QED
    BY <1>1, <1>2, PTL DEF Spec

-----------------------------------------------------------------------------
\* Who is told Closed is told nothing after.
LEMMA ToldLast ==
    ASSUME Inv, [Next]_vars, told = "Closed"
    PROVE  told' = told
  <1>1. ~listening
    BY DEF Inv, Deaf
  <1>2. CASE UNCHANGED vars
    BY <1>2 DEF vars, keep
  <1>3. CASE \E t \in Threads : Step(t)
    BY <1>1, <1>3, StepTold
  <1>4. CASE Offer \/ Renegotiate \/ CallClose \/ CallDestroy
    BY <1>4, CallEffect
  <1>5. CASE IceChange \/ DtlsChange \/ SctpChange \/ \E x \in Transports : Finish(x)
    <2>1. PICK t \in {"agent", "worker", "association"} : Changes(t)
      BY <1>5, ChangeCases DEF Inv
    <2> QED
      BY <2>1, ChangeOthers DEF Inv
  <1> QED
    BY <1>2, <1>3, <1>4, <1>5 DEF Next

\* The agent moves by itself only.
LEMMA AgentAlone ==
    ASSUME Inv, [Next]_vars, at'["agent"] # at["agent"]
    PROVE  Step("agent") \/ Changes("agent")
  <1>1. TypeOK /\ References /\ "agent" \in Threads
    BY DEF Inv, Threads
  <1>2. ~UNCHANGED vars
    BY DEF vars, thread
  <1>3. ASSUME NEW t, Others(t), t # "agent" PROVE FALSE
    BY <1>1, <1>3 DEF Others
  <1>4. CASE \E t \in Threads : Step(t)
    BY <1>1, <1>3, <1>4, StepOthers
  <1>5. ~(Offer \/ Renegotiate \/ CallClose \/ CallDestroy)
    BY <1>1, <1>3, CallOthers
  <1>6. CASE IceChange \/ DtlsChange \/ SctpChange \/ \E x \in Transports : Finish(x)
    <2>1. PICK t \in {"agent", "worker", "association"} : Changes(t)
      BY <1>1, <1>6, ChangeCases
    <2>2. t = "agent"
      BY <1>1, <1>3, <2>1, ChangeOthers
    <2> QED
      BY <2>1, <2>2
  <1> QED
    BY <1>2, <1>4, <1>5, <1>6 DEF Next

\* What the agent's thread does while it holds nothing releases nothing, and what it
\* does in the callback of the ICE transport leaves the references the connection, or
\* the thread that closes it, has to that transport.
LEMMA AgentReleasesNone ==
    ASSUME Inv, [Next]_vars, at'["agent"] # at["agent"], NEW x \in Ice, x \in Alive
    PROVE  x \in Alive'
  <1>1. TypeOK /\ References /\ Callers /\ OneIce /\ Agent /\ Registered /\ "agent" \in Threads
    BY DEF Inv, Threads
  <1>2. /\ held \in [Threads -> SUBSET Transports] /\ member \in [Kinds -> Transports \cup {None}]
        /\ at \in [Threads -> Labels]
    BY <1>1, Typed
  <1>3. UNCHANGED <<member, mLower, held, tasks>> => Alive' = Alive
    BY DEF Alive, Below
  <1>4. CASE at["agent"] \notin Initializing
    <2>1. held["agent"] = {}
      BY <1>1, <1>4 DEF Agent
    <2>2. held'["agent"] = {} /\ Others("agent") => UNCHANGED held
      <3> SUFFICES ASSUME held'["agent"] = {}, Others("agent") PROVE UNCHANGED held
        OBVIOUS
      <3>1. held' \in [Threads -> SUBSET Transports] /\ \A u \in Threads : held'[u] = held[u]
        BY <2>1 DEF Others
      <3> QED
        BY <1>2, <3>1
    <2>3. CASE Step("agent")
      <3>1. Callback("agent")
        BY <1>4, <2>3 DEF Step, Initialize, Load, Store, Start, Check, Drop, Initializing
      <3>2. UNCHANGED <<member, mLower, tasks>> /\ (UNCHANGED held \/ Returns("agent"))
        BY <3>1 DEF Callback, lives
      <3>3. Returns("agent") => held'["agent"] = {} /\ Others("agent")
        BY <1>1, ReturnsTo
      <3> QED
        BY <1>3, <2>2, <3>2, <3>3
    <2>4. CASE Changes("agent")
      <3>1. held'["agent"] = {} /\ Others("agent") /\ UNCHANGED <<member, mLower, tasks>>
        BY <1>1, <2>4, ChangeOthers
      <3> QED
        BY <1>3, <2>2, <3>1
    <2> QED
      BY <2>3, <2>4, AgentAlone
  <1>5. CASE at["agent"] \in Initializing
    <2>1. x \in Created
      BY <1>1, AliveCreated DEF References
    <2>2. on["agent"] \in gathering /\ on["agent"] \in mStateChangeCallback
      BY <1>1, <1>5 DEF Agent, Initializing
    <2>3. x = on["agent"]
      BY <1>1, <2>1, <2>2 DEF OneIce, References
    <2>4. \/ x = member["ice"]
          \/ \E t \in {"closer", "processor"} : x \in held[t]
      BY <1>1, <2>2, <2>3 DEF Registered
    <2>5. Step("agent")
      <3>1. ~Changes("agent")
        BY <1>1, <1>5, ChangeOthers DEF Initializing
      <3> QED
        BY <3>1, AgentAlone
    <2>6. what["agent"] = "dtls"
      BY <1>1, <1>5 DEF Callers, Caller, MayStart
    <2>7. member'["ice"] = member["ice"]
      <3>1. "ice" \in Kinds /\ "dtls" # "ice"
        BY DEF Kinds
      <3>2. CASE Store("agent")
        BY <1>1, <1>2, <2>6, <3>1, <3>2, StoreEffect
      <3>3. CASE ~Store("agent")
        BY <1>1, <1>2, <2>5, <2>6, <3>1, <3>3, Frames
      <3> QED
        BY <3>2, <3>3
    <2>8. held'["closer"] = held["closer"] /\ held'["processor"] = held["processor"]
      BY <1>1, <2>5, StepOthers DEF Others, Threads
    <2>9. x \in Roots'
      <3>1. CASE x = member["ice"]
        <4>1. x = member'["ice"] /\ "ice" \in Kinds /\ x # None
          BY <2>7, <3>1, LifecycleAssumption DEF Kinds, Transports
        <4> QED
          BY <4>1 DEF Roots
      <3>2. CASE \E t \in {"closer", "processor"} : x \in held[t]
        <4>1. \E t \in Threads : x \in held'[t]
          BY <2>8, <3>2 DEF Threads
        <4> QED
          BY <4>1 DEF Roots
      <3> QED
        BY <2>4, <3>1, <3>2
    <2>10. (Roots \subseteq Alive)'
      BY AliveRoots, PTL
    <2> QED
      BY <2>9, <2>10
  <1> QED
    BY <1>4, <1>5

\* No step announces anything after Closed, or has the agent's thread destroy the ICE
\* transport whose destructor joins it, and the state keeps its types.
THEOREM Safety ==
    Spec => LifecycleSafety
  <1>1. Inv => TypeOK
    BY DEF Inv
  <1>2. Inv /\ [Next]_vars => [told = "Closed" => told' = told]_vars
    BY ToldLast
  <1>3. Inv /\ [Next]_vars =>
            [(\E x \in Ice : x \in Alive /\ x \notin Alive') => at'["agent"] = at["agent"]]_vars
    BY AgentReleasesNone
  <1> QED
    BY <1>1, <1>2, <1>3, Invariance, PTL
       DEF Spec, LifecycleSafety, ClosedIsLast, AgentNotOnItself
=============================================================================
