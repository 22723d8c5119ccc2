----------------------------- MODULE InitTokens -----------------------------
(***************************************************************************)
(* impl::Init (src/src/impl/init.cpp): the library is started by the first *)
(* token and torn down, from a detached thread, when the last one is       *)
(* released.  Tokens are shared pointers to a TokenPayload; a payload is   *)
(* named by its number in order of creation.  Composed with the thread     *)
(* pool: doCleanup() joins and clears the pool while it holds Init::mMutex *)
(* and pool tasks themselves hold, take and release tokens.                *)
(***************************************************************************)
EXTENDS ThreadPool

CONSTANTS
    Users,                  \* application threads, each owning one object
    MaxPayloads,            \* bound on the payloads ever created
    Closers,                \* tasks bound to an object (and so to its token)
                            \* that close it, as PeerConnection::remoteClose
    Teardown,               \* Teardown[c]: the task c enqueues, with a token of
                            \* its own, on the TearDownProcessor
    Overlap                 \* whether the application restarts or cleans up the
                            \* library before an earlier cleanup has finished

ASSUME InitAssumption ==
    /\ MaxPayloads \in Nat
    /\ Closers \subseteq Tasks \ Delayed
    /\ Teardown \in [Closers -> Tasks \ (Closers \cup Delayed)]
    /\ Overlap \in BOOLEAN

VARIABLES
    mGlobal,                \* payload kept by Init itself, 0 when empty
    mWeak,                  \* payload the weak pointer refers to, 0 at first
    mInitialized,
    mMutex,                 \* payload whose cleanup thread holds mMutex, or 0
    created,                \* payloads created so far; mCleanupFuture is the
                            \* future of the last one
    pstate,                 \* life of each payload
    held,                   \* payload of the token each user holds, or 0
    captured                \* payload of the token each task captured, or 0

initVars == <<mGlobal, mWeak, mInitialized, mMutex, created, pstate, held, captured>>
vars == <<poolVars, initVars>>

Payloads == 1..MaxPayloads

TypeOK ==
    /\ PoolTypeOK
    /\ {mGlobal, mWeak, mMutex, created} \subseteq 0..MaxPayloads
    /\ mInitialized \in BOOLEAN
    /\ pstate \in [Payloads -> {"none", "alive", "dying", "cleaning", "done"}]
    /\ held \in [Users -> 0..MaxPayloads]
    /\ captured \in [Tasks -> 0..MaxPayloads]

Init ==
    /\ PoolInit
    /\ mGlobal = 0
    /\ mWeak = 0
    /\ mInitialized = FALSE
    /\ mMutex = 0
    /\ created = 0
    /\ pstate = [p \in Payloads |-> "none"]
    /\ held = [u \in Users |-> 0]
    /\ captured = [t \in Tasks |-> 0]

-----------------------------------------------------------------------------
\* ~TokenPayload, for the payloads that the step leaves without a reference:
\* each starts its detached cleanup thread.
Expire(states, global, users, tasks) ==
    [p \in Payloads |->
        IF states[p] = "alive" /\ global # p
              /\ (\A u \in Users : users[u] # p) /\ (\A t \in Tasks : tasks[t] # p)
        THEN "dying" ELSE states[p]]

\* An application that does not overlap lifetimes waits for the future of
\* Cleanup() before it uses the library again.
MayStart ==
    \/ Overlap
    \/ \A p \in Payloads : pstate[p] \notin {"dying", "cleaning"}

\* TokenPayload's constructor, with the lock held: doInit() and a new future.
NewPayload(p) ==
    /\ p = created + 1
    /\ p \in Payloads
    /\ created' = p
    /\ mGlobal' = p
    /\ mWeak' = p
    /\ mInitialized' = TRUE
    /\ IF mInitialized THEN UNCHANGED poolVars ELSE Spawn

WeakAlive == mWeak # 0 /\ pstate[mWeak] = "alive"

\* Init::token called by an application thread that creates an object.
UserToken(u) ==
    /\ mMutex = 0
    /\ held[u] = 0
    /\ \/ /\ WeakAlive
          /\ held' = [held EXCEPT ![u] = mWeak]
          /\ UNCHANGED <<poolVars, mGlobal, mWeak, mInitialized, created, pstate>>
       \/ /\ ~WeakAlive
          /\ MayStart
          /\ \E p \in Payloads :
                /\ NewPayload(p)
                /\ held' = [held EXCEPT ![u] = p]
                /\ pstate' = [pstate EXCEPT ![p] = "alive"]
    /\ UNCHANGED <<mMutex, captured>>

\* Init::preload.
Preload ==
    /\ mMutex = 0
    /\ mGlobal = 0
    /\ MayStart
    /\ Overlap \/ ~WeakAlive
    /\ \E p \in Payloads :
          /\ NewPayload(p)
          /\ pstate' = [pstate EXCEPT ![p] = "alive"]
    /\ UNCHANGED <<mMutex, held, captured>>

Cleanup_Force ==
    /\ mMutex = 0
    /\ mGlobal # 0
    /\ mGlobal' = 0
    /\ pstate' = [pstate EXCEPT ![mGlobal] = "dying"]
    /\ UNCHANGED <<poolVars, mWeak, mInitialized, mMutex, created, held, captured>>

\* Init::cleanup; the future it returns is that of the last payload.
Cleanup ==
    /\ mMutex = 0
    /\ mGlobal # 0
    /\ mGlobal' = 0
    /\ pstate' = Expire(pstate, 0, held, captured)
    /\ UNCHANGED <<poolVars, mWeak, mInitialized, mMutex, created, held, captured>>

\* An application object is destroyed with its mInitToken.
ReleaseToken(u) ==
    /\ held[u] # 0
    /\ held' = [held EXCEPT ![u] = 0]
    /\ pstate' = Expire(pstate, mGlobal, held', captured)
    /\ UNCHANGED <<poolVars, mGlobal, mWeak, mInitialized, mMutex, created, captured>>

\* An object enqueues a task bound to itself, or a timer bound weakly.
UserSchedule(u, t) ==
    /\ held[u] # 0
    /\ t \in Closers \cup Delayed
    /\ Schedule(t)
    /\ captured' = [captured EXCEPT ![t] = IF t \in Closers THEN held[u] ELSE 0]
    /\ UNCHANGED <<mGlobal, mWeak, mInitialized, mMutex, created, pstate, held>>

\* PeerConnection::closeTransports on a worker: takes a token, which blocks while
\* mMutex is held, and hands it to the teardown task it enqueues.  The object's
\* own token keeps the payload of mWeak alive unless lifetimes overlap.
CloseTask(w, c) ==
    /\ wpc[w] = "task"
    /\ c \in wtask[w] \cap Closers
    /\ mMutex = 0
    /\ WeakAlive
    /\ Schedule(Teardown[c])
    /\ captured' = [captured EXCEPT ![Teardown[c]] = mWeak]
    /\ UNCHANGED <<mGlobal, mWeak, mInitialized, mMutex, created, pstate, held>>

\* A closing task does not end before it has enqueued its teardown; the end of
\* a task releases the token it captured.
FinishTask(w) ==
    /\ \A c \in wtask[w] \cap Closers : Teardown[c] \in scheduled
    /\ EndTask(w)
    /\ captured' = [t \in Tasks |-> IF t \in wtask[w] THEN 0 ELSE captured[t]]
    /\ pstate' = Expire(pstate, mGlobal, held, captured')
    /\ UNCHANGED <<mGlobal, mWeak, mInitialized, mMutex, created, held>>

\* Init::doCleanup on the cleanup thread of payload p: takes the lock and either
\* returns at once (the future becomes ready) or joins the pool.
CleanupBegin(p) ==
    /\ pstate[p] = "dying"
    /\ mMutex = 0
    /\ IF mGlobal = 0 /\ mInitialized
       THEN /\ mInitialized' = FALSE
            /\ mMutex' = p
            /\ pstate' = [pstate EXCEPT ![p] = "cleaning"]
            /\ JoinBegin
       ELSE /\ pstate' = [pstate EXCEPT ![p] = "done"]
            /\ UNCHANGED <<poolVars, mInitialized, mMutex>>
    /\ UNCHANGED <<mGlobal, mWeak, created, held, captured>>

CleanupEnd_LeaveTasks(p) ==
    /\ pstate[p] = "cleaning"
    /\ jpc = "clear"
    /\ jpc' = "idle"
    /\ pstate' = [pstate EXCEPT ![p] = "done"]
    /\ mMutex' = 0
    /\ UNCHANGED <<due, later, scheduled, wpc, wtask, wuntil, mBusyWorkers, mJoining>>
    /\ UNCHANGED <<mGlobal, mWeak, mInitialized, created, held, captured>>

\* The pool is joined: its remaining tasks are dropped with the tokens they
\* captured, the transports are cleaned up, the lock is released and the
\* future becomes ready.
CleanupEnd(p) ==
    /\ pstate[p] = "cleaning"
    /\ Clear
    /\ captured' = [t \in Tasks |-> IF t \in Queued THEN 0 ELSE captured[t]]
    /\ pstate' = [Expire(pstate, mGlobal, held, captured') EXCEPT ![p] = "done"]
    /\ mMutex' = 0
    /\ UNCHANGED <<mGlobal, mWeak, mInitialized, created, held>>

\* The steps of the pool itself.
PoolWorker(w) == StartRun(w) \/ Dequeue(w) \/ Wake(w) \/ EndRun(w)

PoolStep ==
    /\ \/ \E w \in Workers : PoolWorker(w)
       \/ \E t \in Delayed : FallDue(t)
       \/ JoinMark
       \/ JoinEnd
    /\ UNCHANGED initVars

Next ==
    \/ PoolStep
    \/ \E u \in Users : UserToken(u) \/ ReleaseToken(u)
    \/ \E u \in Users, t \in Tasks : UserSchedule(u, t)
    \/ Preload
    \/ Cleanup
    \/ \E w \in Workers, c \in Closers : CloseTask(w, c)
    \/ \E w \in Workers : FinishTask(w)
    \/ \E p \in Payloads : CleanupBegin(p) \/ CleanupEnd(p)

\* Threads run, time passes and task bodies end; the application owes nothing.
Fairness ==
    /\ \A w \in Workers :
          /\ WF_vars(PoolWorker(w) /\ UNCHANGED initVars)
          /\ WF_vars(FinishTask(w))
          /\ \A c \in Closers : WF_vars(CloseTask(w, c))
    /\ \A t \in Delayed : WF_vars(FallDue(t) /\ UNCHANGED initVars)
    /\ WF_vars((JoinMark \/ JoinEnd) /\ UNCHANGED initVars)
    /\ \A p \in Payloads : WF_vars(CleanupBegin(p)) /\ WF_vars(CleanupEnd(p))

Spec == Init /\ [][Next]_vars /\ Fairness

-----------------------------------------------------------------------------
TokenHeld ==
    \/ \E u \in Users : held[u] # 0
    \/ \E t \in Tasks : captured[t] # 0

\* A token keeps the library up: while an object or a task holds one, the pool
\* is neither being joined nor gone (init.cpp:150-161).
TokenKeepsLibrary == TokenHeld => mInitialized /\ jpc = "idle"

\* The future of Cleanup() is ready only when the library is down: no worker
\* thread, no task, and another payload must be created to start it again.
FutureMeansDown ==
    created # 0 /\ pstate[created] = "done" =>
        /\ ~mInitialized
        /\ Queued = {}
        /\ \A w \in Workers : wpc[w] = "none"

\* As long as no timer was ever set, the pool conserves work: while a worker
\* waits, every task has a worker of its own on its way to the queue.  (A timer
\* that falls due wakes only workers that waited for it, so it may stay behind
\* a running task while another worker waits.)
WorkConserving ==
    scheduled \cap Delayed = {} /\ WorkersAt("waiting") # {} =>
        Len(due) <= Cardinality({w \in Workers : wpc[w] \in {"spawned", "loop", "notified"}})

\* A teardown that was enqueued is eventually executed.
TeardownRuns ==
    \A c \in Closers : (Teardown[c] \in scheduled) ~>
        (Teardown[c] \notin Queued /\ \A w \in Workers : Teardown[c] \notin wtask[w])

\* Once the last token is gone and Cleanup() was called, the library goes down,
\* or it is started again.
CleanupCompletes ==
    \A p \in Payloads : (created = p /\ pstate[p] = "dying") ~> (pstate[p] = "done")

\* The state of the library is sound: besides the types, the future of Cleanup()
\* tells the truth, and no worker idles beside a task.
LibraryInv == TypeOK /\ FutureMeansDown /\ WorkConserving

\* What was handed to the pool to end, teardowns and the cleanup itself, ends.
LibraryProgress == TeardownRuns /\ CleanupCompletes
=============================================================================
