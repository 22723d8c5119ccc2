----------------------------- MODULE ThreadPool -----------------------------
(***************************************************************************)
(* impl::ThreadPool (src/src/impl/threadpool.hpp, threadpool.cpp): workers *)
(* that take the earliest due task of a shared priority queue, a counter   *)
(* of busy workers, and the join()/clear() pair by which the library is    *)
(* torn down.  Every step below is one critical section of mMutex, or the  *)
(* code between two of them.                                               *)
(*                                                                         *)
(* A task is scheduled at most once in the model.  Time is abstracted: the *)
(* priority queue is the sequence of the tasks whose time has come, in the *)
(* order of their times, and the set of those whose time has not.          *)
(***************************************************************************)
EXTENDS Integers, FiniteSets, SequencesExt

CONSTANTS
    Workers,                \* worker threads spawned by Init::doInit
    Tasks,                  \* every task that may be scheduled
    Delayed,                \* the tasks scheduled with a delay
    DueOrder                \* rank of each delayed task in time

ASSUME TaskAssumption ==
    /\ IsFiniteSet(Workers)
    /\ Delayed \subseteq Tasks
    /\ DueOrder \in [Delayed -> Nat]

VARIABLES
    due,                    \* the tasks of mTasks whose time has come, in order
    later,                  \* the tasks of mTasks whose time has not come
    scheduled,              \* tasks ever scheduled
    wpc,                    \* where each worker thread is
    wtask,                  \* the set holding the task each worker executes
    wuntil,                 \* the delayed task a waiting worker waits for, if any
    mBusyWorkers,
    mJoining,
    jpc                     \* where the thread calling join() is

poolVars == <<due, later, scheduled, wpc, wtask, wuntil, mBusyWorkers, mJoining, jpc>>

\* "none": no thread; "spawned": thread created, run() not begun; "loop": about
\* to call dequeue(); "waiting": in mTasksCondition.wait; "notified": leaving
\* that wait; "task": executing; "leaving": dequeue() returned null; "exited".
WorkerPhases ==
    {"none", "spawned", "loop", "waiting", "notified", "task", "leaving", "exited"}

JoinPhases == {"idle", "waitBusy", "joining", "clear"}

PoolTypeOK ==
    /\ due \in Seq(Tasks)
    /\ later \in SUBSET Delayed
    /\ scheduled \in SUBSET Tasks
    /\ wpc \in [Workers -> WorkerPhases]
    /\ wtask \in [Workers -> SUBSET Tasks]
    /\ wuntil \in [Workers -> SUBSET Delayed]
    /\ mBusyWorkers \in 0..Cardinality(Workers)
    /\ mJoining \in BOOLEAN
    /\ jpc \in JoinPhases

PoolInit ==
    /\ due = <<>>
    /\ later = {}
    /\ scheduled = {}
    /\ wpc = [w \in Workers |-> "none"]
    /\ wtask = [w \in Workers |-> {}]
    /\ wuntil = [w \in Workers |-> {}]
    /\ mBusyWorkers = 0
    /\ mJoining = FALSE
    /\ jpc = "idle"

-----------------------------------------------------------------------------
\* The tasks of the queue, due or not.
Queued == ToSet(due) \cup later

WorkersAt(p) == {w \in Workers : wpc[w] = p}

\* ThreadPool::spawn, called with the number of workers by Init::doInit.
Spawn ==
    /\ \A w \in Workers : wpc[w] = "none"
    /\ wpc' = [w \in Workers |-> "spawned"]
    /\ UNCHANGED <<due, later, scheduled, wtask, wuntil, mBusyWorkers, mJoining, jpc>>

\* mTasksCondition.notify_one(): some waiting worker, if any, leaves its wait.
NotifyOne ==
    \/ /\ WorkersAt("waiting") = {}
       /\ UNCHANGED wpc
    \/ \E w \in WorkersAt("waiting") : wpc' = [wpc EXCEPT ![w] = "notified"]

NotifyAll == wpc' = [w \in Workers |-> IF wpc[w] = "waiting" THEN "notified" ELSE wpc[w]]

\* mTasks.push: a delayed task waits for its time; the time of another one was
\* read before mMutex was taken, so it may precede that of a task already due.
Push(t) ==
    \/ /\ t \in Delayed
       /\ later' = later \cup {t}
       /\ UNCHANGED due
    \/ /\ t \notin Delayed
       /\ \E i \in 1..Len(due) + 1 : due' = InsertAt(due, i, t)
       /\ UNCHANGED later

Schedule_NoNotify(t) ==
    /\ t \notin scheduled
    /\ scheduled' = scheduled \cup {t}
    /\ Push(t)
    /\ UNCHANGED <<wpc, wtask, wuntil, mBusyWorkers, mJoining, jpc>>

\* ThreadPool::schedule; enqueue() schedules for the present time.
Schedule(t) ==
    /\ t \notin scheduled
    /\ scheduled' = scheduled \cup {t}
    /\ Push(t)
    /\ NotifyOne
    /\ UNCHANGED <<wtask, wuntil, mBusyWorkers, mJoining, jpc>>

\* The delayed tasks of a set whose time comes first.
Earliest(ts) == {t \in ts : \A s \in ts : DueOrder[t] <= DueOrder[s]}

\* Time passes: a delayed task falls due, and the workers whose wait_until was
\* given its time leave their wait.
FallDue(t) ==
    /\ t \in Earliest(later)
    /\ later' = later \ {t}
    /\ due' = Append(due, t)
    /\ wpc' = [w \in Workers |-> IF wpc[w] = "waiting" /\ t \in wuntil[w]
                                 THEN "notified" ELSE wpc[w]]
    /\ UNCHANGED <<scheduled, wtask, wuntil, mBusyWorkers, mJoining, jpc>>

\* A worker thread begins run().
StartRun(w) ==
    /\ wpc[w] = "spawned"
    /\ wpc' = [wpc EXCEPT ![w] = "loop"]
    /\ mBusyWorkers' = mBusyWorkers + 1
    /\ UNCHANGED <<due, later, scheduled, wtask, wuntil, mJoining, jpc>>

\* One pass of the loop of dequeue(), under mMutex, entered from runOne() or
\* from the wait; busyNow is the value of mBusyWorkers at that point.
DequeuePass(w, busyNow) ==
    \/ /\ mJoining
       /\ wpc' = [wpc EXCEPT ![w] = "leaving"]
       /\ mBusyWorkers' = busyNow
       /\ UNCHANGED <<due, later, wtask, wuntil>>
    \/ /\ ~mJoining
       /\ due # <<>>
       /\ due' = Tail(due)
       /\ wtask' = [wtask EXCEPT ![w] = {Head(due)}]
       /\ wpc' = [wpc EXCEPT ![w] = "task"]
       /\ wuntil' = [wuntil EXCEPT ![w] = {}]
       /\ mBusyWorkers' = busyNow
       /\ UNCHANGED later
    \/ /\ ~mJoining
       /\ due = <<>>
       /\ wpc' = [wpc EXCEPT ![w] = "waiting"]
       /\ wuntil' = [wuntil EXCEPT ![w] = Earliest(later)]
       /\ mBusyWorkers' = busyNow - 1
       /\ UNCHANGED <<due, later, wtask>>

Dequeue(w) ==
    /\ wpc[w] = "loop"
    /\ DequeuePass(w, mBusyWorkers)
    /\ UNCHANGED <<scheduled, mJoining, jpc>>

Wake_ForgetBusy(w) ==
    /\ wpc[w] = "notified"
    /\ DequeuePass(w, mBusyWorkers)
    /\ UNCHANGED <<scheduled, mJoining, jpc>>

\* A worker reacquires mMutex after its wait; the guard counts it busy again.
Wake(w) ==
    /\ wpc[w] = "notified"
    /\ DequeuePass(w, mBusyWorkers + 1)
    /\ UNCHANGED <<scheduled, mJoining, jpc>>

EndTask_Leave(w) ==
    /\ wpc[w] = "task"
    /\ wpc' = [wpc EXCEPT ![w] = "leaving"]
    /\ wtask' = [wtask EXCEPT ![w] = {}]
    /\ UNCHANGED <<due, later, scheduled, wuntil, mBusyWorkers, mJoining, jpc>>

\* The task returns, or throws into its promise.
EndTask(w) ==
    /\ wpc[w] = "task"
    /\ wpc' = [wpc EXCEPT ![w] = "loop"]
    /\ wtask' = [wtask EXCEPT ![w] = {}]
    /\ UNCHANGED <<due, later, scheduled, wuntil, mBusyWorkers, mJoining, jpc>>

\* run() returns; its guard leaves the count of busy workers.
EndRun(w) ==
    /\ wpc[w] = "leaving"
    /\ wpc' = [wpc EXCEPT ![w] = "exited"]
    /\ mBusyWorkers' = mBusyWorkers - 1
    /\ UNCHANGED <<due, later, scheduled, wtask, wuntil, mJoining, jpc>>

\* ThreadPool::join is called.
JoinBegin ==
    /\ jpc = "idle"
    /\ jpc' = "waitBusy"
    /\ UNCHANGED <<due, later, scheduled, wpc, wtask, wuntil, mBusyWorkers, mJoining>>

JoinMark_NoNotify ==
    /\ jpc = "waitBusy"
    /\ mBusyWorkers = 0
    /\ mJoining' = TRUE
    /\ jpc' = "joining"
    /\ UNCHANGED <<due, later, scheduled, wpc, wtask, wuntil, mBusyWorkers>>

\* No worker is busy any more: the others are told to leave.
JoinMark ==
    /\ jpc = "waitBusy"
    /\ mBusyWorkers = 0
    /\ mJoining' = TRUE
    /\ NotifyAll
    /\ jpc' = "joining"
    /\ UNCHANGED <<due, later, scheduled, wtask, wuntil, mBusyWorkers>>

\* Every thread has exited: join() forgets them and lowers its flag.
JoinEnd ==
    /\ jpc = "joining"
    /\ \A w \in Workers : wpc[w] = "exited"
    /\ wpc' = [w \in Workers |-> "none"]
    /\ mJoining' = FALSE
    /\ jpc' = "clear"
    /\ UNCHANGED <<due, later, scheduled, wtask, wuntil, mBusyWorkers>>

\* ThreadPool::clear, called right after join().
Clear ==
    /\ jpc = "clear"
    /\ due' = <<>>
    /\ later' = {}
    /\ jpc' = "idle"
    /\ UNCHANGED <<scheduled, wpc, wtask, wuntil, mBusyWorkers, mJoining>>
=============================================================================
