----------------------------- MODULE Processor ------------------------------
(***************************************************************************)
(* impl::Processor (src/src/impl/processor.hpp, processor.cpp): a serial   *)
(* queue of tasks chained through the shared thread pool, together with    *)
(* the life of the object that owns it (PeerConnection, SctpTransport).    *)
(*                                                                         *)
(* Every task is enqueued with shared_from_this(): while the task is       *)
(* queued, pooled or running, its closure keeps the owner alive, and it is *)
(* the worker that destroys the closure after the chaining scope_guard has *)
(* run.  The owner's destructor joins the processor, in whatever thread    *)
(* dropped the last reference, a pool worker included.                     *)
(*                                                                         *)
(* Tasks are tickets 1, 2, ... in the order enqueue() accepted them.       *)
(***************************************************************************)
EXTENDS Integers, Sequences

CONSTANTS
    Workers,                \* threads of the pool
    MaxTasks                \* bound on the tasks ever enqueued

ASSUME MaxTasksAssumption == MaxTasks \in Nat

VARIABLES
    mPending,               \* "true iff a task is pending in the thread pool"
    mTasks,                 \* queue of tasks waiting behind the pending one
    pool,                   \* tasks of this processor held by the thread pool
    phase,                  \* what each worker is doing for this processor
    job,                    \* the task each worker holds (0 when it holds none)
    submitted,              \* number of tasks enqueue() has accepted
    started,                \* number of tasks whose body has begun
    handle,                 \* the application still holds the owner
    owner                   \* the owner: "alive", "joining" in ~Owner, or "dead"

vars == <<mPending, mTasks, pool, phase, job, submitted, started, handle, owner>>

\* A worker is idle, runs the task body ("task"), has left it and is about to
\* run the guard ("guard"), or still holds the finished closure ("release").
Phases == {"idle", "task", "guard", "release"}

Tickets == 1..MaxTasks

TypeOK ==
    /\ mPending \in BOOLEAN
    /\ mTasks \in Seq(Tickets)
    /\ pool \in SUBSET Tickets
    /\ phase \in [Workers -> Phases]
    /\ job \in [Workers -> 0..MaxTasks]
    /\ submitted \in 0..MaxTasks
    /\ started \in 0..MaxTasks
    /\ handle \in BOOLEAN
    /\ owner \in {"alive", "joining", "dead"}

Init ==
    /\ mPending = FALSE
    /\ mTasks = <<>>
    /\ pool = {}
    /\ phase = [w \in Workers |-> "idle"]
    /\ job = [w \in Workers |-> 0]
    /\ submitted = 0
    /\ started = 0
    /\ handle = TRUE
    /\ owner = "alive"

-----------------------------------------------------------------------------
\* Whether some reference keeps the owner alive: the application's, or the
\* one captured by a task that is queued, pooled or held by a worker.
Referenced ==
    \/ handle
    \/ mTasks # <<>>
    \/ pool # {}
    \/ \E w \in Workers : phase[w] # "idle"

\* Only someone who can reach the owner enqueues: the application, or the body
\* of a running task.
MayEnqueue == handle \/ \E w \in Workers : phase[w] = "task"

\* Processor::enqueue, in one critical section of mMutex.
Enqueue ==
    /\ MayEnqueue
    /\ submitted < MaxTasks
    /\ submitted' = submitted + 1
    /\ \/ /\ ~mPending
          /\ pool' = pool \cup {submitted + 1}
          /\ mPending' = TRUE
          /\ UNCHANGED mTasks
       \/ /\ mPending
          /\ mTasks' = Append(mTasks, submitted + 1)
          /\ UNCHANGED <<pool, mPending>>
    /\ UNCHANGED <<phase, job, started, handle, owner>>

\* A worker dequeues a task and begins its body.  The pool's priority queue
\* does not order tasks of equal time, so any pooled task may be taken.
StartTask(w) ==
    /\ phase[w] = "idle"
    /\ \E t \in pool :
          /\ pool' = pool \ {t}
          /\ job' = [job EXCEPT ![w] = t]
    /\ phase' = [phase EXCEPT ![w] = "task"]
    /\ started' = started + 1
    /\ UNCHANGED <<mPending, mTasks, submitted, handle, owner>>

\* The body returns or throws: the scope_guard runs in both cases.
FinishTask(w) ==
    /\ phase[w] = "task"
    /\ phase' = [phase EXCEPT ![w] = "guard"]
    /\ UNCHANGED <<mPending, mTasks, pool, job, submitted, started, handle, owner>>

Schedule_Last(w) ==
    /\ phase[w] = "guard"
    /\ phase' = [phase EXCEPT ![w] = "release"]
    /\ \/ /\ mTasks # <<>>
          /\ pool' = pool \cup {mTasks[Len(mTasks)]}
          /\ mTasks' = SubSeq(mTasks, 1, Len(mTasks) - 1)
          /\ UNCHANGED mPending
       \/ /\ mTasks = <<>>
          /\ mPending' = FALSE
          /\ UNCHANGED <<mTasks, pool>>
    /\ UNCHANGED <<job, submitted, started, handle, owner>>

Schedule_Stop(w) ==
    /\ phase[w] = "guard"
    /\ phase' = [phase EXCEPT ![w] = "release"]
    /\ mPending' = FALSE
    /\ UNCHANGED <<mTasks, pool, job, submitted, started, handle, owner>>

\* Processor::schedule, run by the guard when the body is left.
Schedule(w) ==
    /\ phase[w] = "guard"
    /\ phase' = [phase EXCEPT ![w] = "release"]
    /\ \/ /\ mTasks # <<>>
          /\ pool' = pool \cup {Head(mTasks)}
          /\ mTasks' = Tail(mTasks)
          /\ UNCHANGED mPending
       \/ /\ mTasks = <<>>
          /\ mPending' = FALSE
          /\ UNCHANGED <<mTasks, pool>>
    /\ UNCHANGED <<job, submitted, started, handle, owner>>

\* ThreadPool::runOne destroys the finished task and the reference it captured.
Release(w) ==
    /\ phase[w] = "release"
    /\ phase' = [phase EXCEPT ![w] = "idle"]
    /\ job' = [job EXCEPT ![w] = 0]
    /\ UNCHANGED <<mPending, mTasks, pool, submitted, started, handle, owner>>

\* The application drops its reference to the owner.
DropHandle ==
    /\ handle
    /\ handle' = FALSE
    /\ UNCHANGED <<mPending, mTasks, pool, phase, job, submitted, started, owner>>

\* The last reference is gone: the destructor of the owner starts, in the
\* thread that dropped it, and calls mProcessor.join().
Destroy ==
    /\ owner = "alive"
    /\ ~Referenced
    /\ owner' = "joining"
    /\ UNCHANGED <<mPending, mTasks, pool, phase, job, submitted, started, handle>>

\* Processor::join returns.
Join ==
    /\ owner = "joining"
    /\ ~mPending
    /\ mTasks = <<>>
    /\ owner' = "dead"
    /\ UNCHANGED <<mPending, mTasks, pool, phase, job, submitted, started, handle>>

\* The owner is gone; nothing is left to do.
Terminated == owner = "dead" /\ UNCHANGED vars

WorkerStep(w) == StartTask(w) \/ FinishTask(w) \/ Schedule(w) \/ Release(w)

Next ==
    \/ Enqueue
    \/ \E w \in Workers : WorkerStep(w)
    \/ DropHandle
    \/ Destroy
    \/ Join
    \/ Terminated

SafetySpec == Init /\ [][Next]_vars

\* The pool runs what it holds, task bodies end, and workers go on.
Spec ==
    /\ SafetySpec
    /\ \A w \in Workers :
          WF_vars(FinishTask(w)) /\ WF_vars(Schedule(w)) /\ WF_vars(Release(w))
    /\ WF_vars(\E w \in Workers : StartTask(w))
    /\ WF_vars(Destroy) /\ WF_vars(Join)

-----------------------------------------------------------------------------
Busy(w) == phase[w] \in {"task", "guard"}

\* mPending is "true iff a task is pending in the thread pool"
\* (processor.hpp:43): exactly then one task is pooled, or a worker is between
\* taking it and chaining the next one; nothing queues behind a task that is
\* not pending.
PendingIff ==
    /\ mPending <=> (pool # {} \/ \E w \in Workers : Busy(w))
    /\ mTasks # <<>> => mPending

\* At most one task of the processor is in the pool or running: its tasks never
\* run concurrently, which is what its users rely on instead of locks.
OneAtATime ==
    /\ \A s, t \in pool : s = t
    /\ \A v, w \in Workers : Busy(v) /\ Busy(w) => v = w
    /\ pool # {} => \A w \in Workers : ~Busy(w)

\* "if we are here, the processor must be empty" (sctptransport.cpp:317): once
\* the last reference is gone, join() has nothing to wait for.  A destructor
\* that ran on the pool and had to wait would wait for its own thread.
EmptyWhenDestroyed == owner # "alive" => ~mPending /\ mTasks = <<>> /\ pool = {}

\* No task is lost: what was accepted has started, is pooled or is queued,
\* and the queue holds the latest tickets in order.
NothingLost ==
    /\ pool \subseteq {started + 1}
    /\ submitted = started + Len(mTasks) + (IF pool = {} THEN 0 ELSE 1)
    /\ \A i \in 1..Len(mTasks) : mTasks[i] = submitted - Len(mTasks) + i

\* Tasks begin in the order in which they were enqueued: the task a worker
\* takes is the next ticket, whatever worker takes it.
InOrder == [][\A w \in Workers : job'[w] # job[w] /\ job'[w] # 0
                                    => job'[w] = started + 1]_vars

\* The task whose body is running, 0 when none is.
CurrentTask ==
    IF \E w \in Workers : phase[w] = "task"
    THEN job[CHOOSE w \in Workers : phase[w] = "task"]
    ELSE 0

\* The processor implements the serial executor: "Processed tasks in order by
\* delegating them to the thread pool" (processor.hpp:24).
Serial == INSTANCE SerialExecutor WITH
    accepted <- submitted,
    begun <- started,
    running <- CurrentTask

SerialExecution == Serial!ExecSpec
=============================================================================
