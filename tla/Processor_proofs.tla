-------------------------- MODULE Processor_proofs --------------------------
(***************************************************************************)
(* Proofs about Processor, for any set of workers and any number of tasks: *)
(* its tasks run one at a time and in order, none is lost, the processor   *)
(* is empty when its owner is destroyed, and the processor implements the  *)
(* safety part of SerialExecutor.                                          *)
(***************************************************************************)
EXTENDS Processor, SequenceTheorems, TLAPS

\* A task that runs is the last one that began.
RunningIsLast ==
    \A w \in Workers : phase[w] = "task" => job[w] = started /\ started > 0

\* The destructor of the owner begins only when no reference is left.
UnreferencedWhenDestroyed == owner # "alive" => ~Referenced

\* The inductive invariant.
Inv ==
    /\ TypeOK
    /\ PendingIff
    /\ OneAtATime
    /\ NothingLost
    /\ RunningIsLast
    /\ UnreferencedWhenDestroyed

\* The worker whose body is running is the one that CurrentTask chooses.
LEMMA OnlyTask ==
    ASSUME NEW ph, NEW w \in Workers, ph[w] = "task",
           \A v \in Workers : ph[v] = "task" => v = w
    PROVE  (CHOOSE v \in Workers : ph[v] = "task") = w
  OBVIOUS

\* What SequenceTheorems says of the queue.
LEMMA TicketQueue ==
    ASSUME NEW q \in Seq(Tickets)
    PROVE  /\ Len(q) \in Nat
           /\ q = <<>> <=> Len(q) = 0
           /\ q # <<>> => /\ Head(q) = q[1]
                         /\ Head(q) \in Tickets
                         /\ Tail(q) \in Seq(Tickets)
                         /\ Len(Tail(q)) = Len(q) - 1
                         /\ \A i \in 1..Len(Tail(q)) : Tail(q)[i] = q[i + 1]
  BY EmptySeq, LenProperties, HeadTailProperties

-----------------------------------------------------------------------------
\* The initial state satisfies the invariant.
LEMMA InvInit == Init => Inv
  <1> SUFFICES ASSUME Init PROVE Inv
    OBVIOUS
  <1> USE MaxTasksAssumption DEF Init
  <1>1. TypeOK
    <2>1. mTasks \in Seq(Tickets)
      BY EmptySeq
    <2>2. /\ phase \in [Workers -> Phases]
          /\ job \in [Workers -> 0..MaxTasks]
      BY DEF Phases
    <2>3. /\ pool \in SUBSET Tickets
          /\ submitted \in 0..MaxTasks
          /\ started \in 0..MaxTasks
      OBVIOUS
    <2> QED
      BY <2>1, <2>2, <2>3 DEF TypeOK
  <1>2. PendingIff /\ OneAtATime
    BY DEF PendingIff, OneAtATime, Busy
  <1>3. NothingLost
    BY DEF NothingLost
  <1>4. RunningIsLast /\ UnreferencedWhenDestroyed
    BY DEF RunningIsLast, UnreferencedWhenDestroyed
  <1> QED
    BY <1>1, <1>2, <1>3, <1>4 DEF Inv

\* enqueue() preserves it: the task goes to the idle pool or to the end of mTasks.
LEMMA EnqueueInv == Inv /\ Enqueue => Inv'
  <1> SUFFICES ASSUME Inv, Enqueue PROVE Inv'
    OBVIOUS
  <1> USE MaxTasksAssumption DEF Enqueue
  <1> DEFINE t == submitted + 1
  <1>1. /\ mTasks \in Seq(Tickets) /\ submitted \in 0..MaxTasks /\ started \in 0..MaxTasks
        /\ t \in Tickets
    BY DEF Inv, TypeOK, Tickets
  <1>2. CASE ~mPending
    <2>1. pool = {} /\ mTasks = <<>> /\ submitted = started
      BY <1>1, <1>2, TicketQueue DEF Inv, PendingIff, NothingLost
    <2>2. pool' = {t} /\ mPending' /\ mTasks' = <<>>
      BY <1>2, <2>1
    <2>3. TypeOK'
      BY <1>1, <1>2, <2>2 DEF Inv, TypeOK
    <2>4. PendingIff' /\ OneAtATime'
      BY <1>2, <2>2 DEF Inv, PendingIff, OneAtATime, Busy
    <2>5. NothingLost'
      BY <1>1, <2>1, <2>2 DEF NothingLost
    <2> QED
      BY <2>3, <2>4, <2>5
         DEF Inv, RunningIsLast, UnreferencedWhenDestroyed, Referenced, MayEnqueue
  <1>3. CASE mPending
    <2>1. /\ mTasks' = Append(mTasks, t)
          /\ UNCHANGED <<pool, mPending, started>>
          /\ submitted' = submitted + 1
      BY <1>3
    <2>2. TypeOK'
      BY <1>1, <2>1, AppendProperties DEF Inv, TypeOK
    <2>3. PendingIff' /\ OneAtATime'
      BY <1>3, <2>1 DEF Inv, PendingIff, OneAtATime, Busy
    <2>4. NothingLost'
      <3>1. /\ Len(mTasks') = Len(mTasks) + 1
            /\ Len(mTasks) \in Nat
            /\ mTasks'[Len(mTasks) + 1] = t
            /\ \A k \in 1..Len(mTasks) : mTasks'[k] = mTasks[k]
        BY <1>1, <2>1, TicketQueue, AppendProperties
      <3>2. /\ pool \subseteq {started + 1}
            /\ submitted = started + Len(mTasks) + (IF pool = {} THEN 0 ELSE 1)
            /\ \A k \in 1..Len(mTasks) : mTasks[k] = submitted - Len(mTasks) + k
        BY DEF Inv, NothingLost
      <3>3. submitted' = started' + Len(mTasks') + (IF pool' = {} THEN 0 ELSE 1)
        <4>1. CASE pool = {}
          BY <1>1, <2>1, <3>1, <3>2, <4>1
        <4>2. CASE pool # {}
          <5>1. submitted = started + Len(mTasks) + 1
            BY <3>2, <4>2
          <5>2. pool' # {}
            BY <2>1, <4>2
          <5> QED
            BY <1>1, <2>1, <3>1, <5>1, <5>2
        <4> QED
          BY <4>1, <4>2
      <3>4. ASSUME NEW i \in 1..Len(mTasks')
            PROVE  mTasks'[i] = submitted' - Len(mTasks') + i
        <4>1. CASE i = Len(mTasks) + 1
          BY <1>1, <3>1, <4>1
        <4>2. CASE i # Len(mTasks) + 1
          <5>1. i \in 1..Len(mTasks)
            BY <3>1, <4>2
          <5>2. mTasks'[i] = submitted - Len(mTasks) + i
            BY <3>1, <3>2, <5>1
          <5> QED
            BY <1>1, <3>1, <5>1, <5>2
        <4> QED
          BY <4>1, <4>2
      <3> QED
        BY <2>1, <3>2, <3>3, <3>4 DEF NothingLost
    <2> QED
      BY <2>2, <2>3, <2>4
         DEF Inv, RunningIsLast, UnreferencedWhenDestroyed, Referenced, MayEnqueue
  <1> QED
    BY <1>2, <1>3 DEF Inv, TypeOK

\* A worker that takes the pooled task, the only one, preserves it.
LEMMA StartTaskInv == ASSUME NEW w \in Workers, Inv, StartTask(w) PROVE Inv'
  <1> USE MaxTasksAssumption
  <1>1. PICK t \in pool : /\ pool' = pool \ {t}
                         /\ job' = [job EXCEPT ![w] = t]
    BY DEF StartTask
  <1>2. /\ phase[w] = "idle"
        /\ phase' = [phase EXCEPT ![w] = "task"]
        /\ started' = started + 1
        /\ UNCHANGED <<mPending, mTasks, submitted, handle, owner>>
    BY DEF StartTask
  <1>3. t = started + 1 /\ pool = {t} /\ pool' = {}
    BY <1>1 DEF Inv, OneAtATime, NothingLost
  <1>4. \A v \in Workers : ~Busy(v)
    BY <1>3 DEF Inv, OneAtATime
  <1>5. \A v \in Workers : Busy(v)' <=> v = w
    BY <1>2, <1>4 DEF Inv, TypeOK, Busy
  <1>6. TypeOK'
    <2>1. started \in Nat /\ submitted \in 0..MaxTasks /\ Len(mTasks) \in Nat
      BY TicketQueue DEF Inv, TypeOK
    <2>2. submitted = started + Len(mTasks) + 1
      BY <1>3 DEF Inv, NothingLost
    <2>3. started' \in 0..MaxTasks /\ t \in 0..MaxTasks
      BY <1>2, <1>3, <2>1, <2>2
    <2> QED
      BY <1>1, <1>2, <1>3, <2>3 DEF Inv, TypeOK, Phases
  <1>7. PendingIff'
    BY <1>2, <1>3, <1>5 DEF Inv, PendingIff
  <1>8. OneAtATime'
    BY <1>3, <1>5 DEF OneAtATime
  <1>9. NothingLost'
    <2>1. started \in Nat /\ submitted \in Nat /\ Len(mTasks) \in Nat
      BY TicketQueue DEF Inv, TypeOK
    <2>2. submitted = started + Len(mTasks) + 1
      BY <1>3 DEF Inv, NothingLost
    <2>3. submitted' = started' + Len(mTasks')
      BY <1>2, <2>1, <2>2
    <2>4. \A i \in 1..Len(mTasks') : mTasks'[i] = submitted' - Len(mTasks') + i
      BY <1>2 DEF Inv, NothingLost
    <2> QED
      BY <1>2, <1>3, <2>1, <2>3, <2>4 DEF NothingLost
  <1>10. RunningIsLast'
    <2>1. SUFFICES ASSUME NEW v \in Workers, phase'[v] = "task"
                   PROVE  job'[v] = started' /\ started' > 0
      BY DEF RunningIsLast
    <2>2. v = w
      BY <1>5, <2>1 DEF Busy
    <2> QED
      BY <1>1, <1>2, <1>3, <2>2 DEF Inv, TypeOK
  <1>11. UnreferencedWhenDestroyed'
    BY <1>2, <1>3 DEF Inv, UnreferencedWhenDestroyed, Referenced
  <1> QED
    BY <1>6, <1>7, <1>8, <1>9, <1>10, <1>11 DEF Inv

\* The end of the body of a task, before its guard runs, preserves it.
LEMMA FinishTaskInv == ASSUME NEW w \in Workers, Inv, FinishTask(w) PROVE Inv'
  <1>1. /\ phase[w] = "task"
        /\ phase' = [phase EXCEPT ![w] = "guard"]
        /\ UNCHANGED <<mPending, mTasks, pool, job, submitted, started, handle, owner>>
    BY DEF FinishTask
  <1>2. \A v \in Workers : Busy(v)' <=> Busy(v)
    BY <1>1 DEF Inv, TypeOK, Busy
  <1>3. TypeOK'
    BY <1>1 DEF Inv, TypeOK, Phases
  <1>4. PendingIff' /\ OneAtATime'
    BY <1>1, <1>2 DEF Inv, PendingIff, OneAtATime
  <1>5. NothingLost'
    BY <1>1 DEF Inv, NothingLost
  <1>6. RunningIsLast'
    BY <1>1 DEF Inv, TypeOK, RunningIsLast
  <1>7. UnreferencedWhenDestroyed'
    BY <1>1 DEF Inv, UnreferencedWhenDestroyed, Referenced
  <1> QED
    BY <1>3, <1>4, <1>5, <1>6, <1>7 DEF Inv

\* schedule(), run by the guard, preserves it: it pools the head or ends the chain.
LEMMA ScheduleInv == ASSUME NEW w \in Workers, Inv, Schedule(w) PROVE Inv'
  <1>1. /\ phase[w] = "guard"
        /\ phase' = [phase EXCEPT ![w] = "release"]
        /\ UNCHANGED <<job, submitted, started, handle, owner>>
    BY DEF Schedule
  <1>2. \A v \in Workers : Busy(v) <=> v = w
    BY <1>1 DEF Inv, OneAtATime, Busy
  <1>3. \A v \in Workers : ~Busy(v)'
    BY <1>1, <1>2 DEF Inv, TypeOK, Busy
  <1>4. pool = {} /\ mPending
    BY <1>2 DEF Inv, OneAtATime, PendingIff
  <1>5. /\ mTasks \in Seq(Tickets)
        /\ started \in Nat /\ submitted \in Nat
        /\ submitted = started + Len(mTasks)
        /\ \A i \in 1..Len(mTasks) : mTasks[i] = submitted - Len(mTasks) + i
    BY <1>4, TicketQueue DEF Inv, TypeOK, NothingLost
  <1>6. RunningIsLast'
    BY <1>1 DEF Inv, TypeOK, RunningIsLast
  <1>7. UnreferencedWhenDestroyed'
    BY <1>1, <1>4 DEF Inv, UnreferencedWhenDestroyed, Referenced
  <1>8. CASE mTasks # <<>>
    <2>1. pool' = {Head(mTasks)} /\ mTasks' = Tail(mTasks) /\ mPending' = mPending
      BY <1>4, <1>8 DEF Schedule
    <2>2. /\ Len(mTasks) \in Nat /\ Len(mTasks) >= 1
          /\ Head(mTasks) = mTasks[1] /\ Head(mTasks) \in Tickets
          /\ Tail(mTasks) \in Seq(Tickets)
          /\ Len(Tail(mTasks)) = Len(mTasks) - 1
          /\ \A i \in 1..Len(Tail(mTasks)) : Tail(mTasks)[i] = mTasks[i + 1]
      BY <1>5, <1>8, TicketQueue
    <2>3. Head(mTasks) = started + 1
      BY <1>5, <2>2
    <2>4. TypeOK'
      BY <1>1, <2>1, <2>2 DEF Inv, TypeOK, Phases
    <2>5. PendingIff' /\ OneAtATime'
      BY <1>3, <1>4, <2>1 DEF PendingIff, OneAtATime
    <2>6. NothingLost'
      <3>1. submitted' = started' + Len(mTasks') + 1
        BY <1>1, <1>5, <2>1, <2>2
      <3>2. ASSUME NEW i \in 1..Len(mTasks')
            PROVE  mTasks'[i] = submitted' - Len(mTasks') + i
        <4>1. i + 1 \in 1..Len(mTasks) /\ mTasks'[i] = mTasks[i + 1]
          BY <2>1, <2>2
        <4> QED
          BY <1>1, <1>5, <2>1, <2>2, <4>1
      <3>3. pool' \subseteq {started' + 1} /\ pool' # {}
        BY <1>1, <2>1, <2>3
      <3> QED
        BY <3>1, <3>2, <3>3 DEF NothingLost
    <2> QED
      BY <1>6, <1>7, <2>4, <2>5, <2>6 DEF Inv
  <1>9. CASE mTasks = <<>>
    <2>1. mPending' = FALSE /\ mTasks' = mTasks /\ pool' = pool
      BY <1>9 DEF Schedule
    <2>2. TypeOK'
      BY <1>1, <2>1 DEF Inv, TypeOK, Phases
    <2>3. PendingIff' /\ OneAtATime'
      BY <1>3, <1>4, <1>9, <2>1 DEF PendingIff, OneAtATime
    <2>4. NothingLost'
      BY <1>1, <2>1 DEF Inv, NothingLost
    <2> QED
      BY <1>6, <1>7, <2>2, <2>3, <2>4 DEF Inv
  <1> QED
    BY <1>8, <1>9

\* The worker drops what the task captured, which preserves it.
LEMMA ReleaseInv == ASSUME NEW w \in Workers, Inv, Release(w) PROVE Inv'
  <1>1. /\ phase[w] = "release"
        /\ phase' = [phase EXCEPT ![w] = "idle"]
        /\ job' = [job EXCEPT ![w] = 0]
        /\ UNCHANGED <<mPending, mTasks, pool, submitted, started, handle, owner>>
    BY DEF Release
  <1>2. \A v \in Workers : Busy(v)' <=> Busy(v)
    BY <1>1 DEF Inv, TypeOK, Busy
  <1>3. TypeOK'
    BY <1>1, MaxTasksAssumption DEF Inv, TypeOK, Phases
  <1>4. PendingIff' /\ OneAtATime'
    BY <1>1, <1>2 DEF Inv, PendingIff, OneAtATime
  <1>5. NothingLost'
    BY <1>1 DEF Inv, NothingLost
  <1>6. RunningIsLast'
    BY <1>1 DEF Inv, TypeOK, RunningIsLast
  <1>7. UnreferencedWhenDestroyed'
    BY <1>1 DEF Inv, TypeOK, UnreferencedWhenDestroyed, Referenced
  <1> QED
    BY <1>3, <1>4, <1>5, <1>6, <1>7 DEF Inv

\* The steps of the owner and of its users leave the tasks alone.
LEMMA OwnerInv ==
    ASSUME Inv, DropHandle \/ Destroy \/ Join \/ UNCHANGED vars
    PROVE  Inv'
  <1>1. UNCHANGED <<mPending, mTasks, pool, phase, job, submitted, started>>
    BY DEF DropHandle, Destroy, Join, vars
  <1>2. PendingIff' /\ OneAtATime' /\ NothingLost' /\ RunningIsLast'
    BY <1>1 DEF Inv, PendingIff, OneAtATime, NothingLost, RunningIsLast, Busy
  <1>3. TypeOK'
    BY <1>1 DEF Inv, TypeOK, DropHandle, Destroy, Join, vars
  <1>4. UnreferencedWhenDestroyed'
    BY <1>1 DEF Inv, UnreferencedWhenDestroyed, Referenced, DropHandle, Destroy, Join, vars
  <1> QED
    BY <1>2, <1>3, <1>4 DEF Inv

\* Every step preserves the invariant.
LEMMA InvNext == Inv /\ [Next]_vars => Inv'
  <1> SUFFICES ASSUME Inv, [Next]_vars PROVE Inv'
    OBVIOUS
  <1>1. CASE Enqueue
    BY <1>1, EnqueueInv
  <1>2. ASSUME NEW w \in Workers, WorkerStep(w) PROVE Inv'
    BY <1>2, StartTaskInv, FinishTaskInv, ScheduleInv, ReleaseInv DEF WorkerStep
  <1>3. CASE DropHandle \/ Destroy \/ Join \/ Terminated \/ UNCHANGED vars
    BY <1>3, OwnerInv DEF Terminated
  <1> QED
    BY <1>1, <1>2, <1>3 DEF Next

\* The inductive invariant holds of every reachable state.
THEOREM Invariance == SafetySpec => []Inv
  BY InvInit, InvNext, PTL DEF SafetySpec

-----------------------------------------------------------------------------
\* The variables keep their types.
THEOREM TypeCorrect == SafetySpec => []TypeOK
  <1>1. Inv => TypeOK
    BY DEF Inv
  <1> QED
    BY <1>1, Invariance, PTL

\* The comment of mPending is right: it is true exactly while a task of the
\* processor is in the pool or being executed.
THEOREM PendingExact == SafetySpec => []PendingIff
  <1>1. Inv => PendingIff
    BY DEF Inv
  <1> QED
    BY <1>1, Invariance, PTL

\* Tasks of one processor never run concurrently, however many workers there are.
THEOREM MutualExclusion == SafetySpec => []OneAtATime
  <1>1. Inv => OneAtATime
    BY DEF Inv
  <1> QED
    BY <1>1, Invariance, PTL

\* No task that enqueue() accepted is lost or overtaken in the queue.
THEOREM TasksKept == SafetySpec => []NothingLost
  <1>1. Inv => NothingLost
    BY DEF Inv
  <1> QED
    BY <1>1, Invariance, PTL

\* When the destructor of the owner joins the processor, there is nothing to wait
\* for, so that it may run on a worker of the pool.
THEOREM DestructorFindsEmpty == SafetySpec => []EmptyWhenDestroyed
  <1>1. Inv => EmptyWhenDestroyed
    <2> SUFFICES ASSUME Inv, owner # "alive"
                 PROVE  ~mPending /\ mTasks = <<>> /\ pool = {}
      BY DEF EmptyWhenDestroyed
    <2>1. mTasks = <<>> /\ pool = {} /\ \A w \in Workers : ~Busy(w)
      BY DEF Inv, UnreferencedWhenDestroyed, Referenced, Busy
    <2> QED
      BY <2>1 DEF Inv, PendingIff, TypeOK
  <1> QED
    BY <1>1, Invariance, PTL

\* Whatever worker takes a task, it takes the one that was enqueued next.
THEOREM TakenInOrder == SafetySpec => InOrder
  <1>1. Inv /\ [Next]_vars =>
          [\A w \in Workers : job'[w] # job[w] /\ job'[w] # 0 => job'[w] = started + 1]_vars
    <2> SUFFICES ASSUME Inv, Next, NEW v \in Workers, job'[v] # job[v], job'[v] # 0
                 PROVE  job'[v] = started + 1
      BY DEF vars
    <2>1. PICK w \in Workers : StartTask(w) \/ Release(w)
      BY DEF Next, Enqueue, WorkerStep, FinishTask, Schedule, DropHandle, Destroy, Join,
             Terminated, vars
    <2>2. CASE Release(w)
      BY <2>2 DEF Release, Inv, TypeOK
    <2>3. CASE StartTask(w)
      BY <2>3 DEF StartTask, Inv, TypeOK, NothingLost
    <2> QED
      BY <2>1, <2>2, <2>3
  <1> QED
    BY <1>1, Invariance, PTL DEF SafetySpec, InOrder

-----------------------------------------------------------------------------
\* CurrentTask is 0 when no task runs.
LEMMA CurrentIsNone ==
    ASSUME \A w \in Workers : phase[w] # "task" PROVE CurrentTask = 0
  BY DEF CurrentTask

\* With a running task, CurrentTask is the ticket that started last.
LEMMA CurrentIsLast ==
    ASSUME Inv, NEW w \in Workers, phase[w] = "task"
    PROVE  CurrentTask = job[w] /\ job[w] = started /\ started > 0
  <1>1. \A v \in Workers : phase[v] = "task" => v = w
    BY DEF Inv, OneAtATime, Busy
  <1>2. (CHOOSE v \in Workers : phase[v] = "task") = w
    BY <1>1, OnlyTask
  <1> QED
    BY <1>2 DEF CurrentTask, Inv, RunningIsLast

\* Taking a task is the step of the serial executor that begins the next one.
LEMMA StartTaskBegins == ASSUME NEW w \in Workers, Inv, StartTask(w) PROVE Serial!Begin
  <1>1. PICK t \in pool : pool' = pool \ {t} /\ job' = [job EXCEPT ![w] = t]
    BY DEF StartTask
  <1>2. /\ phase' = [phase EXCEPT ![w] = "task"]
        /\ started' = started + 1
        /\ UNCHANGED submitted
    BY DEF StartTask
  <1>3. t = started + 1 /\ \A v \in Workers : ~Busy(v)
    BY <1>1 DEF Inv, OneAtATime, NothingLost
  <1>4. CurrentTask = 0
    BY <1>3, CurrentIsNone DEF Busy
  <1>5. phase'[w] = "task" /\ \A v \in Workers : phase'[v] = "task" => v = w
    BY <1>2, <1>3 DEF Inv, TypeOK, Busy
  <1>6. (CHOOSE v \in Workers : phase'[v] = "task") = w
    BY <1>5, OnlyTask
  <1>7. CurrentTask' = started + 1
    BY <1>1, <1>3, <1>5, <1>6 DEF CurrentTask, Inv, TypeOK
  <1>8. started < submitted
    <2>1. started \in Nat /\ submitted \in Nat /\ Len(mTasks) \in Nat
      BY TicketQueue DEF Inv, TypeOK
    <2>2. submitted = started + Len(mTasks) + 1
      BY <1>1 DEF Inv, NothingLost
    <2> QED
      BY <2>1, <2>2
  <1> QED
    BY <1>2, <1>4, <1>7, <1>8 DEF Serial!Begin

\* The end of a body is the step of the serial executor that ends the task.
LEMMA FinishTaskEnds == ASSUME NEW w \in Workers, Inv, FinishTask(w) PROVE Serial!End
  <1>1. /\ phase[w] = "task"
        /\ phase' = [phase EXCEPT ![w] = "guard"]
        /\ UNCHANGED <<submitted, started>>
    BY DEF FinishTask
  <1>2. CurrentTask # 0
    BY <1>1, CurrentIsLast DEF Inv, TypeOK
  <1>3. \A v \in Workers : phase'[v] # "task"
    BY <1>1 DEF Inv, TypeOK, OneAtATime, Busy
  <1>4. CurrentTask' = 0
    BY <1>3 DEF CurrentTask
  <1> QED
    BY <1>1, <1>2, <1>4 DEF Serial!End

\* The other steps are invisible to the user of the serial executor.
LEMMA OtherStepsStutter ==
    ASSUME Inv,
           \/ \E w \in Workers : Schedule(w) \/ Release(w)
           \/ DropHandle \/ Destroy \/ Join \/ UNCHANGED vars
    PROVE  UNCHANGED Serial!execVars
  <1>1. UNCHANGED <<submitted, started>>
    BY DEF Schedule, Release, DropHandle, Destroy, Join, vars
  <1>2. \A v \in Workers : (phase'[v] = "task" <=> phase[v] = "task")
    BY DEF Inv, TypeOK, Schedule, Release, DropHandle, Destroy, Join, vars
  <1>3. \A v \in Workers : phase[v] = "task" => job'[v] = job[v]
    BY DEF Inv, TypeOK, Schedule, Release, DropHandle, Destroy, Join, vars
  <1>4. CASE \A v \in Workers : phase[v] # "task"
    BY <1>1, <1>2, <1>4 DEF CurrentTask, Serial!execVars
  <1>5. ASSUME NEW w \in Workers, phase[w] = "task" PROVE UNCHANGED Serial!execVars
    <2>1. CurrentTask = job[w] /\ \A v \in Workers : phase[v] = "task" => v = w
      BY <1>5, CurrentIsLast DEF Inv, OneAtATime, Busy
    <2>2. (CHOOSE v \in Workers : phase'[v] = "task") = w
      BY <1>2, <1>5, <2>1, OnlyTask
    <2>3. CurrentTask' = job'[w]
      BY <1>2, <1>5, <2>2 DEF CurrentTask
    <2> QED
      BY <1>1, <1>3, <1>5, <2>1, <2>3 DEF Serial!execVars
  <1> QED
    BY <1>4, <1>5

\* The processor is a serial executor: its steps are the acceptance of a task, the
\* beginning of the next one when none runs, the end of it, or internal.
THEOREM ImplementsSerial == SafetySpec => Serial!ExecSafety
  <1>1. Init => Serial!ExecInit
    BY DEF Init, Serial!ExecInit, CurrentTask
  <1>2. Inv /\ [Next]_vars => [Serial!ExecNext]_(Serial!execVars)
    <2> SUFFICES ASSUME Inv, [Next]_vars
                 PROVE  [Serial!ExecNext]_(Serial!execVars)
      OBVIOUS
    <2>1. CASE Enqueue
      BY <2>1 DEF Enqueue, Serial!Submit, Serial!ExecNext, CurrentTask
    <2>2. CASE \E w \in Workers : StartTask(w)
      BY <2>2, StartTaskBegins DEF Serial!ExecNext
    <2>3. CASE \E w \in Workers : FinishTask(w)
      BY <2>3, FinishTaskEnds DEF Serial!ExecNext
    <2>4. CASE \/ \E w \in Workers : Schedule(w) \/ Release(w)
               \/ DropHandle \/ Destroy \/ Join \/ UNCHANGED vars
      BY <2>4, OtherStepsStutter
    <2> QED
      BY <2>1, <2>2, <2>3, <2>4 DEF Next, WorkerStep, Terminated
  <1> QED
    BY <1>1, <1>2, Invariance, PTL DEF SafetySpec, Serial!ExecSafety
=============================================================================
