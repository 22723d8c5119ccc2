-------------------------- MODULE InitTokens_proofs ---------------------------
(***************************************************************************)
(* Proofs about InitTokens and the thread pool it starts and joins, for    *)
(* any number of workers, objects, tasks and payloads: while a token is    *)
(* held the library is up, the future of Cleanup() means that it is down,  *)
(* and no worker waits beside a task.  The application is assumed not to   *)
(* overlap lifetimes: it waits for that future before it starts again.     *)
(***************************************************************************)
EXTENDS InitTokens, SequenceTheorems, FiniteSetTheorems, TLAPS

\* The workers in one of the given phases, and their number.
At(f, phases) == {w \in Workers : f[w] \in phases}
Count(f, phases) == Cardinality(At(f, phases))

\* Those that mBusyWorkers counts, and those on their way to the queue.
BusyPhases == {"loop", "task", "leaving"}
ComingPhases == {"spawned", "loop", "notified"}

\* mBusyWorkers is exact.
BusyExact == mBusyWorkers = Count(wpc, BusyPhases)

\* join() raises its flag when no worker waits any more.
JoinPhase ==
    /\ mJoining <=> jpc = "joining"
    /\ mJoining => \A w \in Workers : wpc[w] # "waiting"

\* WorkConserving, for the numbers above.
Conserving ==
    /\ later \subseteq scheduled
    /\ scheduled \cap Delayed = {} /\ (\E w \in Workers : wpc[w] = "waiting") =>
           Len(due) <= Count(wpc, ComingPhases)

\* The invariant of the pool, whatever its owner does.
PoolInv == PoolTypeOK /\ BusyExact /\ JoinPhase /\ Conserving

\* The threads are gone when join() returns and as long as the library is down.
ThreadsGone ==
    jpc = "clear" \/ (jpc = "idle" /\ ~mInitialized) => \A w \in Workers : wpc[w] = "none"

\* What the life of the last payload says of the library: up until its cleanup
\* has the lock, being joined until the cleanup ends, and then down.
Library(life) ==
    \/ life \in {"alive", "dying"} /\ mInitialized /\ mMutex = 0 /\ jpc = "idle"
    \/ life = "cleaning" /\ ~mInitialized /\ mMutex = created /\ jpc # "idle"
    \/ /\ life = "done"
       /\ ~mInitialized /\ mMutex = 0 /\ jpc = "idle" /\ due = <<>> /\ later = {}

\* Payloads follow each other: each is done when the next one is created.
Lifetimes ==
    /\ mWeak = created
    /\ \A p \in Payloads : /\ p < created => pstate[p] = "done"
                           /\ p > created => pstate[p] = "none"
    /\ Library(IF created = 0 THEN "done" ELSE pstate[created])

\* A token refers to a payload that is alive.
References ==
    /\ mGlobal # 0 => pstate[mGlobal] = "alive"
    /\ \A u \in Users : held[u] # 0 => pstate[held[u]] = "alive"
    /\ \A t \in Tasks : captured[t] # 0 => pstate[captured[t]] = "alive"

\* The invariant of the tokens.
TokenInv == TypeOK /\ ThreadsGone /\ Lifetimes /\ References

\* The inductive invariant.
Inv == PoolInv /\ TokenInv

-----------------------------------------------------------------------------
\* A step of the pool, as its owner makes them.
PoolAction ==
    \/ UNCHANGED poolVars
    \/ Spawn
    \/ \E t \in Tasks : Schedule(t)
    \/ \E t \in Delayed : FallDue(t)
    \/ \E w \in Workers : PoolWorker(w) \/ EndTask(w)
    \/ JoinBegin
    \/ JoinMark
    \/ JoinEnd
    \/ Clear

\* Every step of the library is one of the pool.
LEMMA PoolSteps == [Next]_vars => PoolAction
  <1> SUFFICES ASSUME [Next]_vars PROVE PoolAction
    OBVIOUS
  <1> USE DEF PoolAction
  <1>1. CASE PoolStep
    BY <1>1 DEF PoolStep
  <1>2. CASE \/ \E u \in Users : UserToken(u) \/ ReleaseToken(u)
             \/ Preload
             \/ Cleanup
    BY <1>2 DEF UserToken, ReleaseToken, Preload, Cleanup, NewPayload
  <1>3. CASE \E u \in Users, t \in Tasks : UserSchedule(u, t)
    BY <1>3 DEF UserSchedule
  <1>4. CASE \E w \in Workers, c \in Closers : CloseTask(w, c)
    <2>1. \A c \in Closers : Teardown[c] \in Tasks
      BY InitAssumption
    <2> QED
      BY <1>4, <2>1 DEF CloseTask
  <1>5. CASE \E w \in Workers : FinishTask(w)
    BY <1>5 DEF FinishTask
  <1>6. CASE \E p \in Payloads : CleanupBegin(p) \/ CleanupEnd(p)
    BY <1>6 DEF CleanupBegin, CleanupEnd
  <1>7. CASE UNCHANGED vars
    BY <1>7 DEF vars
  <1> QED
    BY <1>1, <1>2, <1>3, <1>4, <1>5, <1>6, <1>7 DEF Next

-----------------------------------------------------------------------------
\* Counts are finite.
LEMMA CountType ==
    ASSUME NEW f, NEW P
    PROVE  /\ IsFiniteSet(At(f, P))
           /\ Count(f, P) \in Nat
           /\ Count(f, P) <= Cardinality(Workers)
           /\ Cardinality(Workers) \in Nat
  <1>1. IsFiniteSet(Workers) /\ At(f, P) \in SUBSET Workers
    BY TaskAssumption DEF At
  <1>2. IsFiniteSet(At(f, P)) /\ Cardinality(At(f, P)) <= Cardinality(Workers)
    BY <1>1, FS_Subset
  <1> QED
    BY <1>1, <1>2, FS_CardinalityType DEF Count

\* What a worker that changes its phase does to a count.
LEMMA CountMove ==
    ASSUME NEW f, NEW g, NEW P, NEW w \in Workers, \A v \in Workers \ {w} : g[v] = f[v]
    PROVE  Count(g, P) = Count(f, P) + (IF g[w] \in P THEN 1 ELSE 0)
                                     - (IF f[w] \in P THEN 1 ELSE 0)
  <1> DEFINE A == At(f, P)
             B == At(g, P)
  <1>1. /\ IsFiniteSet(A) /\ IsFiniteSet(B)
        /\ Cardinality(A) \in Nat /\ Cardinality(B) \in Nat
    BY CountType DEF Count
  <1>2. A \ {w} = B \ {w}
    BY DEF At
  <1>3. /\ w \in A <=> f[w] \in P
        /\ w \in B <=> g[w] \in P
    BY DEF At
  <1> HIDE DEF A, B
  <1>4. /\ Cardinality(A \ {w}) = IF w \in A THEN Cardinality(A) - 1 ELSE Cardinality(A)
        /\ Cardinality(B \ {w}) = IF w \in B THEN Cardinality(B) - 1 ELSE Cardinality(B)
    BY <1>1, FS_RemoveElement
  <1> QED
    BY <1>1, <1>2, <1>3, <1>4 DEF Count, A, B

\* A count depends on nothing but who is in its phases.
LEMMA CountSame ==
    ASSUME NEW f, NEW g, NEW P, \A v \in Workers : g[v] \in P <=> f[v] \in P
    PROVE  Count(g, P) = Count(f, P)
  <1>1. At(g, P) = At(f, P)
    BY DEF At
  <1> QED
    BY <1>1 DEF Count

\* Inserting a task at any place of the queue.
LEMMA InsertType ==
    ASSUME NEW S, NEW s \in Seq(S), NEW t \in S, NEW i \in 1..Len(s) + 1
    PROVE  InsertAt(s, i, t) \in Seq(S) /\ Len(InsertAt(s, i, t)) = Len(s) + 1
  <1>1. Len(s) \in Nat /\ \A k \in 1..Len(s) : s[k] \in S
    BY LenProperties, ElementOfSeq
  <1>2. /\ SubSeq(s, 1, i - 1) \in Seq(S)
        /\ Len(SubSeq(s, 1, i - 1)) = i - 1
    <2>1. i - 1 \in Int /\ \A k \in 1..i - 1 : s[k] \in S
      BY <1>1
    <2>2. Len(SubSeq(s, 1, i - 1)) = IF 1 <= i - 1 THEN (i - 1) - 1 + 1 ELSE 0
      BY <2>1, SubSeqProperties
    <2>3. SubSeq(s, 1, i - 1) \in Seq(S)
      BY <2>1, SubSeqProperties
    <2> QED
      BY <1>1, <2>2, <2>3
  <1>3. /\ SubSeq(s, i, Len(s)) \in Seq(S)
        /\ Len(SubSeq(s, i, Len(s))) = Len(s) - i + 1
    <2>1. i \in Int /\ Len(s) \in Int /\ \A k \in i..Len(s) : s[k] \in S
      BY <1>1
    <2>2. Len(SubSeq(s, i, Len(s))) = IF i <= Len(s) THEN Len(s) - i + 1 ELSE 0
      BY <2>1, SubSeqProperties
    <2>3. SubSeq(s, i, Len(s)) \in Seq(S)
      BY <2>1, SubSeqProperties
    <2> QED
      BY <1>1, <2>2, <2>3
  <1>4. <<t>> \in Seq(S) /\ Len(<<t>>) = 1
    OBVIOUS
  <1> DEFINE front == SubSeq(s, 1, i - 1)
             back == SubSeq(s, i, Len(s))
  <1>5. InsertAt(s, i, t) = (front \o <<t>>) \o back
    BY DEF InsertAt
  <1> HIDE DEF front, back
  <1>6. front \in Seq(S) /\ Len(front) = i - 1 /\ back \in Seq(S) /\ Len(back) = Len(s) - i + 1
    BY <1>2, <1>3 DEF front, back
  <1>7. front \o <<t>> \in Seq(S) /\ Len(front \o <<t>>) = i
    <2>1. Len(front \o <<t>>) = Len(front) + Len(<<t>>)
      BY <1>4, <1>6, ConcatProperties
    <2> QED
      BY <1>4, <1>6, <2>1, ConcatProperties
  <1>8. /\ (front \o <<t>>) \o back \in Seq(S)
        /\ Len((front \o <<t>>) \o back) = Len(front \o <<t>>) + Len(back)
    BY <1>6, <1>7, ConcatProperties
  <1> DEFINE whole == (front \o <<t>>) \o back
  <1>9. whole \in Seq(S) /\ Len(whole) = Len(front \o <<t>>) + Len(back)
    BY <1>8
  <1> HIDE DEF whole
  <1>10. Len(whole) = i + (Len(s) - i + 1)
    BY <1>6, <1>7, <1>9
  <1>11. Len(whole) = Len(s) + 1
    BY <1>1, <1>10
  <1> QED
    BY <1>5, <1>9, <1>11 DEF whole
-----------------------------------------------------------------------------
\* A worker w goes to the phase p; the count of busy workers follows it.
LEMMA MoveBusy ==
    ASSUME PoolInv, NEW w \in Workers, NEW p \in WorkerPhases,
           wpc' = [wpc EXCEPT ![w] = p],
           mBusyWorkers' = mBusyWorkers + (IF p \in BusyPhases THEN 1 ELSE 0)
                                        - (IF wpc[w] \in BusyPhases THEN 1 ELSE 0)
    PROVE  /\ wpc' \in [Workers -> WorkerPhases]
           /\ wpc'[w] = p /\ \A v \in Workers \ {w} : wpc'[v] = wpc[v]
           /\ BusyExact'
           /\ mBusyWorkers' \in 0..Cardinality(Workers)
           /\ Count(wpc', ComingPhases) =
                  Count(wpc, ComingPhases) + (IF p \in ComingPhases THEN 1 ELSE 0)
                                           - (IF wpc[w] \in ComingPhases THEN 1 ELSE 0)
  <1>1. /\ wpc' \in [Workers -> WorkerPhases]
        /\ wpc'[w] = p /\ \A v \in Workers \ {w} : wpc'[v] = wpc[v]
    BY DEF PoolInv, PoolTypeOK
  <1>2. /\ Count(wpc', BusyPhases) =
               Count(wpc, BusyPhases) + (IF p \in BusyPhases THEN 1 ELSE 0)
                                      - (IF wpc[w] \in BusyPhases THEN 1 ELSE 0)
        /\ Count(wpc', ComingPhases) =
               Count(wpc, ComingPhases) + (IF p \in ComingPhases THEN 1 ELSE 0)
                                        - (IF wpc[w] \in ComingPhases THEN 1 ELSE 0)
    BY <1>1, CountMove
  <1>3. mBusyWorkers' = Count(wpc', BusyPhases)
    BY <1>2 DEF PoolInv, BusyExact
  <1>4. mBusyWorkers' \in 0..Cardinality(Workers)
    BY <1>3, CountType
  <1> QED
    BY <1>1, <1>2, <1>3, <1>4 DEF BusyExact

\* Workers that leave their wait are not busy yet.
LEMMA NotifyBusy ==
    ASSUME PoolInv,
           \A v \in Workers : \/ wpc'[v] = wpc[v]
                              \/ wpc[v] = "waiting" /\ wpc'[v] = "notified",
           wpc' \in [Workers -> WorkerPhases], UNCHANGED mBusyWorkers
    PROVE  BusyExact'
  <1>1. \A v \in Workers : wpc'[v] \in BusyPhases <=> wpc[v] \in BusyPhases
    BY DEF BusyPhases
  <1>2. Count(wpc', BusyPhases) = Count(wpc, BusyPhases)
    BY <1>1, CountSame
  <1> QED
    BY <1>2 DEF PoolInv, BusyExact

\* The pool is spawned: no worker is busy, and none waits.
LEMMA SpawnInv == PoolInv /\ Spawn => PoolInv'
  <1> SUFFICES ASSUME PoolInv, Spawn PROVE PoolInv'
    OBVIOUS
  <1>1. \A w \in Workers : wpc[w] = "none" /\ wpc'[w] = "spawned"
    BY DEF Spawn
  <1>2. Count(wpc', BusyPhases) = Count(wpc, BusyPhases)
    BY <1>1, CountSame DEF BusyPhases
  <1>3. PoolTypeOK'
    BY DEF PoolInv, PoolTypeOK, Spawn, WorkerPhases
  <1>4. BusyExact'
    BY <1>2 DEF PoolInv, BusyExact, Spawn
  <1> QED
    BY <1>1, <1>3, <1>4 DEF PoolInv, JoinPhase, Conserving, Spawn

\* A task is scheduled: a worker that waits, if there is one, comes for it.
LEMMA ScheduleInv == ASSUME NEW t \in Tasks PROVE PoolInv /\ Schedule(t) => PoolInv'
  <1> SUFFICES ASSUME PoolInv, Schedule(t) PROVE PoolInv'
    OBVIOUS
  <1>1. /\ UNCHANGED <<wtask, wuntil, mBusyWorkers, mJoining, jpc>>
        /\ scheduled' = scheduled \cup {t}
        /\ due \in Seq(Tasks) /\ Len(due) \in Nat
    BY LenProperties DEF Schedule, PoolInv, PoolTypeOK
  <1>2. /\ due' \in Seq(Tasks) /\ later' \in SUBSET Delayed /\ later' \subseteq scheduled'
        /\ t \in Delayed \/ Len(due') = Len(due) + 1
    <2>1. CASE t \in Delayed /\ later' = later \cup {t} /\ UNCHANGED due
      BY <1>1, <2>1 DEF PoolInv, PoolTypeOK, Conserving
    <2>2. CASE /\ \E i \in 1..Len(due) + 1 : due' = InsertAt(due, i, t)
               /\ UNCHANGED later
      BY <1>1, <2>2, InsertType DEF PoolInv, PoolTypeOK, Conserving
    <2> QED
      BY <2>1, <2>2 DEF Schedule, Push
  <1>3. CASE WorkersAt("waiting") = {} /\ UNCHANGED wpc
    <2>1. \A w \in Workers : wpc'[w] # "waiting"
      BY <1>3 DEF WorkersAt
    <2>2. PoolTypeOK'
      BY <1>1, <1>2, <1>3 DEF PoolInv, PoolTypeOK
    <2> QED
      BY <1>1, <1>2, <1>3, <2>1, <2>2 DEF PoolInv, BusyExact, JoinPhase, Conserving
  <1>4. ASSUME NEW w \in Workers, wpc[w] = "waiting",
               wpc' = [wpc EXCEPT ![w] = "notified"]
        PROVE  PoolInv'
    <2>1. /\ wpc' \in [Workers -> WorkerPhases]
          /\ wpc'[w] = "notified" /\ \A v \in Workers \ {w} : wpc'[v] = wpc[v]
          /\ Count(wpc', ComingPhases) = Count(wpc, ComingPhases) + 1
      <3>1. wpc' \in [Workers -> WorkerPhases]
        BY <1>4 DEF PoolInv, PoolTypeOK, WorkerPhases
      <3>2. wpc'[w] = "notified" /\ \A v \in Workers \ {w} : wpc'[v] = wpc[v]
        BY <1>4 DEF PoolInv, PoolTypeOK
      <3>3. wpc[w] \notin ComingPhases /\ wpc'[w] \in ComingPhases
        BY <1>4, <3>2 DEF ComingPhases
      <3>4. Count(wpc, ComingPhases) \in Nat
        BY CountType
      <3> QED
        BY <3>1, <3>2, <3>3, <3>4, CountMove
    <2>2. BusyExact'
      BY <1>1, <1>4, <2>1, NotifyBusy
    <2>3. PoolTypeOK'
      BY <1>1, <1>2, <2>1 DEF PoolInv, PoolTypeOK
    <2>4. JoinPhase'
      BY <1>1, <1>4 DEF PoolInv, JoinPhase
    <2>5. Conserving'
      <3>1. SUFFICES ASSUME scheduled' \cap Delayed = {}
                     PROVE  Len(due') <= Count(wpc', ComingPhases)
        BY <1>2 DEF Conserving
      <3>2. Len(due') = Len(due) + 1 /\ scheduled \cap Delayed = {}
        BY <1>1, <1>2, <3>1
      <3>3. Len(due) <= Count(wpc, ComingPhases) /\ Count(wpc, ComingPhases) \in Nat
        BY <1>4, <3>2, CountType DEF PoolInv, Conserving
      <3> QED
        BY <1>1, <2>1, <3>2, <3>3
    <2> QED
      BY <2>2, <2>3, <2>4, <2>5 DEF PoolInv
  <1> QED
    BY <1>3, <1>4 DEF Schedule, NotifyOne, WorkersAt

\* A timer falls due: from then on nothing is promised about idle workers.
LEMMA FallDueInv == ASSUME NEW t \in Delayed PROVE PoolInv /\ FallDue(t) => PoolInv'
  <1> SUFFICES ASSUME PoolInv, FallDue(t) PROVE PoolInv'
    OBVIOUS
  <1>1. /\ UNCHANGED <<scheduled, wtask, wuntil, mBusyWorkers, mJoining, jpc>>
        /\ t \in later /\ later' = later \ {t} /\ due' = Append(due, t)
        /\ wpc' = [w \in Workers |-> IF wpc[w] = "waiting" /\ t \in wuntil[w]
                                     THEN "notified" ELSE wpc[w]]
    BY DEF FallDue, Earliest
  <1>2. wpc' \in [Workers -> WorkerPhases]
    BY <1>1 DEF PoolInv, PoolTypeOK, WorkerPhases
  <1>3. \A v \in Workers : \/ wpc'[v] = wpc[v]
                           \/ wpc[v] = "waiting" /\ wpc'[v] = "notified"
    BY <1>1
  <1>4. BusyExact'
    BY <1>1, <1>2, <1>3, NotifyBusy
  <1>5. t \in Tasks /\ t \in scheduled \cap Delayed
    BY <1>1, TaskAssumption DEF PoolInv, Conserving
  <1>6. due' \in Seq(Tasks) /\ later' \in SUBSET Delayed
    BY <1>1, <1>5 DEF PoolInv, PoolTypeOK
  <1>7. PoolTypeOK'
    BY <1>1, <1>2, <1>6 DEF PoolInv, PoolTypeOK
  <1>8. JoinPhase'
    BY <1>1, <1>3 DEF PoolInv, JoinPhase
  <1>9. Conserving'
    BY <1>1, <1>5 DEF PoolInv, Conserving
  <1> QED
    BY <1>4, <1>7, <1>8, <1>9 DEF PoolInv

\* One pass of dequeue() by a worker that comes to the queue, busy or about to
\* be counted so: it leaves, takes the first task, or waits beside an empty queue.
LEMMA DequeueInv ==
    ASSUME NEW w \in Workers, NEW busyNow, PoolInv,
           wpc[w] \in {"loop", "notified"},
           busyNow = mBusyWorkers + (IF wpc[w] = "loop" THEN 0 ELSE 1),
           DequeuePass(w, busyNow), UNCHANGED <<scheduled, mJoining, jpc>>
    PROVE  PoolInv'
  <1>1. /\ PoolTypeOK /\ BusyExact /\ JoinPhase /\ Conserving
        /\ mBusyWorkers \in Int /\ due \in Seq(Tasks) /\ Len(due) \in Nat
    BY LenProperties DEF PoolInv, PoolTypeOK
  <1>2. wpc[w] \in ComingPhases /\ wpc[w] # "waiting"
        /\ (wpc[w] = "loop" <=> wpc[w] \in BusyPhases)
    BY DEF ComingPhases, BusyPhases
  <1>3. CASE /\ mJoining
             /\ wpc' = [wpc EXCEPT ![w] = "leaving"]
             /\ mBusyWorkers' = busyNow
             /\ UNCHANGED <<due, later, wtask, wuntil>>
    <2>1. "leaving" \in WorkerPhases /\ "leaving" \in BusyPhases /\ "leaving" \notin ComingPhases
      BY DEF WorkerPhases, BusyPhases, ComingPhases
    <2>2. mBusyWorkers' = mBusyWorkers + 1 - (IF wpc[w] \in BusyPhases THEN 1 ELSE 0)
      BY <1>1, <1>2, <1>3
    <2>3. /\ wpc' \in [Workers -> WorkerPhases]
          /\ wpc'[w] = "leaving" /\ \A v \in Workers \ {w} : wpc'[v] = wpc[v]
          /\ BusyExact'
          /\ mBusyWorkers' \in 0..Cardinality(Workers)
      BY <1>3, <2>1, <2>2, MoveBusy
    <2>4. \A v \in Workers : wpc'[v] # "waiting"
      BY <1>1, <1>3, <2>3 DEF JoinPhase
    <2>5. PoolTypeOK'
      BY <1>1, <1>3, <2>3 DEF PoolTypeOK
    <2> QED
      BY <1>1, <1>3, <2>3, <2>4, <2>5 DEF PoolInv, JoinPhase, Conserving
  <1>4. CASE /\ ~mJoining
             /\ due # <<>>
             /\ due' = Tail(due)
             /\ wtask' = [wtask EXCEPT ![w] = {Head(due)}]
             /\ wpc' = [wpc EXCEPT ![w] = "task"]
             /\ wuntil' = [wuntil EXCEPT ![w] = {}]
             /\ mBusyWorkers' = busyNow
             /\ UNCHANGED later
    <2>1. "task" \in WorkerPhases /\ "task" \in BusyPhases /\ "task" \notin ComingPhases
      BY DEF WorkerPhases, BusyPhases, ComingPhases
    <2>2. mBusyWorkers' = mBusyWorkers + 1 - (IF wpc[w] \in BusyPhases THEN 1 ELSE 0)
      BY <1>1, <1>2, <1>4
    <2>3. /\ wpc' \in [Workers -> WorkerPhases]
          /\ wpc'[w] = "task" /\ \A v \in Workers \ {w} : wpc'[v] = wpc[v]
          /\ BusyExact'
          /\ mBusyWorkers' \in 0..Cardinality(Workers)
          /\ Count(wpc', ComingPhases) = Count(wpc, ComingPhases) + 0 - 1
      <3>1. mBusyWorkers' = mBusyWorkers + (IF "task" \in BusyPhases THEN 1 ELSE 0)
                                         - (IF wpc[w] \in BusyPhases THEN 1 ELSE 0)
        BY <2>1, <2>2
      <3>2. Count(wpc', ComingPhases) =
                  Count(wpc, ComingPhases) + (IF "task" \in ComingPhases THEN 1 ELSE 0)
                                           - (IF wpc[w] \in ComingPhases THEN 1 ELSE 0)
        BY <1>4, <2>1, <3>1, MoveBusy
      <3>3. Count(wpc', ComingPhases) = Count(wpc, ComingPhases) + 0 - 1
        BY <1>2, <2>1, <3>2
      <3> QED
        BY <1>4, <2>1, <3>1, <3>3, MoveBusy
    <2>4. /\ due' \in Seq(Tasks) /\ Len(due') = Len(due) - 1 /\ Head(due) \in Tasks
      BY <1>1, <1>4, HeadTailProperties
    <2>5. PoolTypeOK'
      BY <1>1, <1>4, <2>3, <2>4 DEF PoolTypeOK
    <2>6. JoinPhase'
      BY <1>1, <1>4 DEF JoinPhase
    <2>7. Conserving'
      <3>1. SUFFICES ASSUME scheduled' \cap Delayed = {},
                            \E v \in Workers : wpc'[v] = "waiting"
                     PROVE  Len(due') <= Count(wpc', ComingPhases)
        BY <1>1, <1>4 DEF Conserving
      <3>2. scheduled \cap Delayed = {} /\ \E v \in Workers : wpc[v] = "waiting"
        BY <2>3, <3>1
      <3>3. Len(due) <= Count(wpc, ComingPhases) /\ Count(wpc, ComingPhases) \in Nat
        BY <1>1, <3>2, CountType DEF Conserving
      <3> QED
        BY <1>1, <2>3, <2>4, <3>3
    <2> QED
      BY <2>3, <2>5, <2>6, <2>7 DEF PoolInv
  <1>5. CASE /\ ~mJoining
             /\ due = <<>>
             /\ wpc' = [wpc EXCEPT ![w] = "waiting"]
             /\ wuntil' = [wuntil EXCEPT ![w] = Earliest(later)]
             /\ mBusyWorkers' = busyNow - 1
             /\ UNCHANGED <<due, later, wtask>>
    <2>1. "waiting" \in WorkerPhases /\ "waiting" \notin BusyPhases
      BY DEF WorkerPhases, BusyPhases
    <2>2. mBusyWorkers' = mBusyWorkers + 0 - (IF wpc[w] \in BusyPhases THEN 1 ELSE 0)
      BY <1>1, <1>2, <1>5
    <2>3. /\ wpc' \in [Workers -> WorkerPhases]
          /\ BusyExact'
          /\ mBusyWorkers' \in 0..Cardinality(Workers)
      BY <1>5, <2>1, <2>2, MoveBusy
    <2>4. Earliest(later) \in SUBSET Delayed
      BY <1>1 DEF PoolTypeOK, Earliest
    <2>5. PoolTypeOK'
      BY <1>1, <1>5, <2>3, <2>4 DEF PoolTypeOK
    <2>6. JoinPhase'
      BY <1>1, <1>5 DEF JoinPhase
    <2>7. Conserving'
      <3>1. Len(due') = 0 /\ Count(wpc', ComingPhases) \in Nat
        BY <1>5, CountType
      <3> QED
        BY <1>1, <1>5, <3>1 DEF Conserving
    <2> QED
      BY <2>3, <2>5, <2>6, <2>7 DEF PoolInv
  <1> QED
    BY <1>3, <1>4, <1>5 DEF DequeuePass

\* The steps of a worker.
LEMMA WorkerInv ==
    ASSUME NEW w \in Workers PROVE PoolInv /\ (PoolWorker(w) \/ EndTask(w)) => PoolInv'
  <1> SUFFICES ASSUME PoolInv, PoolWorker(w) \/ EndTask(w) PROVE PoolInv'
    OBVIOUS
  <1>1. CASE Dequeue(w)
    <2>1. DequeuePass(w, mBusyWorkers) /\ wpc[w] = "loop"
          /\ UNCHANGED <<scheduled, mJoining, jpc>>
      BY <1>1 DEF Dequeue
    <2>2. mBusyWorkers = mBusyWorkers + 0
      BY DEF PoolInv, PoolTypeOK
    <2> QED
      BY <2>1, <2>2, DequeueInv
  <1>2. CASE Wake(w)
    <2>1. DequeuePass(w, mBusyWorkers + 1) /\ wpc[w] = "notified"
          /\ UNCHANGED <<scheduled, mJoining, jpc>>
      BY <1>2 DEF Wake
    <2> QED
      BY <2>1, DequeueInv
  <1>3. ASSUME NEW p \in WorkerPhases, p # "waiting", wpc[w] \notin ComingPhases \/ p \in ComingPhases,
               wpc' = [wpc EXCEPT ![w] = p],
               mBusyWorkers' = mBusyWorkers + (IF p \in BusyPhases THEN 1 ELSE 0)
                                            - (IF wpc[w] \in BusyPhases THEN 1 ELSE 0),
               wtask' \in [Workers -> SUBSET Tasks],
               UNCHANGED <<due, later, scheduled, wuntil, mJoining, jpc>>
        PROVE  PoolInv'
    <2>1. /\ wpc' \in [Workers -> WorkerPhases]
          /\ wpc'[w] = p /\ \A v \in Workers \ {w} : wpc'[v] = wpc[v]
          /\ BusyExact'
          /\ mBusyWorkers' \in 0..Cardinality(Workers)
          /\ Count(wpc', ComingPhases) =
                  Count(wpc, ComingPhases) + (IF p \in ComingPhases THEN 1 ELSE 0)
                                           - (IF wpc[w] \in ComingPhases THEN 1 ELSE 0)
      BY <1>3, MoveBusy
    <2>2. \A v \in Workers : wpc'[v] = "waiting" => wpc[v] = "waiting"
      BY <1>3, <2>1
    <2>3. Count(wpc, ComingPhases) \in Nat /\ Count(wpc', ComingPhases) \in Nat
      BY CountType
    <2>4. Count(wpc, ComingPhases) <= Count(wpc', ComingPhases)
      BY <1>3, <2>1, <2>3
    <2>5. due \in Seq(Tasks) /\ Len(due) \in Nat
      BY LenProperties DEF PoolInv, PoolTypeOK
    <2>6. PoolTypeOK'
      BY <1>3, <2>1 DEF PoolInv, PoolTypeOK
    <2>7. JoinPhase'
      BY <1>3, <2>2 DEF PoolInv, JoinPhase
    <2>8. Conserving'
      <3>1. SUFFICES ASSUME scheduled' \cap Delayed = {},
                            \E v \in Workers : wpc'[v] = "waiting"
                     PROVE  Len(due') <= Count(wpc', ComingPhases)
        BY <1>3 DEF PoolInv, Conserving
      <3>2. Len(due) <= Count(wpc, ComingPhases)
        BY <1>3, <2>2, <3>1 DEF PoolInv, Conserving
      <3> QED
        BY <1>3, <2>3, <2>4, <2>5, <3>2
    <2> QED
      BY <2>1, <2>6, <2>7, <2>8 DEF PoolInv
  <1>4. mBusyWorkers \in Int /\ wtask \in [Workers -> SUBSET Tasks]
    BY DEF PoolInv, PoolTypeOK
  <1>5. CASE StartRun(w)
    <2>1. /\ wpc[w] = "spawned" /\ wpc' = [wpc EXCEPT ![w] = "loop"]
          /\ mBusyWorkers' = mBusyWorkers + 1
          /\ UNCHANGED <<due, later, scheduled, wtask, wuntil, mJoining, jpc>>
      BY <1>5 DEF StartRun
    <2>2. /\ "loop" \in WorkerPhases /\ "loop" \in ComingPhases
          /\ "loop" \in BusyPhases /\ "spawned" \notin BusyPhases
      BY DEF WorkerPhases, ComingPhases, BusyPhases
    <2>3. mBusyWorkers' = mBusyWorkers + (IF "loop" \in BusyPhases THEN 1 ELSE 0)
                                       - (IF wpc[w] \in BusyPhases THEN 1 ELSE 0)
      BY <1>4, <2>1, <2>2
    <2> QED
      BY <1>3, <1>4, <2>1, <2>2, <2>3
  <1>6. CASE EndTask(w)
    <2>1. /\ wpc[w] = "task" /\ wpc' = [wpc EXCEPT ![w] = "loop"]
          /\ wtask' = [wtask EXCEPT ![w] = {}]
          /\ UNCHANGED <<due, later, scheduled, wuntil, mBusyWorkers, mJoining, jpc>>
      BY <1>6 DEF EndTask
    <2>2. /\ "loop" \in WorkerPhases /\ "loop" \in ComingPhases
          /\ "loop" \in BusyPhases /\ "task" \in BusyPhases
      BY DEF WorkerPhases, ComingPhases, BusyPhases
    <2>3. mBusyWorkers' = mBusyWorkers + (IF "loop" \in BusyPhases THEN 1 ELSE 0)
                                       - (IF wpc[w] \in BusyPhases THEN 1 ELSE 0)
      BY <1>4, <2>1, <2>2
    <2>4. wtask' \in [Workers -> SUBSET Tasks]
      BY <1>4, <2>1
    <2> QED
      BY <1>3, <2>1, <2>2, <2>3, <2>4
  <1>7. CASE EndRun(w)
    <2>1. /\ wpc[w] = "leaving" /\ wpc' = [wpc EXCEPT ![w] = "exited"]
          /\ mBusyWorkers' = mBusyWorkers - 1
          /\ UNCHANGED <<due, later, scheduled, wtask, wuntil, mJoining, jpc>>
      BY <1>7 DEF EndRun
    <2>2. /\ "exited" \in WorkerPhases /\ "leaving" \notin ComingPhases
          /\ "exited" \notin BusyPhases /\ "leaving" \in BusyPhases
      BY DEF WorkerPhases, ComingPhases, BusyPhases
    <2>3. mBusyWorkers' = mBusyWorkers + (IF "exited" \in BusyPhases THEN 1 ELSE 0)
                                       - (IF wpc[w] \in BusyPhases THEN 1 ELSE 0)
      BY <1>4, <2>1, <2>2
    <2> QED
      BY <1>3, <1>4, <2>1, <2>2, <2>3
  <1> QED
    BY <1>1, <1>2, <1>5, <1>6, <1>7 DEF PoolWorker

\* join() and clear().
LEMMA JoinInv == PoolInv /\ (JoinBegin \/ JoinMark \/ JoinEnd \/ Clear) => PoolInv'
  <1> SUFFICES ASSUME PoolInv, JoinBegin \/ JoinMark \/ JoinEnd \/ Clear PROVE PoolInv'
    OBVIOUS
  <1>1. PoolTypeOK /\ BusyExact /\ JoinPhase /\ Conserving
    BY DEF PoolInv
  <1>2. CASE JoinBegin
    <2>1. PoolTypeOK'
      BY <1>1, <1>2 DEF PoolTypeOK, JoinBegin, JoinPhases
    <2> QED
      BY <1>1, <1>2, <2>1 DEF PoolInv, BusyExact, JoinPhase, Conserving, JoinBegin
  <1>3. CASE JoinMark
    <2>1. /\ UNCHANGED <<due, later, scheduled, wtask, wuntil, mBusyWorkers>>
          /\ mJoining' = TRUE /\ jpc' = "joining"
          /\ wpc' = [w \in Workers |-> IF wpc[w] = "waiting" THEN "notified" ELSE wpc[w]]
      BY <1>3 DEF JoinMark, NotifyAll
    <2>2. wpc' \in [Workers -> WorkerPhases]
      BY <1>1, <2>1 DEF PoolTypeOK, WorkerPhases
    <2>3. \A v \in Workers : /\ wpc'[v] # "waiting"
                             /\ \/ wpc'[v] = wpc[v]
                                \/ wpc[v] = "waiting" /\ wpc'[v] = "notified"
      BY <2>1
    <2>4. BusyExact'
      BY <2>1, <2>2, <2>3, NotifyBusy
    <2>5. PoolTypeOK'
      BY <1>1, <2>1, <2>2 DEF PoolTypeOK, JoinPhases
    <2> QED
      BY <1>1, <2>1, <2>3, <2>4, <2>5 DEF PoolInv, JoinPhase, Conserving
  <1>4. CASE JoinEnd
    <2>1. /\ UNCHANGED <<due, later, scheduled, wtask, wuntil, mBusyWorkers>>
          /\ mJoining' = FALSE /\ jpc' = "clear"
          /\ \A w \in Workers : wpc[w] = "exited"
          /\ wpc' = [w \in Workers |-> "none"]
      BY <1>4 DEF JoinEnd
    <2>2. \A w \in Workers : wpc'[w] \in BusyPhases <=> wpc[w] \in BusyPhases
      BY <2>1 DEF BusyPhases
    <2>3. BusyExact'
      BY <1>1, <2>1, <2>2, CountSame DEF BusyExact
    <2>4. PoolTypeOK'
      BY <1>1, <2>1 DEF PoolTypeOK, JoinPhases, WorkerPhases
    <2> QED
      BY <1>1, <2>1, <2>3, <2>4 DEF PoolInv, JoinPhase, Conserving
  <1>5. CASE Clear
    <2>1. /\ due' = <<>> /\ later' = {} /\ jpc = "clear" /\ jpc' = "idle"
          /\ UNCHANGED <<scheduled, wpc, wtask, wuntil, mBusyWorkers, mJoining>>
      BY <1>5 DEF Clear
    <2>2. PoolTypeOK'
      BY <1>1, <2>1 DEF PoolTypeOK, JoinPhases
    <2>3. Len(due') = 0 /\ Count(wpc', ComingPhases) \in Nat
      BY <2>1, CountType
    <2>4. Conserving'
      BY <2>1, <2>3 DEF Conserving
    <2> QED
      BY <1>1, <2>1, <2>2, <2>4 DEF PoolInv, BusyExact, JoinPhase
  <1> QED
    BY <1>2, <1>3, <1>4, <1>5

\* The invariant of the pool is inductive, whatever its owner does.
LEMMA PoolInductive == PoolInv /\ PoolAction => PoolInv'
  <1> SUFFICES ASSUME PoolInv, PoolAction PROVE PoolInv'
    OBVIOUS
  <1>1. CASE UNCHANGED poolVars
    BY <1>1 DEF poolVars, PoolInv, PoolTypeOK, BusyExact, JoinPhase, Conserving
  <1> QED
    BY <1>1, SpawnInv, ScheduleInv, FallDueInv, WorkerInv, JoinInv DEF PoolAction

\* A pool that was just created.
LEMMA PoolInitial == PoolInit => PoolInv
  <1> SUFFICES ASSUME PoolInit PROVE PoolInv
    OBVIOUS
  <1>1. At(wpc, BusyPhases) = {}
    BY DEF PoolInit, At, BusyPhases
  <1>2. Count(wpc, BusyPhases) = 0 /\ Cardinality(Workers) \in Nat
    BY <1>1, FS_EmptySet, CountType DEF Count
  <1>3. PoolTypeOK
    <2>1. mBusyWorkers \in 0..Cardinality(Workers)
      BY <1>2 DEF PoolInit
    <2>2. due \in Seq(Tasks) /\ jpc \in JoinPhases
      BY DEF PoolInit, JoinPhases
    <2>3. wpc \in [Workers -> WorkerPhases] /\ wuntil \in [Workers -> SUBSET Delayed]
      BY DEF PoolInit, WorkerPhases
    <2> QED
      BY <2>1, <2>2, <2>3 DEF PoolInit, PoolTypeOK
  <1> QED
    BY <1>2, <1>3 DEF PoolInit, PoolInv, BusyExact, JoinPhase, Conserving

\* The counter of busy workers is exact and join() never marks a pool in which
\* a worker waits; as long as no timer was set, no worker waits beside a task.
THEOREM PoolInvariance == Spec => []PoolInv
  <1>1. Init => PoolInv
    BY PoolInitial DEF Init
  <1>2. PoolInv /\ [Next]_vars => PoolInv'
    BY PoolSteps, PoolInductive
  <1> QED
    BY <1>1, <1>2, PTL DEF Spec

-----------------------------------------------------------------------------
\* A payload that is not over, and not to come, is the last one.
LEMMA LastLives ==
    ASSUME TokenInv, NEW p \in Payloads, pstate[p] \in {"alive", "dying", "cleaning"}
    PROVE  p = created /\ created # 0 /\ Library(pstate[p])
  <1>1. p \in Nat /\ created \in Nat /\ p # 0
    BY InitAssumption DEF TokenInv, TypeOK, Payloads
  <1>2. ~(p < created) /\ ~(p > created)
    BY DEF TokenInv, Lifetimes
  <1>3. p = created
    BY <1>1, <1>2
  <1> QED
    BY <1>1, <1>3 DEF TokenInv, Lifetimes

\* What is said of the last payload, on one line per state of it.
LEMMA LibraryNow ==
    ASSUME TokenInv
    PROVE  /\ created = 0 => Library("done")
           /\ created # 0 => /\ created \in Payloads
                             /\ pstate[created] \in {"alive", "dying", "cleaning", "done"}
                             /\ Library(pstate[created])
  <1>1. created \in 0..MaxPayloads
    BY DEF TokenInv, TypeOK
  <1>2. created # 0 => created \in Payloads
    BY <1>1 DEF Payloads
  <1> QED
    BY <1>2 DEF TokenInv, Lifetimes, Library

\* A token refers to the last payload.
LEMMA TokensOfLast ==
    ASSUME TokenInv
    PROVE  /\ mGlobal # 0 => mGlobal = created
           /\ \A u \in Users : held[u] # 0 => held[u] = created
           /\ \A t \in Tasks : captured[t] # 0 => captured[t] = created
  <1>1. \A p \in 0..MaxPayloads : p # 0 /\ pstate[p] = "alive" => p = created
    BY LastLives DEF Payloads
  <1>2. /\ mGlobal \in 0..MaxPayloads
        /\ \A u \in Users : held[u] \in 0..MaxPayloads
        /\ \A t \in Tasks : captured[t] \in 0..MaxPayloads
    BY DEF TokenInv, TypeOK
  <1> QED
    BY <1>1, <1>2 DEF TokenInv, References

\* An application that waits for the future of Cleanup() starts the library
\* again only when it is down.
LEMMA RestartIsDown ==
    ASSUME TokenInv, ~Overlap, ~WeakAlive, MayStart
    PROVE  Library("done") /\ (created # 0 => pstate[created] = "done")
  <1>1. mWeak = created
    BY DEF TokenInv, Lifetimes
  <1>2. created # 0 => pstate[created] = "done"
    BY <1>1, LibraryNow DEF WeakAlive, MayStart
  <1> QED
    BY <1>2, LibraryNow

\* Tokens are dropped, and with the last one the payload begins to die.
LEMMA ExpireInv ==
    ASSUME TokenInv,
           pstate' = Expire(pstate, mGlobal', held', captured'),
           mGlobal' \in {0, mGlobal},
           held' \in [Users -> 0..MaxPayloads],
           captured' \in [Tasks -> 0..MaxPayloads],
           \A u \in Users : held'[u] \in {0, held[u]},
           \A t \in Tasks : captured'[t] \in {0, captured[t]},
           UNCHANGED <<mWeak, mInitialized, mMutex, created, due, later, jpc>>
    PROVE  /\ Lifetimes' /\ References'
           /\ pstate' \in [Payloads -> {"none", "alive", "dying", "cleaning", "done"}]
  <1>1. \A p \in Payloads :
          \/ /\ pstate'[p] = pstate[p]
          \/ /\ pstate[p] = "alive" /\ pstate'[p] = "dying"
             /\ mGlobal' # p
             /\ \A u \in Users : held'[u] # p
             /\ \A t \in Tasks : captured'[t] # p
    BY DEF Expire
  <1>2. pstate' \in [Payloads -> {"none", "alive", "dying", "cleaning", "done"}]
    BY DEF Expire, TokenInv, TypeOK
  <1>3. Lifetimes'
    <2>1. \A p \in Payloads : /\ p < created => pstate'[p] = "done"
                              /\ p > created => pstate'[p] = "none"
      BY <1>1 DEF TokenInv, Lifetimes
    <2>2. CASE created = 0
      BY <2>1, <2>2 DEF TokenInv, Lifetimes, Library
    <2>3. CASE created # 0
      <3>1. created \in Payloads
        BY <2>3, LibraryNow
      <3>2. CASE pstate'[created] = pstate[created]
        BY <2>1, <2>3, <3>2 DEF TokenInv, Lifetimes, Library
      <3>3. CASE pstate[created] = "alive" /\ pstate'[created] = "dying"
        BY <2>1, <2>3, <3>3 DEF TokenInv, Lifetimes, Library
      <3> QED
        BY <1>1, <3>1, <3>2, <3>3
    <2> QED
      BY <2>2, <2>3
  <1>4. References'
    <2>1. ASSUME NEW p \in 0..MaxPayloads, p # 0, pstate[p] = "alive",
                 \/ mGlobal' = p
                 \/ \E u \in Users : held'[u] = p
                 \/ \E t \in Tasks : captured'[t] = p
          PROVE  pstate'[p] = "alive"
      BY <1>1, <2>1 DEF Payloads
    <2>2. /\ mGlobal \in 0..MaxPayloads
          /\ \A u \in Users : held[u] \in 0..MaxPayloads
          /\ \A t \in Tasks : captured[t] \in 0..MaxPayloads
      BY DEF TokenInv, TypeOK
    <2>3. mGlobal' # 0 => pstate'[mGlobal'] = "alive"
      BY <2>1, <2>2 DEF TokenInv, References
    <2>4. ASSUME NEW u \in Users, held'[u] # 0
          PROVE  pstate'[held'[u]] = "alive"
      <3>1. held'[u] = held[u] /\ pstate[held[u]] = "alive"
        BY <2>4 DEF TokenInv, References
      <3> QED
        BY <2>1, <2>2, <2>4, <3>1
    <2>5. ASSUME NEW t \in Tasks, captured'[t] # 0
          PROVE  pstate'[captured'[t]] = "alive"
      <3>1. captured'[t] = captured[t] /\ pstate[captured[t]] = "alive"
        BY <2>5 DEF TokenInv, References
      <3> QED
        BY <2>1, <2>2, <2>5, <3>1
    <2> QED
      BY <2>3, <2>4, <2>5 DEF References
  <1> QED
    BY <1>2, <1>3, <1>4

-----------------------------------------------------------------------------
\* A new payload starts the library again.
LEMMA NewPayloadInv ==
    ASSUME TokenInv, PoolTypeOK', ~Overlap, ~WeakAlive, MayStart, NEW p \in Payloads,
           NewPayload(p), pstate' = [pstate EXCEPT ![p] = "alive"],
           held' \in [Users -> 0..MaxPayloads],
           \A u \in Users : held'[u] \in {p, held[u]},
           UNCHANGED <<mMutex, captured>>
    PROVE  TokenInv'
  <1>1. Library("done") /\ (created # 0 => pstate[created] = "done")
    BY RestartIsDown
  <1>2. /\ p = created + 1 /\ created' = p /\ mGlobal' = p /\ mWeak' = p
        /\ mInitialized' = TRUE /\ Spawn
    BY <1>1 DEF NewPayload, Library
  <1>3. /\ pstate' \in [Payloads -> {"none", "alive", "dying", "cleaning", "done"}]
        /\ pstate'[p] = "alive" /\ \A q \in Payloads \ {p} : pstate'[q] = pstate[q]
    BY DEF TokenInv, TypeOK
  <1>4. p \in 0..MaxPayloads /\ p # 0 /\ p \in Nat /\ created \in Nat
    BY InitAssumption DEF Payloads, TokenInv, TypeOK
  <1>5. TypeOK'
    BY <1>2, <1>3, <1>4 DEF TokenInv, TypeOK
  <1>6. Lifetimes'
    <2>1. ASSUME NEW q \in Payloads
          PROVE  /\ q < created' => pstate'[q] = "done"
                 /\ q > created' => pstate'[q] = "none"
      <3>1. q \in Nat /\ q # 0
        BY InitAssumption DEF Payloads
      <3>2. /\ q < p => q # p /\ (q < created \/ q = created)
            /\ q > p => q # p /\ q > created
        BY <1>2, <1>4, <3>1
      <3>3. /\ q < created => pstate[q] = "done"
            /\ q > created => pstate[q] = "none"
        BY DEF TokenInv, Lifetimes
      <3> QED
        BY <1>1, <1>2, <1>3, <3>1, <3>2, <3>3
    <2>2. mInitialized' /\ mMutex' = 0 /\ jpc' = "idle"
      BY <1>1, <1>2 DEF Library, Spawn
    <2>3. (IF created = 0 THEN "done" ELSE pstate[created])' = "alive"
      BY <1>2, <1>3, <1>4
    <2> QED
      BY <1>2, <2>1, <2>2, <2>3 DEF Lifetimes, Library
  <1>7. References'
    <2>1. \A q \in Payloads : pstate[q] = "alive" => pstate'[q] = "alive"
      BY <1>3
    <2>2. /\ \A u \in Users : held[u] \in 0..MaxPayloads
          /\ \A t \in Tasks : captured[t] \in 0..MaxPayloads
      BY DEF TokenInv, TypeOK
    <2>3. \A u \in Users : held[u] # 0 => pstate'[held[u]] = "alive"
      BY <2>1, <2>2 DEF TokenInv, References, Payloads
    <2>4. \A t \in Tasks : captured[t] # 0 => pstate'[captured[t]] = "alive"
      BY <2>1, <2>2 DEF TokenInv, References, Payloads
    <2> QED
      BY <1>2, <1>3, <2>3, <2>4 DEF References
  <1>8. ThreadsGone'
    BY <1>1, <1>2 DEF ThreadsGone, Spawn, Library
  <1> QED
    BY <1>5, <1>6, <1>7, <1>8 DEF TokenInv

\* An object takes a token.
LEMMA UserTokenInv ==
    ASSUME TokenInv, PoolTypeOK', ~Overlap, NEW u \in Users, UserToken(u) PROVE TokenInv'
  <1>1. CASE WeakAlive /\ held' = [held EXCEPT ![u] = mWeak]
             /\ UNCHANGED <<poolVars, mGlobal, mWeak, mInitialized, created, pstate>>
    <2>1. UNCHANGED <<mMutex, captured>>
      BY DEF UserToken
    <2>2. held' \in [Users -> 0..MaxPayloads] /\ mWeak \in 0..MaxPayloads
      BY <1>1 DEF TokenInv, TypeOK
    <2>3. \A v \in Users : held'[v] \in {mWeak, held[v]}
      BY <1>1 DEF TokenInv, TypeOK
    <2>4. TypeOK'
      BY <1>1, <2>1, <2>2 DEF TokenInv, TypeOK
    <2>5. References'
      BY <1>1, <2>1, <2>3 DEF TokenInv, References, WeakAlive
    <2> QED
      BY <1>1, <2>1, <2>4, <2>5 DEF TokenInv, ThreadsGone, Lifetimes, Library, poolVars
  <1>2. ASSUME ~WeakAlive, MayStart, NEW p \in Payloads, NewPayload(p),
               held' = [held EXCEPT ![u] = p], pstate' = [pstate EXCEPT ![p] = "alive"]
        PROVE  TokenInv'
    <2>1. p \in 0..MaxPayloads /\ held \in [Users -> 0..MaxPayloads]
      BY DEF Payloads, TokenInv, TypeOK
    <2>2. /\ held' \in [Users -> 0..MaxPayloads]
          /\ \A v \in Users : held'[v] \in {p, held[v]}
      BY <1>2, <2>1
    <2>3. UNCHANGED <<mMutex, captured>>
      BY DEF UserToken
    <2> QED
      BY <1>2, <2>2, <2>3, NewPayloadInv
  <1> QED
    BY <1>1, <1>2 DEF UserToken

\* preload() makes a payload when none is left.
LEMMA PreloadInv == ASSUME TokenInv, PoolTypeOK', ~Overlap, Preload PROVE TokenInv'
  <1>1. PICK p \in Payloads : NewPayload(p) /\ pstate' = [pstate EXCEPT ![p] = "alive"]
    BY DEF Preload
  <1>2. ~WeakAlive /\ MayStart /\ UNCHANGED <<mMutex, held, captured>>
    BY DEF Preload
  <1>3. held' \in [Users -> 0..MaxPayloads] /\ \A u \in Users : held'[u] \in {p, held[u]}
    BY <1>2 DEF TokenInv, TypeOK
  <1> QED
    BY <1>1, <1>2, <1>3, NewPayloadInv

\* Init itself, an object, or a task that ends drops its token.
LEMMA DropInv ==
    ASSUME TokenInv, PoolTypeOK',
           \/ Cleanup
           \/ \E u \in Users : ReleaseToken(u)
           \/ \E w \in Workers : FinishTask(w)
    PROVE  TokenInv'
  <1>1. /\ mGlobal \in 0..MaxPayloads /\ 0 \in 0..MaxPayloads
        /\ held \in [Users -> 0..MaxPayloads]
        /\ captured \in [Tasks -> 0..MaxPayloads]
    BY InitAssumption DEF TokenInv, TypeOK
  <1>2. ASSUME mGlobal' \in {0, mGlobal}, held' \in [Users -> 0..MaxPayloads],
               captured' \in [Tasks -> 0..MaxPayloads],
               pstate' = Expire(pstate, mGlobal', held', captured'),
               \A u \in Users : held'[u] \in {0, held[u]},
               \A t \in Tasks : captured'[t] \in {0, captured[t]},
               UNCHANGED <<mWeak, mInitialized, mMutex, created, due, later, jpc>>,
               ThreadsGone'
        PROVE  TokenInv'
    <2>1. /\ Lifetimes' /\ References'
          /\ pstate' \in [Payloads -> {"none", "alive", "dying", "cleaning", "done"}]
      BY <1>2, ExpireInv
    <2>2. TypeOK'
      BY <1>1, <1>2, <2>1 DEF TokenInv, TypeOK
    <2> QED
      BY <1>2, <2>1, <2>2 DEF TokenInv
  <1>3. CASE Cleanup
    <2>1. /\ mGlobal' = 0 /\ pstate' = Expire(pstate, 0, held, captured)
          /\ UNCHANGED <<poolVars, mWeak, mInitialized, mMutex, created, held, captured>>
      BY <1>3 DEF Cleanup
    <2>2. ThreadsGone' /\ UNCHANGED <<due, later, jpc>>
      BY <2>1 DEF TokenInv, ThreadsGone, poolVars
    <2>3. pstate' = Expire(pstate, mGlobal', held', captured')
      BY <2>1
    <2> QED
      BY <1>1, <1>2, <2>1, <2>2, <2>3
  <1>4. ASSUME NEW u \in Users, ReleaseToken(u) PROVE TokenInv'
    <2>1. /\ held' = [held EXCEPT ![u] = 0]
          /\ pstate' = Expire(pstate, mGlobal, held', captured)
          /\ UNCHANGED <<poolVars, mGlobal, mWeak, mInitialized, mMutex, created, captured>>
      BY <1>4 DEF ReleaseToken
    <2>2. ThreadsGone' /\ UNCHANGED <<due, later, jpc>>
      BY <2>1 DEF TokenInv, ThreadsGone, poolVars
    <2>3. held' \in [Users -> 0..MaxPayloads] /\ \A v \in Users : held'[v] \in {0, held[v]}
      BY <1>1, <2>1
    <2>4. pstate' = Expire(pstate, mGlobal', held', captured')
      BY <2>1
    <2> QED
      BY <1>1, <1>2, <2>1, <2>2, <2>3, <2>4
  <1>5. ASSUME NEW w \in Workers, FinishTask(w) PROVE TokenInv'
    <2>1. /\ wpc[w] = "task"
          /\ UNCHANGED <<due, later, jpc, mGlobal, mWeak, mInitialized, mMutex, created, held>>
          /\ captured' = [t \in Tasks |-> IF t \in wtask[w] THEN 0 ELSE captured[t]]
          /\ pstate' = Expire(pstate, mGlobal, held, captured')
      BY <1>5 DEF FinishTask, EndTask
    <2>2. ThreadsGone'
      BY <2>1 DEF TokenInv, ThreadsGone
    <2>3. captured' \in [Tasks -> 0..MaxPayloads] /\ \A t \in Tasks : captured'[t] \in {0, captured[t]}
      BY <1>1, <2>1
    <2>4. pstate' = Expire(pstate, mGlobal', held', captured')
      BY <2>1
    <2> QED
      BY <1>1, <1>2, <2>1, <2>2, <2>3, <2>4
  <1> QED
    BY <1>3, <1>4, <1>5

\* A task is scheduled, with a token of its scheduler or none: the scheduler's
\* own shows that the library is up.
LEMMA CaptureInv ==
    ASSUME TokenInv, PoolTypeOK',
           \/ \E u \in Users, t \in Tasks : UserSchedule(u, t)
           \/ \E w \in Workers, c \in Closers : CloseTask(w, c)
    PROVE  TokenInv'
  <1>1. ASSUME NEW t \in Tasks, NEW p \in 0..MaxPayloads, NEW q \in 0..MaxPayloads,
               p # 0, pstate[p] = "alive", q \in {0, p}, Schedule(t),
               captured' = [captured EXCEPT ![t] = q],
               UNCHANGED <<mGlobal, mWeak, mInitialized, mMutex, created, pstate, held>>
        PROVE  TokenInv'
    <2>1. p \in Payloads
      BY <1>1 DEF Payloads
    <2>2. p = created /\ created # 0 /\ Library(pstate[p])
      BY <1>1, <2>1, LastLives
    <2>3. mInitialized /\ mMutex = 0 /\ jpc = "idle" /\ jpc' = jpc
      BY <1>1, <2>2 DEF Library, Schedule
    <2>4. /\ captured' \in [Tasks -> 0..MaxPayloads]
          /\ \A s \in Tasks : captured'[s] \in {0, p, captured[s]}
      BY <1>1 DEF TokenInv, TypeOK
    <2>5. TypeOK'
      BY <1>1, <2>4 DEF TokenInv, TypeOK
    <2>6. Lifetimes'
      BY <1>1, <2>2, <2>3 DEF TokenInv, Lifetimes, Library
    <2>7. References'
      BY <1>1, <2>4 DEF TokenInv, References
    <2>8. ThreadsGone'
      BY <1>1, <2>3 DEF ThreadsGone
    <2> QED
      BY <2>5, <2>6, <2>7, <2>8 DEF TokenInv
  <1>2. ASSUME NEW u \in Users, NEW t \in Tasks, UserSchedule(u, t) PROVE TokenInv'
    <2>1. /\ held[u] # 0 /\ pstate[held[u]] = "alive" /\ held[u] \in 0..MaxPayloads
          /\ 0 \in 0..MaxPayloads
      BY <1>2, InitAssumption DEF UserSchedule, TokenInv, TypeOK, References
    <2>2. /\ Schedule(t)
          /\ UNCHANGED <<mGlobal, mWeak, mInitialized, mMutex, created, pstate, held>>
          /\ \/ captured' = [captured EXCEPT ![t] = held[u]]
             \/ captured' = [captured EXCEPT ![t] = 0]
      BY <1>2 DEF UserSchedule
    <2> QED
      BY <1>1, <2>1, <2>2
  <1>3. ASSUME NEW w \in Workers, NEW c \in Closers, CloseTask(w, c) PROVE TokenInv'
    <2>1. /\ mWeak # 0 /\ pstate[mWeak] = "alive" /\ mWeak \in 0..MaxPayloads
          /\ Teardown[c] \in Tasks
      BY <1>3, InitAssumption DEF CloseTask, WeakAlive, TokenInv, TypeOK
    <2>2. /\ Schedule(Teardown[c])
          /\ UNCHANGED <<mGlobal, mWeak, mInitialized, mMutex, created, pstate, held>>
          /\ captured' = [captured EXCEPT ![Teardown[c]] = mWeak]
      BY <1>3 DEF CloseTask
    <2> QED
      BY <1>1, <2>1, <2>2
  <1> QED
    BY <1>2, <1>3

\* The cleanup thread of a payload takes the lock: nothing has started the
\* library again, so that it joins the pool.
LEMMA CleanupBeginInv ==
    ASSUME TokenInv, PoolTypeOK', NEW p \in Payloads, CleanupBegin(p) PROVE TokenInv'
  <1>1. pstate[p] = "dying" /\ UNCHANGED <<mGlobal, mWeak, created, held, captured>>
    BY DEF CleanupBegin
  <1>2. p = created /\ created # 0 /\ Library(pstate[p])
    BY <1>1, LastLives
  <1>3. mInitialized /\ mMutex = 0 /\ jpc = "idle"
    BY <1>1, <1>2 DEF Library
  <1>4. mGlobal = 0
    <2>1. mGlobal # 0 => mGlobal = created /\ pstate[mGlobal] = "alive"
      BY TokensOfLast DEF TokenInv, References
    <2> QED
      BY <1>1, <1>2, <2>1
  <1>5. /\ mInitialized' = FALSE /\ mMutex' = p
        /\ pstate' = [pstate EXCEPT ![p] = "cleaning"] /\ JoinBegin
    BY <1>3, <1>4 DEF CleanupBegin
  <1>6. /\ pstate' \in [Payloads -> {"none", "alive", "dying", "cleaning", "done"}]
        /\ pstate'[p] = "cleaning" /\ \A q \in Payloads \ {p} : pstate'[q] = pstate[q]
    BY <1>5 DEF TokenInv, TypeOK
  <1>7. p \in 0..MaxPayloads /\ p \in Nat /\ p # 0
    BY InitAssumption DEF Payloads
  <1>8. TypeOK'
    BY <1>1, <1>5, <1>6, <1>7 DEF TokenInv, TypeOK
  <1>9. Lifetimes'
    <2>1. \A q \in Payloads : /\ q < created => pstate'[q] = "done"
                              /\ q > created => pstate'[q] = "none"
      BY <1>2, <1>6, <1>7 DEF TokenInv, Lifetimes
    <2>2. jpc' # "idle"
      BY <1>5 DEF JoinBegin
    <2> QED
      BY <1>1, <1>2, <1>5, <1>6, <2>1, <2>2 DEF TokenInv, Lifetimes, Library
  <1>10. References'
    <2>1. \A q \in Payloads : pstate[q] = "alive" => pstate'[q] = "alive"
      BY <1>1, <1>6
    <2>2. /\ \A u \in Users : held[u] \in 0..MaxPayloads
          /\ \A t \in Tasks : captured[t] \in 0..MaxPayloads
      BY DEF TokenInv, TypeOK
    <2>3. \A u \in Users : held[u] # 0 => pstate'[held[u]] = "alive"
      BY <2>1, <2>2 DEF TokenInv, References, Payloads
    <2>4. \A t \in Tasks : captured[t] # 0 => pstate'[captured[t]] = "alive"
      BY <2>1, <2>2 DEF TokenInv, References, Payloads
    <2> QED
      BY <1>1, <1>4, <2>3, <2>4 DEF References
  <1>11. ThreadsGone'
    BY <1>5 DEF ThreadsGone, JoinBegin
  <1> QED
    BY <1>8, <1>9, <1>10, <1>11 DEF TokenInv

\* The pool is joined and cleared, and the cleanup ends with the library down.
LEMMA CleanupEndInv ==
    ASSUME TokenInv, PoolTypeOK', NEW p \in Payloads, CleanupEnd(p) PROVE TokenInv'
  <1>1. /\ pstate[p] = "cleaning" /\ mMutex' = 0
        /\ UNCHANGED <<mGlobal, mWeak, mInitialized, created, held>>
        /\ captured' = [t \in Tasks |-> IF t \in Queued THEN 0 ELSE captured[t]]
        /\ pstate' = [Expire(pstate, mGlobal, held, captured') EXCEPT ![p] = "done"]
    BY DEF CleanupEnd
  <1>2. jpc = "clear" /\ jpc' = "idle" /\ due' = <<>> /\ later' = {} /\ UNCHANGED wpc
    BY DEF CleanupEnd, Clear
  <1>3. p = created /\ created # 0 /\ Library(pstate[p])
    BY <1>1, LastLives
  <1>4. ~mInitialized
    BY <1>1, <1>3 DEF Library
  <1>5. \A q \in Payloads : pstate[q] # "alive"
    BY <1>1, <1>3, LastLives
  <1>6. /\ mGlobal = 0
        /\ \A u \in Users : held[u] = 0
        /\ \A t \in Tasks : captured[t] = 0
    <2>1. pstate[created] # "alive"
      BY <1>1, <1>3
    <2> QED
      BY <2>1, TokensOfLast DEF TokenInv, References
  <1>7. pstate' = [pstate EXCEPT ![p] = "done"]
    <2>1. Expire(pstate, mGlobal, held, captured') = [q \in Payloads |-> pstate[q]]
      BY <1>5 DEF Expire
    <2>2. pstate = [q \in Payloads |-> pstate[q]]
      BY DEF TokenInv, TypeOK
    <2> QED
      BY <1>1, <2>1, <2>2
  <1>8. /\ pstate' \in [Payloads -> {"none", "alive", "dying", "cleaning", "done"}]
        /\ pstate'[p] = "done" /\ \A q \in Payloads \ {p} : pstate'[q] = pstate[q]
    BY <1>7 DEF TokenInv, TypeOK
  <1>9. p \in Nat /\ p # 0 /\ 0 \in 0..MaxPayloads
    BY InitAssumption DEF Payloads
  <1>10. captured' \in [Tasks -> 0..MaxPayloads] /\ \A t \in Tasks : captured'[t] = 0
    BY <1>1, <1>6, <1>9 DEF TokenInv, TypeOK
  <1>11. TypeOK'
    BY <1>1, <1>8, <1>9, <1>10 DEF TokenInv, TypeOK
  <1>12. Lifetimes'
    <2>1. \A q \in Payloads : /\ q < created => pstate'[q] = "done"
                              /\ q > created => pstate'[q] = "none"
      BY <1>3, <1>8, <1>9 DEF TokenInv, Lifetimes
    <2> QED
      BY <1>1, <1>2, <1>3, <1>4, <1>8, <2>1 DEF TokenInv, Lifetimes, Library
  <1>13. References'
    BY <1>1, <1>6, <1>10 DEF References
  <1>14. ThreadsGone'
    BY <1>1, <1>2, <1>4 DEF TokenInv, ThreadsGone
  <1> QED
    BY <1>11, <1>12, <1>13, <1>14 DEF TokenInv

\* The steps of the pool: its workers are gone while the library is down, and
\* join() is under way only during a cleanup.
LEMMA PoolStepInv == ASSUME TokenInv, PoolTypeOK', PoolStep PROVE TokenInv'
  <1>1. UNCHANGED <<mGlobal, mWeak, mInitialized, mMutex, created, pstate, held, captured>>
    BY DEF PoolStep, initVars
  <1>2. TypeOK' /\ References'
    BY <1>1 DEF TokenInv, TypeOK, References
  <1>3. Library("done") => jpc = "idle" /\ ~mInitialized /\ due = <<>> /\ later = {}
    BY DEF Library
  <1>4. CASE \E w \in Workers : PoolWorker(w)
    <2>1. /\ jpc' = jpc
          /\ \E w \in Workers : wpc[w] # "none"
      BY <1>4 DEF PoolWorker, StartRun, Dequeue, Wake, EndRun
    <2>2. ~(jpc = "clear" \/ (jpc = "idle" /\ ~mInitialized))
      BY <2>1 DEF TokenInv, ThreadsGone
    <2>3. Lifetimes'
      <3>1. ~Library("done")
        BY <1>3, <2>2
      <3> QED
        BY <1>1, <2>1, <3>1 DEF TokenInv, Lifetimes, Library
    <2> QED
      BY <1>1, <1>2, <2>1, <2>2, <2>3 DEF TokenInv, ThreadsGone
  <1>5. CASE \E t \in Delayed : FallDue(t)
    <2>1. /\ jpc' = jpc /\ later # {}
          /\ \A w \in Workers : wpc[w] = "none" => wpc'[w] = "none"
      BY <1>5 DEF FallDue, Earliest
    <2>2. Lifetimes'
      <3>1. ~Library("done")
        BY <1>3, <2>1
      <3> QED
        BY <1>1, <2>1, <3>1 DEF TokenInv, Lifetimes, Library
    <2> QED
      BY <1>1, <1>2, <2>1, <2>2 DEF TokenInv, ThreadsGone
  <1>6. CASE JoinMark \/ JoinEnd
    <2>1. /\ jpc # "idle" /\ jpc' # "idle" /\ UNCHANGED <<due, later>>
          /\ jpc' = "clear" => \A w \in Workers : wpc'[w] = "none"
      BY <1>6 DEF JoinMark, JoinEnd
    <2>2. Lifetimes'
      BY <1>1, <2>1 DEF TokenInv, Lifetimes, Library
    <2> QED
      BY <1>2, <2>1, <2>2 DEF TokenInv, ThreadsGone
  <1> QED
    BY <1>4, <1>5, <1>6 DEF PoolStep

-----------------------------------------------------------------------------
\* The inductive invariant holds at first and is preserved by every step, of an
\* application that does not overlap lifetimes.
LEMMA Initially == Init => Inv
  <1> SUFFICES ASSUME Init PROVE Inv
    OBVIOUS
  <1>1. PoolInv
    BY PoolInitial DEF Init
  <1>2. 0 \in 0..MaxPayloads /\ \A p \in Payloads : p \in Nat /\ ~(p < 0)
    BY InitAssumption DEF Payloads
  <1>3. TypeOK
    BY <1>1, <1>2 DEF Init, TypeOK, PoolInv
  <1>4. ThreadsGone /\ References
    BY DEF Init, PoolInit, ThreadsGone, References
  <1>5. Library("done")
    BY DEF Init, PoolInit, Library
  <1>6. Lifetimes
    BY <1>2, <1>5 DEF Init, Lifetimes
  <1> QED
    BY <1>1, <1>3, <1>4, <1>6 DEF Inv, TokenInv

\* Every step leaves the invariant when lifetimes do not overlap.
LEMMA Inductive == ASSUME ~Overlap PROVE Inv /\ [Next]_vars => Inv'
  <1> SUFFICES ASSUME Inv, [Next]_vars PROVE Inv'
    OBVIOUS
  <1>1. PoolInv /\ TokenInv
    BY DEF Inv
  <1>2. PoolInv' /\ PoolTypeOK'
    BY <1>1, PoolSteps, PoolInductive DEF PoolInv
  <1>3. CASE UNCHANGED vars
    <2>1. UNCHANGED <<due, later, wpc, jpc, mGlobal, mWeak, mInitialized, mMutex, created,
                      pstate, held, captured>>
      BY <1>3 DEF vars, poolVars, initVars
    <2>2. TypeOK'
      BY <1>1, <1>2, <2>1 DEF TokenInv, TypeOK
    <2>3. ThreadsGone' /\ Lifetimes' /\ References'
      BY <1>1, <2>1 DEF TokenInv, ThreadsGone, Lifetimes, References, Library
    <2> QED
      BY <1>2, <2>2, <2>3 DEF Inv, TokenInv
  <1>4. CASE Next
    <2>1. TokenInv'
      BY <1>1, <1>2, <1>4, PoolStepInv, UserTokenInv, PreloadInv, DropInv, CaptureInv,
         CleanupBeginInv, CleanupEndInv DEF Next
    <2> QED
      BY <1>2, <2>1 DEF Inv
  <1> QED
    BY <1>3, <1>4

\* The pool and the tokens stay consistent when lifetimes do not overlap: the invariant of
\* the two theorems below.
THEOREM Invariance == ASSUME ~Overlap PROVE Spec => []Inv
  <1> QED
    BY Initially, Inductive, PTL DEF Spec

\* While an object or a task of the pool holds a token, the library is up and
\* its pool neither joined nor gone.
THEOREM TokensKeepLibraryUp == ASSUME ~Overlap PROVE Spec => []TokenKeepsLibrary
  <1>1. Inv => TokenKeepsLibrary
    <2> SUFFICES ASSUME Inv, TokenHeld PROVE mInitialized /\ jpc = "idle"
      BY DEF TokenKeepsLibrary
    <2>1. TokenInv
      BY DEF Inv
    <2>2. PICK p \in 0..MaxPayloads : p # 0 /\ pstate[p] = "alive"
      BY <2>1 DEF TokenHeld, TokenInv, TypeOK, References
    <2>3. p \in Payloads
      BY <2>2 DEF Payloads
    <2>4. Library("alive")
      BY <2>1, <2>2, <2>3, LastLives
    <2> QED
      BY <2>4 DEF Library
  <1> QED
    BY <1>1, Invariance, PTL

\* The future of Cleanup() means that the library is down, and a worker waits
\* only when each task has a worker of its own that comes for it.
THEOREM LibrarySound == ASSUME ~Overlap PROVE Spec => []LibraryInv
  <1>1. Inv => LibraryInv
    <2> SUFFICES ASSUME Inv PROVE LibraryInv
      OBVIOUS
    <2>1. TokenInv /\ PoolInv
      BY DEF Inv
    <2>2. FutureMeansDown
      <3> SUFFICES ASSUME created # 0, pstate[created] = "done"
                   PROVE  /\ ~mInitialized /\ Queued = {}
                          /\ \A w \in Workers : wpc[w] = "none"
        BY DEF FutureMeansDown
      <3>1. ~mInitialized /\ jpc = "idle" /\ due = <<>> /\ later = {}
        BY <2>1, LibraryNow DEF Library
      <3>2. Queued = {}
        BY <3>1 DEF Queued, ToSet
      <3> QED
        BY <2>1, <3>1, <3>2 DEF TokenInv, ThreadsGone
    <2>3. WorkConserving
      <3>1. Count(wpc, ComingPhases) =
                Cardinality({w \in Workers : wpc[w] \in {"spawned", "loop", "notified"}})
        BY DEF Count, At, ComingPhases
      <3> QED
        BY <2>1, <3>1 DEF WorkConserving, WorkersAt, PoolInv, Conserving
    <2> QED
      BY <2>1, <2>2, <2>3 DEF LibraryInv, TokenInv
  <1> QED
    BY <1>1, Invariance, PTL
=============================================================================
