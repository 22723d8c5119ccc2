--------------------------- MODULE SerialExecutor ---------------------------
(***************************************************************************)
(* What impl::Processor promises its users (processor.hpp: "Processed      *)
(* tasks in order by delegating them to the thread pool"): the tasks run   *)
(* one at a time, in the order in which enqueue() accepted them, although  *)
(* any of several pool workers may run each of them.  Tasks are named by   *)
(* the position at which they were accepted: 1, 2, ...                     *)
(***************************************************************************)
EXTENDS Naturals

CONSTANT MaxTasks           \* bound on the number of tasks ever submitted

VARIABLES
    accepted,               \* number of tasks accepted so far
    begun,                  \* number of tasks that have begun
    running                 \* the task that is running, 0 when none is

execVars == <<accepted, begun, running>>

ExecInit ==
    /\ accepted = 0
    /\ begun = 0
    /\ running = 0

Submit ==
    /\ accepted < MaxTasks
    /\ accepted' = accepted + 1
    /\ UNCHANGED <<begun, running>>

\* The next task begins, if no other is running.
Begin ==
    /\ running = 0
    /\ begun < accepted
    /\ begun' = begun + 1
    /\ running' = begun + 1
    /\ UNCHANGED accepted

End ==
    /\ running # 0
    /\ running' = 0
    /\ UNCHANGED <<accepted, begun>>

ExecNext == Submit \/ Begin \/ End

ExecSafety == ExecInit /\ [][ExecNext]_execVars

ExecSpec == ExecSafety /\ WF_execVars(Begin) /\ WF_execVars(End)
=============================================================================
