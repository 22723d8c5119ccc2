---------------------------- MODULE MCInitTokens ----------------------------
(* Model-checking instance of InitTokens and, through it, of ThreadPool. *)
EXTENDS InitTokens

CONSTANTS close1, stop1, timer1, timer2, w1, w2, u1, u2

MCTasks == {close1, stop1, timer1, timer2}
MCDelayed == {timer1, timer2}
MCDueOrder == [t \in MCDelayed |-> IF t = timer1 THEN 1 ELSE 2]
MCClosers == {close1}
MCTeardown == [c \in MCClosers |-> stop1]
=============================================================================
