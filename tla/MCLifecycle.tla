---------------------------- MODULE MCLifecycle ----------------------------
(* Model-checking instance of Lifecycle. *)
EXTENDS Lifecycle

CONSTANTS i, d, s1, s2

\* A transport may fail while the application closes and destroys the connection;
\* or a second description comes from the remote peer meanwhile.
MCPlans == {[calls |-> {"offer", "close", "destroy"}, failures |-> 1],
            [calls |-> {"offer", "renegotiate", "destroy"}, failures |-> 0]}
=============================================================================
