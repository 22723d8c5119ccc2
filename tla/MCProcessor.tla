---------------------------- MODULE MCProcessor -----------------------------
(* Model-checking instance of Processor. *)
EXTENDS Processor, TLC

CONSTANTS w1, w2, w3
=============================================================================
