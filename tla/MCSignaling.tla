---------------------------- MODULE MCSignaling ----------------------------
(* Model-checking instances of Signaling. *)
EXTENDS Signaling

CONSTANTS a, b, ta, tb

MCTracks == [p \in Peers |-> IF p = a THEN {ta} ELSE {tb}]
=============================================================================
