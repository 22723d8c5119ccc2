----------------------------- MODULE MCSctpSend -----------------------------
(* Model-checking instance of SctpSend: a data message and a reset on one     *)
(* stream, a data message on another.                                        *)
EXTENDS SctpSend

CONSTANTS m1, m2, r1, up1, up2

MCStreamOf == [m \in Items |-> IF m = m2 THEN 2 ELSE 1]
MCSizeOf == [m \in Items |-> IF m \in Resets THEN 0 ELSE IF m = m2 THEN 2 ELSE 1]
=============================================================================
