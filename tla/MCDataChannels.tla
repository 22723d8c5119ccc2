--------------------------- MODULE MCDataChannels ---------------------------
(* Model-checking instances of DataChannels. *)
EXTENDS DataChannels

CONSTANTS a, b, a1, a2, b1, ia1, ib1, ib2

MCPeerOf == [c \in Channels |-> IF c \in {a1, a2, ia1} THEN a ELSE b]
=============================================================================
