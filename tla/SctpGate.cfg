\* Two packets, so that one may arrive while the transport is being destroyed.
CONSTANT Packets = 2
SPECIFICATION GateSpec
INVARIANTS InputAfterWrite WriteWakes
CHECK_DEADLOCK FALSE
