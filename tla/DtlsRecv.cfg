\* Three datagrams of any kind, a handshake of one flight, two timeouts: timers
\* overlap the handshake, its completion and the stop.
CONSTANTS
    Datagrams = 3
    Kinds = {"handshake", "data", "close", "bad"}
    Flights = 1
    MaxTimeouts = 2
SPECIFICATION DtlsSpec
INVARIANTS RecvInv
PROPERTIES EndDrains RecvProgress
CHECK_DEADLOCK FALSE
