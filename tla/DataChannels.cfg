\* A channel created by each peer, or two by the same one, before or after the
\* association is up.
CONSTANTS
    a = a
    b = b
    a1 = a1
    a2 = a2
    b1 = b1
    ia1 = ia1
    ib1 = ib1
    ib2 = ib2
    Peers = {a, b}
    Active = a
    Outgoing = {a1, a2, b1}
    Scenarios = {{a1, b1}, {a1, a2}}
    Incoming = {ia1, ib1, ib2}
    PeerOf <- MCPeerOf
    Unordered = {a1}
    MaxStream = 2
    Talkers = {a1, b1}
    MaxData = 1
    Droppable = {b1}
    MayOverlapConnect = FALSE
SPECIFICATION Spec
 
PROPERTIES EventuallyOpen 
CHECK_DEADLOCK FALSE
