\* Two peers, each with a track and a data channel to negotiate, one polite; its
\* application uses two threads.
CONSTANTS
    a = a
    b = b
    ta = ta
    tb = tb
    App = App
    Peers = {a, b}
    Polite = {b}
    OtherThread = {b}
    Tracks <- MCTracks
    MaxChannels = 1
    AutoNegotiation = TRUE
SPECIFICATION Spec
INVARIANTS SignalingInv 
 
CHECK_DEADLOCK FALSE
