\* Two messages, a reset of the stream of one, a send buffer of one message, sends
\* nested one level deep in callbacks, and two threads of usrsctp.
CONSTANTS
    NoItem = NoItem
    m1 = m1
    m2 = m2
    r1 = r1
    up1 = up1
    up2 = up2
    Items = {m1, m2, r1}
    Resets = {r1}
    StreamOf <- MCStreamOf
    SizeOf <- MCSizeOf
    Capacity = 1
    Upcallers = {up1, up2}
    MaxDepth = 2
SPECIFICATION Spec
INVARIANTS SendInv BufferedAccounted
 
CHECK_DEADLOCK FALSE
