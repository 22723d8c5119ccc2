\* One transport of each kind, two associations; starting DTLS or SCTP may fail.
CONSTANTS
    i = i
    d = d
    s1 = s1
    s2 = s2
    None = None
    Ice = {i}
    Dtls = {d}
    Sctp = {s1, s2}
    Throws = {"dtls", "sctp"}
    Plans <- MCPlans
SPECIFICATION Spec
PROPERTIES LifecycleSafety  AllReleased
CHECK_DEADLOCK FALSE
