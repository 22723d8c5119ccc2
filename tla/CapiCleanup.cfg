CONSTANTS
    App = {"app1", "app2"}
    Net = "net"
    Proc = "proc"
    Server = "server thread"
    Objects = {"pc", "out", "in", "track", "server", "client"}
    KindOf <- MCKindOf
    Owner <- MCOwner
    Plans <- CleanupPlans
    RecvQueueLimit = 2
    MessageSize = 2
    None = None
SPECIFICATION Spec
INVARIANTS NoSelfDeadlock

CHECK_DEADLOCK FALSE
