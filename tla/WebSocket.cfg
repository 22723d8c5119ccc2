CONSTANTS
    App = "app"
    Server = "server"
    Poll = "poll"
    Worker = "worker"
    Timer = "timer"
    Teardown = "teardown"
    Plans <- MCPlans
    RecvQueueLimit = 2
    ShortLength = 2
    Key = 1
SPECIFICATION Spec
INVARIANTS TypeOK WrittenInOrder ReceivedInOrder
PROPERTIES  CallsReturn Released
CHECK_DEADLOCK FALSE
