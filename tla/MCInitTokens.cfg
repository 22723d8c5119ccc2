\* Two workers, two objects, one closing task with its teardown and two timers;
\* three payloads: the library is started, torn down and started again.
CONSTANTS
    close1 = close1
    stop1 = stop1
    timer1 = timer1
    timer2 = timer2
    w1 = w1
    w2 = w2
    Workers = {w1, w2}
    u1 = u1
    u2 = u2
    Users = {u1, u2}
    Tasks <- MCTasks
    Delayed <- MCDelayed
    DueOrder <- MCDueOrder
    Closers <- MCClosers
    Teardown <- MCTeardown
    MaxPayloads = 3
    Overlap = FALSE
SPECIFICATION Spec
INVARIANTS LibraryInv TokenKeepsLibrary
PROPERTIES LibraryProgress
CHECK_DEADLOCK FALSE
