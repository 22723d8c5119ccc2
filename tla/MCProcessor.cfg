\* Three workers, up to five tasks: the queue behind the pending task reaches
\* length four while two workers are in different phases.
CONSTANTS
    w1 = w1
    w2 = w2
    w3 = w3
    Workers = {w1, w2, w3}
    MaxTasks = 5
SPECIFICATION Spec
INVARIANTS NothingLost
PROPERTIES SerialExecution
