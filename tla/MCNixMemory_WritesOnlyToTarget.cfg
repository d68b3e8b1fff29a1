CONSTANTS
    t1 = t1
    t2 = t2
    a1 = a1
    a2 = a2
    v1 = v1
    v2 = v2
    Threads <- MCThreads
    Addr <- MCAddr
    Val <- MCVal
    MaxInc = 2
    MaxOps = 1
    NoThread = NoThread
    NoAddr = NoAddr
    NoVal = NoVal
SPECIFICATION Spec
PROPERTY WritesOnlyToTarget
\* Each thread makes at most MaxOps calls and at most MaxInc processes ever
\* hold the pid, so every behaviour ends in a state with nothing left to do.
CHECK_DEADLOCK FALSE
