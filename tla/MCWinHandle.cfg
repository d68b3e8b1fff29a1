\* Two pids, so that a third process must reuse one; two handle slots, so
\* that the table fills up and a slot is reused after a close, and a
\* snapshot may find the table full.
CONSTANTS
    n1 = n1
    n2 = n2
    Pids = {4, 8}
    Names = {n1, n2}
    MaxProcs = 3
    HandleVals = {1, 2}
    MaxCurrent = 1
    NoObj = NoObj
SPECIFICATION Spec
INVARIANT HandleOwnership
PROPERTIES NotFoundMeansAbsent FromNameReturns
\* The kernel creates at most MaxProcs processes; a panic ends the debugger.
CHECK_DEADLOCK FALSE
