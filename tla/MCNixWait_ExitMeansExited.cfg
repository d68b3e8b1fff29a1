\* The wait loop against every order of kernel notifications.
CONSTANTS
    Tids <- MCTids
    FirstTid = 1
    ExitCodes = {0, 1}
    Signals <- MCSignals
    Options = {0, 1}
    NoStatus = NoStatus
SPECIFICATION Spec

PROPERTY ExitMeansExited
\* Every behaviour can stop: once all tracees are reaped wait() still returns
\* (-1 with ECHILD); a panic ends the debugger.
CHECK_DEADLOCK FALSE
