\* One possible parent; paths and arguments of up to two characters, so that
\* a path holds a space, and arguments are empty, a space or a letter.
CONSTANTS
    p1 = p1
    Parents = {p1}
    MaxArgs = 2
    MaxWord = 2
    NoPpid = NoPpid
SPECIFICATION Spec
INVARIANT ResourcesReleased
\* A call returns once.
CHECK_DEADLOCK FALSE
