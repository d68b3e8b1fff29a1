\* Up to three one-byte arguments, so that empty arguments occur first, in
\* the middle and at the end, one or two at a time.
CONSTANTS
    Chars = {"a", "A"}
    EnvNames = {"A"}
    MaxArgs = 3
    MaxWord = 1
SPECIFICATION Spec
INVARIANT CmdlineRoundTrip
\* Each function is called once.
CHECK_DEADLOCK FALSE
