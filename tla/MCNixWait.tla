----------------------------- MODULE MCNixWait -----------------------------
EXTENDS NixWait, TLC

\* Three thread ids: the first tracee and two it may clone.
MCTids == {1, 2, 3}
\* SIGKILL, SIGSEGV (a signal-delivery stop or a kill), SIGSTOP.
MCSignals == {9, 11, 19}
=============================================================================
