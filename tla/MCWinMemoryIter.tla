-------------------------- MODULE MCWinMemoryIter --------------------------
EXTENDS WinMemoryIter, TLC
=============================================================================
