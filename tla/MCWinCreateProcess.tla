------------------------ MODULE MCWinCreateProcess ------------------------
EXTENDS WinCreateProcess, TLC

CONSTANTS p1
=============================================================================
