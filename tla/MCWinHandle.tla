---------------------------- MODULE MCWinHandle ----------------------------
EXTENDS WinHandle, TLC

CONSTANTS n1, n2
=============================================================================
