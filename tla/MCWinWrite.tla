----------------------------- MODULE MCWinWrite -----------------------------
EXTENDS WinWrite, TLC

CONSTANTS w1, w2

\* Three allocations: pages 1-2, page 3 and pages 4-5.  A range such as 2..3
\* crosses two of them and makes the first VirtualProtectEx fail.
MCAlloc == [p \in 1..5 |-> CASE p < 3 -> 1 [] p = 3 -> 2 [] OTHER -> 3]
\* A code page and a read-only data page in the first allocation, a
\* read-only page, writable data pages.
MixedProt == [p \in 1..5 |-> CASE p = 1 -> "RX" [] p < 4 -> "R" [] OTHER -> "RW"]
=============================================================================
