---------------------------- MODULE MCNixMemory ----------------------------
(* Small instance of NixMemory for TLC: two threads, two addresses whose  *)
(* contents can differ, and a pid that one new process may reuse.          *)
EXTENDS NixMemory, TLC

CONSTANTS t1, t2, a1, a2, v1, v2

MCThreads == {t1, t2}
MCAddr == {a1, a2}
MCVal == {v1, v2}
=============================================================================
