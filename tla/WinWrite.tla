------------------------------ MODULE WinWrite ------------------------------
(***************************************************************************)
(* Writing another process's memory on Windows: write_process_memory       *)
(* (src/src/os/windows/mod.rs, lines 318-345), reached through            *)
(* Process::write_memory (lines 620-623) and WriteMemory::write_memory     *)
(* (lines 391-399).                                                        *)
(*                                                                         *)
(* The call relaxes the protection of the pages it writes to               *)
(* PAGE_EXECUTE_READWRITE, writes, and restores.  VirtualProtectEx         *)
(* reports the previous protection of the FIRST page of the range only,    *)
(* and fails, leaving old_protect at 0, when the range crosses two         *)
(* allocations.  A Process is shared between threads (spec section 5), so  *)
(* several threads may be inside the call at once.  Memory contents are    *)
(* left out: what the properties tell apart is the protection of pages.    *)
(***************************************************************************)
EXTENDS Integers, FiniteSets

CONSTANTS
    Writers,    \* threads that call write_memory on the same Process
    NPages,     \* pages 1..NPages of the target
    InitProt,   \* protection of each page before any write
    AllocOf,    \* allocation (VirtualAlloc region) each page belongs to
    NoProt      \* old_protect still 0: the first VirtualProtectEx failed

Pages == 1..NPages
Prot == {"R", "RW", "RX", "RWX"}
PAGE_EXECUTE_READWRITE == "RWX"

ASSUME WinWriteAssumption ==
    /\ NPages \in Nat \ {0}
    /\ InitProt \in [Pages -> Prot]
    /\ AllocOf \in [Pages -> Nat]
    /\ NoProt \notin Prot

\* The data argument: a nonempty run of whole pages.
Ranges == {lo..hi : lo \in Pages, hi \in Pages} \ {{}}

\* VirtualProtectEx succeeds on a range inside one allocation.
OneAlloc(r) == \A p, q \in r : AllocOf[p] = AllocOf[q]

First(r) == CHOOSE p \in r : \A q \in r : p <= q

VARIABLES
    prot,    \* prot[p]: the current protection of page p
    pc,      \* pc[t]: "idle", "write" (line 332) or "restore" (line 339)
    rng,     \* rng[t]: the pages of t's call
    old,     \* old[t]: old_protect
    result,  \* result[t]: WriteProcessMemory's BOOL
    ret,     \* ret[t]: what t's last call returned (pages written, or 0)
    before   \* before[t]: ghost, the protection of rng[t] when t's call began

vars == <<prot, pc, rng, old, result, ret, before>>

TypeOK ==
    /\ prot \in [Pages -> Prot]
    /\ pc \in [Writers -> {"idle", "write", "restore"}]
    /\ rng \in [Writers -> Ranges]
    /\ old \in [Writers -> Prot \cup {NoProt}]
    /\ result \in [Writers -> BOOLEAN]
    /\ ret \in [Writers -> 0..NPages]
    /\ before \in [Writers -> [Pages -> Prot]]

Init ==
    /\ prot = InitProt
    /\ pc = [t \in Writers |-> "idle"]
    /\ rng = [t \in Writers |-> Pages]
    /\ old = [t \in Writers |-> NoProt]
    /\ result = [t \in Writers |-> FALSE]
    /\ ret = [t \in Writers |-> 0]
    /\ before = [t \in Writers |-> InitProt]

\* Mutant: old_protect read back after the protection was changed.
RelaxOldAfterChange(t, r) ==
    /\ pc[t] = "idle"
    /\ rng' = [rng EXCEPT ![t] = r]
    /\ before' = [before EXCEPT ![t] = prot]
    /\ old' = [old EXCEPT ![t] = IF OneAlloc(r) THEN PAGE_EXECUTE_READWRITE ELSE NoProt]
    /\ prot' = [p \in Pages |->
                  IF p \in r /\ OneAlloc(r) THEN PAGE_EXECUTE_READWRITE ELSE prot[p]]
    /\ pc' = [pc EXCEPT ![t] = "write"]
    /\ UNCHANGED <<result, ret>>

(* Lines 318-330: the call, and VirtualProtectEx(.., RWX, &old_protect),   *)
(* whose result is not checked.                                            *)
Relax(t, r) ==
    /\ pc[t] = "idle"
    /\ rng' = [rng EXCEPT ![t] = r]
    /\ before' = [before EXCEPT ![t] = prot]
    /\ IF OneAlloc(r)
         THEN /\ old' = [old EXCEPT ![t] = prot[First(r)]]
              /\ prot' = [p \in Pages |->
                            IF p \in r THEN PAGE_EXECUTE_READWRITE ELSE prot[p]]
         ELSE /\ old' = [old EXCEPT ![t] = NoProt]
              /\ UNCHANGED prot
    /\ pc' = [pc EXCEPT ![t] = "write"]
    /\ UNCHANGED <<result, ret>>

(* Lines 331-337: WriteProcessMemory.  The whole area must be accessible: *)
(* it fails on a range the relaxation could not cover, and may fail on    *)
(* one it did (a page decommitted meanwhile, a copy cut short).            *)
Write(t) ==
    /\ pc[t] = "write"
    /\ result' \in {[result EXCEPT ![t] = b] : b \in {FALSE, OneAlloc(rng[t])}}
    /\ pc' = [pc EXCEPT ![t] = "restore"]
    /\ UNCHANGED <<prot, rng, old, ret, before>>

(* Lines 338-344: VirtualProtectEx(.., old_protect, ..) over the whole      *)
(* range, then the count or 0.  With old_protect = 0 the call fails.       *)
Restore(t) ==
    /\ pc[t] = "restore"
    /\ prot' = IF old[t] # NoProt
                 THEN [p \in Pages |-> IF p \in rng[t] THEN old[t] ELSE prot[p]]
                 ELSE prot
    /\ ret' = [ret EXCEPT ![t] = IF result[t] THEN Cardinality(rng[t]) ELSE 0]
    /\ pc' = [pc EXCEPT ![t] = "idle"]
    /\ UNCHANGED <<rng, old, result, before>>

Next ==
    \E t \in Writers :
        \/ \E r \in Ranges : Relax(t, r)
        \/ Write(t)
        \/ Restore(t)

Spec == Init /\ [][Next]_vars

-----------------------------------------------------------------------------

\* Spec 4.2: write "temporarily relaxes the page protection to RWX across
\* the write and restores prior protection on all exit paths": when a call
\* returns, every page it wrote has the protection it had when it began.
ProtectionRestored ==
    [][\A t \in Writers :
         pc[t] = "restore" /\ pc'[t] = "idle" =>
            \A p \in rng[t] : prot'[p] = before[t][p]]_vars

(* What a call by the only writer does to the protections, whatever they  *)
(* are (lines 324-338): every page of its range ends at the protection the *)
(* range's FIRST page had when the call began, and every other page keeps  *)
(* its own; a call whose relax failed changes nothing.  So the spec's      *)
(* promise (ProtectionRestored) holds exactly for a range whose pages      *)
(* shared one protection.                                                  *)
RestoresFirstPage ==
    [][\A t \in Writers :
         pc[t] = "restore" /\ pc'[t] = "idle" =>
            \A p \in Pages :
               prot'[p] = IF p \in rng[t] /\ OneAlloc(rng[t])
                            THEN before[t][First(rng[t])]
                            ELSE before[t][p]]_vars

=============================================================================
