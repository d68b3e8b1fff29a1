--------------------------- MODULE WinWriteProofs ---------------------------
(***************************************************************************)
(* Proof of what write_process_memory (src/src/os/windows/mod.rs, lines   *)
(* 318-345) does to the protection of the target's pages when one thread   *)
(* writes through the Process, for any number of pages, any layout of      *)
(* allocations and any initial protections: every page of the range ends  *)
(* at the protection its first page had, the others keep theirs, and a     *)
(* failed relax changes nothing, whether WriteProcessMemory succeeded or  *)
(* not (RestoresFirstPage).  With two writers this fails: the first        *)
(* relax's RWX becomes the second call's old_protect.                      *)
(*                                                                         *)
(* RestoresFirstPage is not inductive: it speaks of one step.  The         *)
(* strengthening says what the protections are inside the call, relative   *)
(* to those the call began with: RWX over the range and the earlier ones   *)
(* elsewhere, with old_protect the first page's, when the relax succeeded; *)
(* the earlier ones everywhere, with old_protect 0, when it failed.        *)
(***************************************************************************)
EXTENDS WinWrite, TLAPS

\* The protections after a successful relax of range r from protections b.
Relaxed(b, r) == [p \in Pages |-> IF p \in r THEN PAGE_EXECUTE_READWRITE ELSE b[p]]

Typ ==
    /\ prot \in [Pages -> Prot]
    /\ pc \in [Writers -> {"idle", "write", "restore"}]
    /\ rng \in [Writers -> Ranges]
    /\ old \in [Writers -> Prot \cup {NoProt}]
    /\ before \in [Writers -> [Pages -> Prot]]

\* Inside writer w's call, the protections and old_protect.
CallInv(w) ==
    pc[w] \in {"write", "restore"} =>
        IF OneAlloc(rng[w])
          THEN old[w] = before[w][First(rng[w])] /\ prot = Relaxed(before[w], rng[w])
          ELSE old[w] = NoProt /\ prot = before[w]

IInv(w) == Typ /\ CallInv(w)

\* The first page of a range is one of its pages.
LEMMA FirstInRange ==
    ASSUME NEW r \in Ranges
    PROVE  First(r) \in r /\ r \subseteq Pages
<1>1. PICK lo \in Pages, hi \in Pages : r = lo..hi
  BY DEF Ranges
<1>2. r # {}
  BY DEF Ranges
<1>3. lo <= hi /\ lo \in Int /\ hi \in Int
  BY <1>1, <1>2 DEF Pages
<1>4. lo \in r /\ \A q \in r : lo <= q
  BY <1>1, <1>3
<1>5. First(r) \in r
  BY <1>4 DEF First
<1>6. r \subseteq Pages
  <2>1. 1 <= lo /\ hi <= NPages /\ NPages \in Int
    BY WinWriteAssumption DEF Pages
  <2> QED
    BY <1>1, <1>3, <2>1 DEF Pages
<1> QED
  BY <1>5, <1>6


LEMMA InitIInv ==
    ASSUME NEW w \in Writers
    PROVE  Init => IInv(w)
<1>1. Pages \in Ranges
  <2>1. Pages = 1..NPages /\ 1 \in Pages /\ NPages \in Pages
    BY WinWriteAssumption DEF Pages
  <2> QED
    BY <2>1 DEF Ranges
<1>2. InitProt \in [Pages -> Prot]
  BY WinWriteAssumption
<1> QED
  BY <1>1, <1>2 DEF Init, IInv, Typ, CallInv

(* One step keeps the invariant of the only writer.  A relax records the  *)
(* protections it starts from; a write changes no protection; a restore   *)
(* ends the call.                                                          *)
LEMMA NextIInv ==
    ASSUME NEW w, Writers = {w}
    PROVE  IInv(w) /\ [Next]_vars => IInv(w)'
<1> SUFFICES ASSUME IInv(w), [Next]_vars PROVE IInv(w)'
  OBVIOUS
<1>0. NoProt \notin Prot /\ PAGE_EXECUTE_READWRITE \in Prot
  BY WinWriteAssumption DEF Prot, PAGE_EXECUTE_READWRITE
<1>1. ASSUME NEW r \in Ranges, Relax(w, r)
      PROVE  IInv(w)'
  <2>1. First(r) \in Pages /\ prot[First(r)] \in Prot
    BY FirstInRange DEF IInv, Typ
  <2>2. before'[w] = prot /\ rng'[w] = r /\ pc'[w] = "write"
    BY <1>1 DEF Relax, IInv, Typ
  <2>3. Typ'
    BY <1>0, <1>1, <2>1 DEF Relax, IInv, Typ
  <2>4. CASE OneAlloc(r)
    <3>1. old'[w] = prot[First(r)] /\ prot' = Relaxed(prot, r)
      BY <1>1, <2>4 DEF Relax, IInv, Typ, Relaxed
    <3> QED
      BY <2>2, <2>3, <2>4, <3>1 DEF IInv, CallInv
  <2>5. CASE ~OneAlloc(r)
    <3>1. old'[w] = NoProt /\ prot' = prot
      BY <1>1, <2>5 DEF Relax, IInv, Typ
    <3> QED
      BY <2>2, <2>3, <2>5, <3>1 DEF IInv, CallInv
  <2> QED
    BY <2>4, <2>5
<1>2. CASE Write(w)
  BY <1>2 DEF Write, IInv, Typ, CallInv
<1>3. CASE Restore(w)
  <2>1. pc'[w] = "idle" /\ UNCHANGED <<rng, old, before>>
    BY <1>3 DEF Restore, IInv, Typ
  <2>2. prot' \in [Pages -> Prot]
    BY <1>3 DEF Restore, IInv, Typ
  <2> QED
    BY <1>3, <2>1, <2>2 DEF Restore, IInv, Typ, CallInv
<1>4. CASE UNCHANGED vars
  BY <1>4 DEF vars, IInv, Typ, CallInv, Relaxed
<1> QED
  BY <1>1, <1>2, <1>3, <1>4 DEF Next

(* Only a restore returns from a call; with the invariant before it, it   *)
(* leaves the pages as RestoresFirstPage says.                             *)
LEMMA ReturnEffect ==
    ASSUME NEW w, Writers = {w}
    PROVE  IInv(w) /\ [Next]_vars =>
              \A t \in Writers :
                 pc[t] = "restore" /\ pc'[t] = "idle" =>
                    \A p \in Pages :
                       prot'[p] = IF p \in rng[t] /\ OneAlloc(rng[t])
                                    THEN before[t][First(rng[t])]
                                    ELSE before[t][p]
<1> SUFFICES ASSUME IInv(w), [Next]_vars, pc[w] = "restore", pc'[w] = "idle",
                    NEW p \in Pages
             PROVE  prot'[p] = IF p \in rng[w] /\ OneAlloc(rng[w])
                                 THEN before[w][First(rng[w])]
                                 ELSE before[w][p]
  OBVIOUS
<1>0. NoProt \notin Prot
  BY WinWriteAssumption
<1>1. Restore(w)
  BY DEF Next, Relax, Write, Restore, vars
<1>2. prot' = IF old[w] # NoProt
                THEN [q \in Pages |-> IF q \in rng[w] THEN old[w] ELSE prot[q]]
                ELSE prot
  BY <1>1 DEF Restore
<1>3. CASE OneAlloc(rng[w])
  <2>1. First(rng[w]) \in Pages
    BY FirstInRange DEF IInv, Typ
  <2>2. old[w] = before[w][First(rng[w])] /\ prot = Relaxed(before[w], rng[w])
    BY <1>3 DEF IInv, CallInv
  <2>3. old[w] # NoProt
    BY <1>0, <2>1, <2>2 DEF IInv, Typ
  <2> QED
    BY <1>2, <1>3, <2>2, <2>3 DEF Relaxed
<1>4. CASE ~OneAlloc(rng[w])
  BY <1>2, <1>4 DEF IInv, CallInv
<1> QED
  BY <1>3, <1>4

\* For any number of pages, any allocations and any initial protections, a
\* call of write_process_memory made by the only thread writing through the
\* Process returns with every page of its range at the protection the
\* range's first page had when the call began, and every other page at its
\* own, whether the relaxing VirtualProtectEx and WriteProcessMemory
\* succeeded or not (RestoresFirstPage).
THEOREM WriteEffectForOneWriter ==
    ASSUME NEW w, Writers = {w}
    PROVE  Spec => RestoresFirstPage
<1>1. Init => IInv(w)
  BY InitIInv
<1>2. IInv(w) /\ [Next]_vars => IInv(w)'
  BY NextIInv
<1>3. IInv(w) /\ [Next]_vars =>
         \A t \in Writers :
            pc[t] = "restore" /\ pc'[t] = "idle" =>
               \A p \in Pages :
                  prot'[p] = IF p \in rng[t] /\ OneAlloc(rng[t])
                               THEN before[t][First(rng[t])]
                               ELSE before[t][p]
  BY ReturnEffect
<1> QED
  BY <1>1, <1>2, <1>3, PTL DEF Spec, RestoresFirstPage

=============================================================================
