-------------------------- MODULE WinHandleProofs --------------------------
(***************************************************************************)
(* Proofs about the Handle wrapper and the Process constructors on Windows *)
(* (WinHandle).  HandleOwnership is inductive once the types are known:   *)
(* a step that fills a free slot gives it one owner, a Drop empties the    *)
(* slot its only owner held, and Clone only acts on a Handle that owns a   *)
(* value, whose slot is therefore in use.  The snapshot of from_name is   *)
(* one more owner: it takes a free slot and frees it when the iterator is  *)
(* dropped.                                                                *)
(***************************************************************************)
EXTENDS WinHandle, FiniteSetTheorems, TLAPS

\* While from_name iterates, the iterator holds a snapshot handle.
SnapHeld == pcName = "iter" => snapH # NoHandle

IInv == TypeOK /\ HandleOwnership /\ SnapHeld

\* The inductive invariant holds initially.
LEMMA InitIInv == Init => IInv
<1> SUFFICES ASSUME Init PROVE IInv
  OBVIOUS
<1>1. (CHOOSE p \in Pids : TRUE) \in Pids /\ (CHOOSE n \in Names : TRUE) \in Names
  BY WinHandleAssumption
<1>2. TypeOK
  <2>1. nprocs \in 0..MaxProcs
    BY WinHandleAssumption DEF Init
  <2>2. pidOf \in [Procs -> Pids] /\ nameOf \in [Procs -> Names]
    BY <1>1 DEF Init
  <2>3. table \in [HandleVals -> Procs \cup {Self, Snap, NoObj}]
    BY DEF Init
  <2>4. owners \in [Values -> Nat] /\ live \in [Procs -> BOOLEAN]
    BY DEF Init
  <2>5. /\ pcName \in {"idle", "iter", "open"} /\ want \in Names /\ qpid \in Pids
        /\ opened \in Procs \cup {Self, NoObj} /\ panicked \in BOOLEAN
    BY <1>1 DEF Init
  <2>6. /\ snap \in Seq(Procs) /\ snapH \in HandleVals \cup {Pseudo, NoHandle}
        /\ count \in Nat /\ cursor \in Nat
    BY DEF Init
  <2> QED
    BY <2>1, <2>2, <2>3, <2>4, <2>5, <2>6 DEF TypeOK
<1>3. HandleOwnership /\ SnapHeld
  BY DEF Init, HandleOwnership, SnapHeld, Values
<1> QED
  BY <1>2, <1>3 DEF IInv

\* OpenPid fills a free slot with a real process and gives it one owner, or
\* changes nothing.
LEMMA OpenPidIInv ==
  ASSUME IInv, NEW p \in Pids, OpenPid(p)
  PROVE  /\ table' \in [HandleVals -> Procs \cup {Self, Snap, NoObj}]
         /\ owners' \in [Values -> Nat]
         /\ opened' \in Procs \cup {Self, NoObj}
         /\ \A h \in HandleVals : owners'[h] = IF table'[h] = NoObj THEN 0 ELSE 1
<1> USE DEF kernelVars, nameVars
<1>1. CASE \E i \in Procs, h \in Free :
             /\ Exists(i) /\ pidOf[i] = p
             /\ table' = [table EXCEPT ![h] = i]
             /\ owners' = [owners EXCEPT ![h] = 1]
             /\ opened' = i
  <2>1. PICK i \in Procs, h \in Free :
             /\ table' = [table EXCEPT ![h] = i]
             /\ owners' = [owners EXCEPT ![h] = 1]
             /\ opened' = i
    BY <1>1
  <2>2. h \in HandleVals /\ h \in Values /\ i # NoObj
    BY WinHandleAssumption DEF Free, Values, Procs
  <2> QED
    BY <2>1, <2>2 DEF IInv, TypeOK, HandleOwnership, SnapHeld
<1>2. CASE opened' = NoObj /\ UNCHANGED <<table, owners>>
  BY <1>2 DEF IInv, TypeOK, HandleOwnership, SnapHeld
<1> QED
  BY <1>1, <1>2 DEF OpenPid

\* Every step of the debugger and the kernel keeps the inductive invariant.
LEMMA NextIInv == IInv /\ [Next]_vars => IInv'
<1> SUFFICES ASSUME IInv, [Next]_vars PROVE IInv'
  OBVIOUS
<1> USE WinHandleAssumption DEF kernelVars, nameVars, SnapHeld
<1>1. CASE \E p \in Pids, n \in Names : Spawn(p, n)
  <2>1. PICK p \in Pids, n \in Names : Spawn(p, n)
    BY <1>1
  <2>2. nprocs + 1 \in Procs
    BY <2>1 DEF Spawn, IInv, TypeOK, Procs
  <2> QED
    BY <2>1, <2>2 DEF Spawn, IInv, TypeOK, HandleOwnership
<1>2. CASE \E i \in Procs : ExitProc(i)
  BY <1>2 DEF ExitProc, IInv, TypeOK, HandleOwnership
<1>3. CASE \E p \in Pids : Open(p)
  <2>1. PICK p \in Pids : Open(p)
    BY <1>3
  <2> QED
    BY <2>1, OpenPidIInv DEF Open, IInv, TypeOK, HandleOwnership
<1>4. CASE \E n \in Names : FromNameSnap(n)
  <2>1. PICK n \in Names : FromNameSnap(n)
    BY <1>4
  <2>2. IsFiniteSet(Running) /\ Running \subseteq Procs
    <3>1. Running \subseteq 1..nprocs /\ 1..nprocs \subseteq Procs
      BY DEF Running, IInv, TypeOK, Procs
    <3>2. IsFiniteSet(1..nprocs)
      BY FS_Interval DEF IInv, TypeOK
    <3> QED
      BY <3>1, <3>2, FS_Subset
  <2>3. Cardinality(Running) \in Nat
    BY <2>2, FS_CardinalityType
  <2>4. snap' \in Seq(Procs)
    <3>1. CASE Free # {}
      <4>1. snap' \in [1..Cardinality(Running) -> Running]
        BY <2>1, <3>1 DEF FromNameSnap, Free
      <4> QED
        BY <4>1, <2>2, <2>3
    <3>2. CASE Free = {}
      BY <2>1, <3>2 DEF FromNameSnap
    <3> QED
      BY <3>1, <3>2
  <2>0. /\ pcName' = "iter" /\ want' = n /\ count' = 0 /\ cursor' = 0
        /\ UNCHANGED <<nprocs, pidOf, nameOf, live, qpid, opened, panicked>>
    BY <2>1 DEF FromNameSnap
  <2>5. CASE \E h \in Free :
             /\ table' = [table EXCEPT ![h] = Snap]
             /\ owners' = [owners EXCEPT ![h] = 1]
             /\ snapH' = h
    <3>1. PICK h \in Free : /\ table' = [table EXCEPT ![h] = Snap]
                            /\ owners' = [owners EXCEPT ![h] = 1]
                            /\ snapH' = h
      BY <2>5
    <3>2. h \in HandleVals /\ h \in Values
      BY DEF Free, Values
    <3>3. Snap # NoObj
      <4>1. Snap \in Int
        BY DEF Snap
      <4> QED
        BY <4>1, WinHandleAssumption
    <3>4. snapH' # NoHandle /\ snapH' \in HandleVals
      BY <3>1, <3>2, WinHandleAssumption DEF NoHandle
    <3>5. table' \in [HandleVals -> Procs \cup {Self, Snap, NoObj}]
          /\ owners' \in [Values -> Nat]
      BY <3>1, <3>2 DEF IInv, TypeOK
    <3>6. \A x \in HandleVals : owners'[x] = IF table'[x] = NoObj THEN 0 ELSE 1
      BY <3>1, <3>2, <3>3 DEF IInv, TypeOK, HandleOwnership
    <3> QED
      BY <2>0, <2>4, <3>4, <3>5, <3>6 DEF IInv, TypeOK, HandleOwnership
  <2>6. CASE Free = {} /\ snapH' = Pseudo /\ UNCHANGED <<table, owners>>
    <3>1. Pseudo # NoHandle
      BY DEF Pseudo, NoHandle
    <3> QED
      BY <2>0, <2>4, <2>6, <3>1 DEF IInv, TypeOK, HandleOwnership
  <2> QED
    BY <2>1, <2>5, <2>6 DEF FromNameSnap
<1>10. CASE FromNameNext
  <2> DEFINE c == Moved(count = 0)
  <2>1. c \in Nat /\ cursor' = c /\ count' = count + 1
    BY <1>10 DEF FromNameNext, Moved, IInv, TypeOK
  <2>2. HasEntry(c) => pidOf[snap[c]] \in Pids
    BY DEF HasEntry, IInv, TypeOK
  <2>3. CASE HasEntry(c) /\ ~NameMatches(snap[c])
    BY <1>10, <2>1, <2>3 DEF FromNameNext, IInv, TypeOK, HandleOwnership
  <2>4. CASE ~(HasEntry(c) /\ ~NameMatches(snap[c]))
    <3>1. CloseSnap
      BY <1>10, <2>4 DEF FromNameNext
    <3>2. /\ table' \in [HandleVals -> Procs \cup {Self, Snap, NoObj}]
          /\ owners' \in [Values -> Nat]
          /\ \A h \in HandleVals : owners'[h] = IF table'[h] = NoObj THEN 0 ELSE 1
          /\ snapH' = NoHandle
      <4>1. CASE snapH = Pseudo
        BY <3>1, <4>1 DEF CloseSnap, IInv, TypeOK, HandleOwnership
      <4>2. CASE snapH # Pseudo /\ snapH \in HandleVals
        <5>1. snapH \in Values
          BY <4>2 DEF Values
        <5> QED
          BY <3>1, <4>2, <5>1 DEF CloseSnap, IInv, TypeOK, HandleOwnership
      <4>3. snapH # NoHandle
        BY <1>10 DEF FromNameNext, IInv, SnapHeld
      <4> QED
        BY <4>1, <4>2, <4>3 DEF IInv, TypeOK
    <3>3. /\ pcName' \in {"idle", "iter", "open"} /\ qpid' \in Pids
          /\ opened' \in Procs \cup {Self, NoObj}
      BY <1>10, <2>2, <2>4 DEF FromNameNext, IInv, TypeOK
    <3> QED
      BY <1>10, <2>1, <3>2, <3>3 DEF FromNameNext, IInv, TypeOK, HandleOwnership
  <2> QED
    BY <2>3, <2>4
<1>5. CASE FromNameOpen
  BY <1>5, OpenPidIInv DEF FromNameOpen, IInv, TypeOK, HandleOwnership
<1>6. CASE Current
  <2>1. Pseudo \notin HandleVals /\ Pseudo \in Values
    BY DEF Pseudo, Values
  <2> QED
    BY <1>6, <2>1 DEF Current, IInv, TypeOK, HandleOwnership
<1>7. CASE \E h \in Values : CloneH(h)
  <2>1. PICK h \in Values : CloneH(h)
    BY <1>7
  <2>2. h \in HandleVals => table[h] # NoObj
    BY <2>1 DEF CloneH, IInv, TypeOK, HandleOwnership
  <2>3. CASE \E h2 \in Free :
             /\ table' = [table EXCEPT ![h2] = IF h = Pseudo THEN Self ELSE table[h]]
             /\ owners' = [owners EXCEPT ![h2] = 1]
             /\ UNCHANGED panicked
    <3>1. PICK h2 \in Free :
             /\ table' = [table EXCEPT ![h2] = IF h = Pseudo THEN Self ELSE table[h]]
             /\ owners' = [owners EXCEPT ![h2] = 1]
             /\ UNCHANGED panicked
      BY <2>3
    <3>2. h2 \in HandleVals /\ h2 \in Values
      BY DEF Free, Values
    <3>3. (IF h = Pseudo THEN Self ELSE table[h]) \in Procs \cup {Self, Snap}
      BY <2>2 DEF Values, Pseudo, IInv, TypeOK
    <3>4. Self # NoObj /\ Snap # NoObj /\ \A i \in Procs : i # NoObj
      BY DEF Self, Snap, Procs
    <3> QED
      BY <2>1, <3>1, <3>2, <3>3, <3>4 DEF CloneH, IInv, TypeOK, HandleOwnership
  <2>4. CASE Free = {} /\ panicked' = TRUE /\ UNCHANGED <<table, owners>>
    BY <2>1, <2>4 DEF CloneH, IInv, TypeOK, HandleOwnership
  <2> QED
    BY <2>1, <2>3, <2>4 DEF CloneH
<1>8. CASE \E h \in Values : DropH(h)
  <2>1. PICK h \in Values : DropH(h)
    BY <1>8
  <2>2. CASE h = Pseudo
    <3>1. Pseudo \notin HandleVals
      BY DEF Pseudo
    <3> QED
      BY <2>1, <2>2, <3>1 DEF DropH, IInv, TypeOK, HandleOwnership
  <2>3. CASE h # Pseudo
    <3>0. h \in HandleVals
      BY <2>3 DEF Values
    <3>1. h \in HandleVals /\ owners[h] = 1
      BY <2>1, <3>0 DEF DropH, IInv, HandleOwnership
    <3> QED
      BY <2>1, <2>3, <3>1 DEF DropH, IInv, TypeOK, HandleOwnership
  <2> QED
    BY <2>2, <2>3
<1>9. CASE UNCHANGED vars
  BY <1>9 DEF vars, IInv, TypeOK, HandleOwnership
<1> QED
  BY <1>1, <1>2, <1>3, <1>4, <1>5, <1>6, <1>7, <1>8, <1>9, <1>10 DEF Next

\* The debugger's Handles own its handle table exactly (HandleOwnership):
\* each open slot has one Handle, a closed slot none, in every reachable
\* state, whatever the pids, names, table size and number of processes.
THEOREM OwnershipInvariant == Spec => []HandleOwnership
<1>1. IInv => HandleOwnership
  BY DEF IInv
<1> QED
  BY InitIInv, NextIInv, <1>1, PTL DEF Spec

-----------------------------------------------------------------------------
(* from_name walks its whole snapshot.  The walk's invariant: the entries  *)
(* of the snapshot are processes already created, so a later Spawn does   *)
(* not rename them; during the iteration the snapshot's cursor is within   *)
(* it, is 0 before the first call of next, and no entry up to it has the   *)
(* name asked for.                                                         *)

WalkInv ==
    /\ \A k \in 1..Len(snap) : snap[k] \in 1..nprocs
    /\ pcName = "iter" =>
          /\ cursor <= Len(snap)
          /\ count = 0 => cursor = 0
          /\ \A k \in 1..cursor : nameOf[snap[k]] # want

\* The processes a snapshot lists form a finite set of created processes.
LEMMA RunningFinite ==
    ASSUME TypeOK
    PROVE  /\ IsFiniteSet(Running)
           /\ Running \subseteq 1..nprocs
           /\ Cardinality(Running) \in Nat
<1>1. Running \subseteq 1..nprocs
  BY DEF Running
<1>2. IsFiniteSet(1..nprocs)
  BY FS_Interval DEF TypeOK
<1>3. IsFiniteSet(Running)
  BY <1>1, <1>2, FS_Subset
<1> QED
  BY <1>1, <1>3, FS_CardinalityType

LEMMA InitWalk == Init => WalkInv
BY DEF Init, WalkInv

LEMMA NextWalk == IInv /\ WalkInv /\ [Next]_vars => WalkInv'
<1> SUFFICES ASSUME IInv, WalkInv, [Next]_vars PROVE WalkInv'
  OBVIOUS
<1> USE DEF kernelVars, nameVars
<1>1. CASE \E p \in Pids, n \in Names : Spawn(p, n)
  \* The new process gets the index nprocs + 1, which no entry has.
  <2>1. PICK p \in Pids, n \in Names : Spawn(p, n)
    BY <1>1
  <2>2. nprocs + 1 \in Procs /\ nprocs \in Nat
    BY <2>1, WinHandleAssumption DEF Spawn, IInv, TypeOK, Procs
  <2>3. \A k \in 1..Len(snap) : nameOf'[snap[k]] = nameOf[snap[k]]
    BY <2>1, <2>2 DEF Spawn, WalkInv, IInv, TypeOK
  <2>4. UNCHANGED <<snap, pcName, cursor, count, want>> /\ nprocs' = nprocs + 1
    BY <2>1 DEF Spawn
  <2>5. \A k \in 1..Len(snap') : snap'[k] \in 1..nprocs'
    BY <2>2, <2>4 DEF WalkInv
  <2>6. pcName' = "iter" =>
          /\ cursor' <= Len(snap')
          /\ count' = 0 => cursor' = 0
          /\ \A k \in 1..cursor' : nameOf'[snap'[k]] # want'
    BY <2>1, <2>3, <2>4 DEF WalkInv, IInv, TypeOK
  <2> QED
    BY <2>5, <2>6 DEF WalkInv
<1>2. CASE \E i \in Procs : ExitProc(i)
  BY <1>2 DEF ExitProc, WalkInv
<1>3. CASE \E p \in Pids : Open(p)
  BY <1>3 DEF Open, WalkInv
<1>4. CASE \E n \in Names : FromNameSnap(n)
  <2>1. PICK n \in Names : FromNameSnap(n)
    BY <1>4
  <2>2. Running \subseteq 1..nprocs /\ Cardinality(Running) \in Nat
    BY RunningFinite DEF IInv
  <2>3. \A k \in 1..Len(snap') : snap'[k] \in 1..nprocs
    <3>1. CASE Free # {}
      <4>1. snap' \in [1..Cardinality(Running) -> Running]
        BY <2>1, <3>1 DEF FromNameSnap, Free
      <4>2. Len(snap') = Cardinality(Running)
        BY <4>1, <2>2
      <4> QED
        BY <4>1, <4>2, <2>2
    <3>2. CASE Free = {}
      BY <2>1, <3>2 DEF FromNameSnap
    <3> QED
      BY <3>1, <3>2
  <2> QED
    BY <2>1, <2>3 DEF FromNameSnap, WalkInv
<1>5. CASE FromNameNext
  <2> DEFINE c == Moved(count = 0)
  <2>1. cursor \in Nat /\ count \in Nat /\ snap \in Seq(Procs) /\ pcName = "iter"
    BY <1>5 DEF IInv, TypeOK, FromNameNext
  <2>2. c = cursor + 1 /\ cursor' = c /\ count' = count + 1
    BY <1>5, <2>1 DEF FromNameNext, Moved, WalkInv
  <2>3. UNCHANGED <<nprocs, nameOf, want, snap>>
    BY <1>5 DEF FromNameNext
  <2>4. CASE HasEntry(c) /\ ~NameMatches(snap[c])
    \* The filter skipped entry c: it joins the entries known not to match.
    <3>1. pcName' = "iter" /\ c \in 1..Len(snap) /\ nameOf[snap[c]] # want
      BY <1>5, <2>4 DEF FromNameNext, HasEntry, NameMatches
    <3>2. \A k \in 1..cursor : nameOf[snap[k]] # want
      BY <2>1 DEF WalkInv
    <3>3. \A k \in 1..cursor' : nameOf'[snap'[k]] # want'
      BY <2>1, <2>2, <2>3, <3>1, <3>2
    <3>4. cursor' <= Len(snap') /\ count' # 0
      BY <2>1, <2>2, <2>3, <3>1
    <3> QED
      BY <2>3, <3>3, <3>4 DEF WalkInv
  <2>5. CASE ~(HasEntry(c) /\ ~NameMatches(snap[c]))
    \* The iteration ends: from_name opens a pid or returns.
    <3>1. pcName' # "iter"
      BY <1>5, <2>5 DEF FromNameNext
    <3> QED
      BY <2>3, <3>1 DEF WalkInv
  <2> QED
    BY <2>4, <2>5
<1>6. CASE FromNameOpen
  BY <1>6 DEF FromNameOpen, WalkInv
<1>7. CASE Current
  BY <1>7 DEF Current, WalkInv
<1>8. CASE \E h \in Values : CloneH(h)
  BY <1>8 DEF CloneH, WalkInv
<1>9. CASE \E h \in Values : DropH(h)
  BY <1>9 DEF DropH, WalkInv
<1>10. CASE UNCHANGED vars
  BY <1>10 DEF vars, WalkInv
<1> QED
  BY <1>1, <1>2, <1>3, <1>4, <1>5, <1>6, <1>7, <1>8, <1>9, <1>10 DEF Next

(* The step that ends an iteration with "name not found" is a next that    *)
(* found no entry after the cursor: the cursor was at the snapshot's end. *)
LEMMA NotFoundStep ==
    IInv /\ WalkInv /\ [Next]_vars =>
        (pcName = "iter" /\ pcName' = "idle" =>
             snapH = Pseudo \/ \A k \in 1..Len(snap) : nameOf[snap[k]] # want)
<1> SUFFICES ASSUME IInv, WalkInv, [Next]_vars, pcName = "iter", pcName' = "idle"
             PROVE  snapH = Pseudo \/ \A k \in 1..Len(snap) : nameOf[snap[k]] # want
  OBVIOUS
<1> USE DEF kernelVars, nameVars
<1>1. FromNameNext
  BY DEF Next, Spawn, ExitProc, Open, FromNameSnap, FromNameOpen, Current,
         CloneH, DropH, vars
<1> DEFINE c == Moved(count = 0)
<1>2. ~HasEntry(c)
  BY <1>1 DEF FromNameNext
<1>3. c = cursor + 1 /\ cursor \in Nat /\ cursor <= Len(snap) /\ snap \in Seq(Procs)
  BY DEF Moved, WalkInv, IInv, TypeOK
<1>4. CASE snapH = Pseudo
  BY <1>4
<1>5. CASE snapH # Pseudo
  <2>1. cursor = Len(snap)
    BY <1>2, <1>3, <1>5 DEF HasEntry
  <2> QED
    BY <2>1 DEF WalkInv
<1> QED
  BY <1>4, <1>5

\* from_name reports "name not found" only when no process of the snapshot
\* it took has that name, or the snapshot failed (NotFoundMeansAbsent): the
\* First/Next choice by count and the filter's loop visit every entry, for
\* every pid set, name set, table size and number of processes.
THEOREM NotFoundInvariant == Spec => NotFoundMeansAbsent
<1>1. Spec => [](IInv /\ WalkInv)
  BY InitIInv, NextIInv, InitWalk, NextWalk, PTL DEF Spec
<1> QED
  BY <1>1, NotFoundStep, PTL DEF Spec, NotFoundMeansAbsent
============================================================================
