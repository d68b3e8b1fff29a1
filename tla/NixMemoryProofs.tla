-------------------------- MODULE NixMemoryProofs --------------------------
(***************************************************************************)
(* Proofs about NixMemory for every value of the constants.                *)
(*                                                                         *)
(* TypeOK is not inductive by itself: ReadData returns mem[chanInc][chanPos] *)
(* and is well typed only because chanPos is an address there.  The        *)
(* strengthening IInv says that the write lock of self.mem is held exactly *)
(* by the thread between its seek and its read, and that the cached file   *)
(* is then positioned at that thread's own address.                        *)
(***************************************************************************)
EXTENDS NixMemory, TLAPS

\* A thread is inside a call exactly when it is not idle; its address
\* argument is then an address of the target.
ArgsOK == \A t \in Threads : pc[t] # "idle" => arg[t] \in Addr

\* The write lock is held exactly by the thread between ReadSeek and
\* ReadData, and the cached file is positioned at that thread's address.
LockInv ==
    /\ \A t \in Threads : pc[t] = "r_read" <=> writer = t
    /\ writer # NoThread => chanPos = arg[writer]

IInv == TypeOK /\ ArgsOK /\ LockInv

\* The facts about the constants that the proofs use.
LEMMA ConstFacts ==
    /\ Val # {}
    /\ MaxInc \in Nat \ {0}
    /\ MaxOps \in Nat
    /\ NoThread \notin Threads
    /\ NoAddr \notin Addr
    /\ NoVal \notin Val
  BY NixMemoryAssumption

LEMMA InitIInv == Init => IInv
  <1> SUFFICES ASSUME Init PROVE IInv
    OBVIOUS
  <1> USE ConstFacts
  <1>1. (CHOOSE v \in Val : TRUE) \in Val
    OBVIOUS
  <1>2. TypeOK
    BY <1>1 DEF Init, TypeOK, Target, Inc, PC
  <1>3. ArgsOK /\ LockInv
    BY DEF Init, ArgsOK, LockInv
  <1>4. QED
    BY <1>2, <1>3 DEF IInv

LEMMA NextIInv == IInv /\ [Next]_vars => IInv'
  <1> SUFFICES ASSUME IInv, [Next]_vars PROVE IInv'
    OBVIOUS
  <1> USE ConstFacts DEF IInv, TypeOK, ArgsOK, LockInv, PC, Inc,
                        envVars, chanVars, lockVars
  <1>1. ASSUME NEW t \in Threads, CallRead(t) PROVE IInv'
    <2>1. TypeOK'
      BY <1>1 DEF CallRead
    <2>2. ArgsOK'
      BY <1>1 DEF CallRead
    <2>3. LockInv'
      BY <1>1 DEF CallRead
    <2>4. QED
      BY <2>1, <2>2, <2>3
  <1>2. ASSUME NEW t \in Threads, CallWrite(t) PROVE IInv'
    <2>1. TypeOK'
      BY <1>2 DEF CallWrite
    <2>2. ArgsOK'
      BY <1>2 DEF CallWrite
    <2>3. LockInv'
      BY <1>2 DEF CallWrite
    <2>4. QED
      BY <2>1, <2>2, <2>3
  <1>3. ASSUME NEW t \in Threads, ReadCheck(t) PROVE IInv'
    <2>1. TypeOK'
      BY <1>3 DEF ReadCheck
    <2>2. ArgsOK'
      BY <1>3 DEF ReadCheck
    <2>3. LockInv'
      BY <1>3 DEF ReadCheck
    <2>4. QED
      BY <2>1, <2>2, <2>3
  <1>4. ASSUME NEW t \in Threads, ReadOpen(t) PROVE IInv'
    <2>1. CASE holder = 0
      <3>1. pc[t] = "r_open" /\ pc' = [pc EXCEPT ![t] = "idle"] /\ ret' = [ret EXCEPT ![t] = NoVal]
            /\ UNCHANGED <<holder, spawned, mem, chanInc, chanPos, writer,
                           readers, arg, wval, fd, ops>>
        BY <1>4, <2>1 DEF ReadOpen, Return
      <3>2. TypeOK'
        BY <3>1
      <3>3. ArgsOK' /\ LockInv'
        BY <3>1
      <3>4. QED
        BY <3>2, <3>3
    <2>2. CASE holder # 0
      <3>1. pc[t] = "r_open" /\ pc' = [pc EXCEPT ![t] = "r_install"] /\ fd' = [fd EXCEPT ![t] = holder]
            /\ UNCHANGED <<holder, spawned, mem, chanInc, chanPos, writer,
                           readers, arg, wval, ret, ops>>
        BY <1>4, <2>2 DEF ReadOpen, Return
      <3>2. TypeOK'
        BY <2>2, <3>1
      <3>3. ArgsOK' /\ LockInv'
        BY <3>1
      <3>4. QED
        BY <3>2, <3>3
    <2>3. QED
      BY <2>1, <2>2
  <1>5. ASSUME NEW t \in Threads, ReadInstall(t) PROVE IInv'
    <2>1. TypeOK'
      BY <1>5 DEF ReadInstall
    <2>2. ArgsOK'
      BY <1>5 DEF ReadInstall
    <2>3. LockInv'
      BY <1>5 DEF ReadInstall
    <2>4. QED
      BY <2>1, <2>2, <2>3
  <1>6. ASSUME NEW t \in Threads, ReadSeek(t) PROVE IInv'
    <2>1. TypeOK'
      BY <1>6 DEF ReadSeek
    <2>2. ArgsOK'
      BY <1>6 DEF ReadSeek
    <2>3. LockInv'
      BY <1>6 DEF ReadSeek
    <2>4. QED
      BY <2>1, <2>2, <2>3
  <1>7. ASSUME NEW t \in Threads, ReadData(t) PROVE IInv'
    <2>1. writer = t
      BY <1>7 DEF ReadData
    <2>2. chanPos = arg[t]
      BY <2>1
    <2>3. arg[t] \in Addr
      BY <1>7 DEF ReadData
    <2>4. writer' = NoThread /\ pc' = [pc EXCEPT ![t] = "idle"]
          /\ UNCHANGED <<holder, spawned, mem, chanInc, readers, arg, wval, fd, ops>>
      BY <1>7 DEF ReadData, Return
    <2>5. ArgsOK' /\ LockInv'
      BY <2>1, <2>4
    <2>6. CASE Alive(chanInc)
      <3>1. chanInc \in Inc
        BY <2>6 DEF Alive
      <3>2. mem[chanInc][chanPos] \in Val
        BY <2>2, <2>3, <3>1
      <3>3. ret' = [ret EXCEPT ![t] = mem[chanInc][chanPos]] /\ chanPos' = NoAddr
        BY <1>7, <2>6 DEF ReadData, Return
      <3>4. TypeOK'
        BY <2>4, <3>2, <3>3
      <3>5. QED
        BY <2>5, <3>4
    <2>7. CASE ~Alive(chanInc)
      <3>1. ret' = [ret EXCEPT ![t] = NoVal] /\ chanPos' = chanPos
        BY <1>7, <2>7 DEF ReadData, Return
      <3>2. TypeOK'
        BY <2>4, <3>1
      <3>3. QED
        BY <2>5, <3>2
    <2>8. QED
      BY <2>6, <2>7
  <1>8. ASSUME NEW t \in Threads, WriteOpen(t) PROVE IInv'
    <2>1. CASE holder = 0
      <3>1. pc[t] = "w_open" /\ pc' = [pc EXCEPT ![t] = "idle"] /\ ret' = [ret EXCEPT ![t] = NoVal]
            /\ UNCHANGED <<holder, spawned, mem, chanInc, chanPos, writer,
                           readers, arg, wval, fd, ops>>
        BY <1>8, <2>1 DEF WriteOpen, Return
      <3>2. TypeOK'
        BY <3>1
      <3>3. ArgsOK' /\ LockInv'
        BY <3>1
      <3>4. QED
        BY <3>2, <3>3
    <2>2. CASE holder # 0
      <3>1. pc[t] = "w_open" /\ pc' = [pc EXCEPT ![t] = "w_write"] /\ fd' = [fd EXCEPT ![t] = holder]
            /\ UNCHANGED <<holder, spawned, mem, chanInc, chanPos, writer,
                           readers, arg, wval, ret, ops>>
        BY <1>8, <2>2 DEF WriteOpen, Return
      <3>2. TypeOK'
        BY <2>2, <3>1
      <3>3. ArgsOK' /\ LockInv'
        BY <3>1
      <3>4. QED
        BY <3>2, <3>3
    <2>3. QED
      BY <2>1, <2>2
  <1>9. ASSUME NEW t \in Threads, WriteData(t) PROVE IInv'
    <2>1. arg[t] \in Addr /\ pc[t] = "w_write"
      BY <1>9 DEF WriteData
    <2>2. fd' = [fd EXCEPT ![t] = 0] /\ pc' = [pc EXCEPT ![t] = "idle"]
          /\ UNCHANGED <<holder, spawned, chanInc, chanPos, writer, readers,
                         arg, wval, ops>>
      BY <1>9 DEF WriteData, Return
    <2>3. ArgsOK' /\ LockInv'
      BY <2>1, <2>2
    <2>4. CASE Alive(fd[t])
      <3>1. fd[t] \in Inc
        BY <2>4 DEF Alive
      <3>2. mem' = [mem EXCEPT ![fd[t]][arg[t]] = wval[t]] /\ ret' = [ret EXCEPT ![t] = Wrote]
        BY <1>9, <2>4 DEF WriteData, Return
      <3>3. mem' \in [Inc -> [Addr -> Val]]
        BY <2>1, <3>1, <3>2
      <3>4. TypeOK'
        BY <2>2, <3>2, <3>3
      <3>5. QED
        BY <2>3, <3>4
    <2>5. CASE ~Alive(fd[t])
      <3>1. mem' = mem /\ ret' = [ret EXCEPT ![t] = WroteZero]
        BY <1>9, <2>5 DEF WriteData, Return
      <3>2. TypeOK'
        BY <2>2, <3>1
      <3>3. QED
        BY <2>3, <3>2
    <2>6. QED
      BY <2>4, <2>5
  <1>10. CASE Exit
    <2>1. TypeOK'
      BY <1>10 DEF Exit
    <2>2. ArgsOK' /\ LockInv'
      BY <1>10 DEF Exit
    <2>3. QED
      BY <2>1, <2>2
  <1>11. CASE ReusePid
    <2>1. TypeOK'
      BY <1>11 DEF ReusePid
    <2>2. ArgsOK' /\ LockInv'
      BY <1>11 DEF ReusePid
    <2>3. QED
      BY <2>1, <2>2
  <1>12. CASE UNCHANGED vars
    BY <1>12 DEF vars
  <1>13. QED
    BY <1>1, <1>2, <1>3, <1>4, <1>5, <1>6, <1>7, <1>8, <1>9, <1>10,
       <1>11, <1>12 DEF Next, Step

LEMMA IInvInvariant == Spec => []IInv
  BY InitIInv, NextIInv, PTL DEF Spec

\* The variables of a Process and of its callers keep their types in every
\* reachable state (read, write, and the target's exit and pid reuse).
THEOREM TypeCorrect == Spec => []TypeOK
  BY IInvInvariant, PTL DEF IInv

\* The action property ReadsOwnAddress holds for every number of threads,
\* addresses and values: a read that returns data returns the contents of
\* its own address, because the write lock held from seek to read
\* (read, line 94; read_mem, line 87) keeps the file position its own.
THEOREM SeekReadAtomic == Spec => ReadsOwnAddress
  <1>1. IInv /\ [Next]_vars =>
          [\A t \in Threads :
             (pc[t] = "r_read" /\ pc'[t] = "idle" /\ ret'[t] \in Val)
                => ret'[t] = mem[chanInc][arg[t]]]_vars
    <2> SUFFICES ASSUME IInv, [Next]_vars, NEW t \in Threads,
                        pc[t] = "r_read", pc'[t] = "idle", ret'[t] \in Val
                 PROVE ret'[t] = mem[chanInc][arg[t]]
      OBVIOUS
    <2> USE ConstFacts DEF IInv, TypeOK, LockInv
    <2>1. ReadData(t)
      <3>1. ASSUME NEW u \in Threads, u # t, Step(u) PROVE FALSE
        BY <3>1 DEF Step, ReadCheck, ReadOpen, ReadInstall, ReadSeek,
                    ReadData, WriteOpen, WriteData, Return
      <3>2. ASSUME NEW u \in Threads, CallRead(u) \/ CallWrite(u) PROVE FALSE
        BY <3>2 DEF CallRead, CallWrite
      <3>3. ~Exit /\ ~ReusePid /\ ~UNCHANGED vars
        BY DEF Exit, ReusePid, vars
      <3>4. ~(ReadCheck(t) \/ ReadOpen(t) \/ ReadInstall(t) \/ ReadSeek(t)
              \/ WriteOpen(t) \/ WriteData(t))
        BY DEF ReadCheck, ReadOpen, ReadInstall, ReadSeek, WriteOpen, WriteData
      <3>5. QED
        BY <3>1, <3>2, <3>3, <3>4 DEF Next, Step
    <2>2. writer = t
      OBVIOUS
    <2>3. chanPos = arg[t]
      BY <2>2
    <2>4. QED
      BY <2>1, <2>3 DEF ReadData, Return, Alive
  <1>2. QED
    BY <1>1, IInvInvariant, PTL DEF ReadsOwnAddress, Spec
-----------------------------------------------------------------------------
(* Refinement.  Under the mapping NixMemory!Atomic, which keeps the        *)
(* variables the callers see and forgets the cache, the lock, the file    *)
(* position and the private files, every step of NixMemory is a step of   *)
(* NixMemoryAtomic or leaves its variables alone.                          *)

aop == [t \in Threads |-> OpKind(pc[t])]

\* A step of one thread that moves it between two places of the same call
\* leaves the abstract state unchanged.
LEMMA InnerStutter ==
  ASSUME IInv, NEW t \in Threads,
         pc' = [pc EXCEPT ![t] = pc'[t]], OpKind(pc'[t]) = OpKind(pc[t]),
         UNCHANGED <<holder, spawned, mem, arg, wval, ret, ops>>
  PROVE  UNCHANGED Atomic!avars
  <1>1. aop' = aop
    BY DEF aop, IInv, TypeOK
  <1> QED
    BY <1>1 DEF Atomic!avars, aop

\* Each step of NixMemory maps to a step of NixMemoryAtomic or a stutter.
LEMMA StepRefines == IInv /\ [Next]_vars => [Atomic!Next]_Atomic!avars
<1> SUFFICES ASSUME IInv, [Next]_vars PROVE [Atomic!Next]_Atomic!avars
  OBVIOUS
<1> USE ConstFacts
<1>0. aop \in [Threads -> {"idle", "read", "write"}]
  BY DEF aop, OpKind
<1>1. ASSUME NEW t \in Threads, CallRead(t) PROVE Atomic!CallRead(t)
  BY <1>1, <1>0 DEF CallRead, Atomic!CallRead, Atomic!Call, aop, OpKind,
                    IInv, TypeOK, envVars, chanVars, lockVars
<1>2. ASSUME NEW t \in Threads, CallWrite(t) PROVE Atomic!CallWrite(t)
  BY <1>2, <1>0 DEF CallWrite, Atomic!CallWrite, Atomic!Call, aop, OpKind,
                    IInv, TypeOK, envVars, chanVars, lockVars
<1>3. ASSUME NEW t \in Threads, ReadCheck(t) \/ ReadInstall(t) \/ ReadSeek(t)
      PROVE  UNCHANGED Atomic!avars
  <2>1. pc' = [pc EXCEPT ![t] = pc'[t]] /\ OpKind(pc'[t]) = OpKind(pc[t])
        /\ UNCHANGED <<holder, spawned, mem, arg, wval, ret, ops>>
    BY <1>3 DEF ReadCheck, ReadInstall, ReadSeek, OpKind, IInv, TypeOK,
                envVars, lockVars, chanVars
  <2> QED
    BY <2>1, InnerStutter
<1>4. ASSUME NEW t \in Threads, ReadOpen(t) \/ WriteOpen(t)
      PROVE  [Atomic!Next]_Atomic!avars
  <2>1. CASE holder = 0
    <3>1. /\ pc[t] \in {"r_open", "w_open"}
          /\ pc' = [pc EXCEPT ![t] = "idle"] /\ ret' = [ret EXCEPT ![t] = NoVal]
          /\ UNCHANGED <<holder, spawned, mem, arg, wval, ops>>
      BY <1>4, <2>1 DEF ReadOpen, WriteOpen, Return, envVars
    <3>2. aop' = [aop EXCEPT ![t] = "idle"]
      <4>1. \A u \in Threads : OpKind(pc'[u]) = IF u = t THEN "idle" ELSE OpKind(pc[u])
        BY <3>1 DEF IInv, TypeOK, OpKind
      <4> QED
        BY <4>1 DEF aop
    <3>3. CASE pc[t] = "r_open"
      <4>1. Atomic!Read(t)
        BY <3>1, <3>2, <3>3 DEF Atomic!Read, aop, OpKind
      <4> QED
        BY <4>1 DEF Atomic!Next
    <3>4. CASE pc[t] = "w_open"
      <4>1. Atomic!Write(t)
        BY <3>1, <3>2, <3>4 DEF Atomic!Write, aop, OpKind
      <4> QED
        BY <4>1 DEF Atomic!Next
    <3> QED
      BY <3>1, <3>3, <3>4
  <2>2. CASE holder # 0
    <3>1. /\ pc' = [pc EXCEPT ![t] = pc'[t]] /\ OpKind(pc'[t]) = OpKind(pc[t])
          /\ UNCHANGED <<holder, spawned, mem, arg, wval, ret, ops>>
      BY <1>4, <2>2 DEF ReadOpen, WriteOpen, OpKind, IInv, TypeOK, envVars
    <3> QED
      BY <3>1, InnerStutter
  <2> QED
    BY <2>1, <2>2
<1>5. ASSUME NEW t \in Threads, ReadData(t) PROVE Atomic!Read(t)
  <2>1. pc[t] = "r_read" /\ pc' = [pc EXCEPT ![t] = "idle"]
        /\ UNCHANGED <<holder, spawned, mem, arg, wval, ops>>
    BY <1>5 DEF ReadData, Return, envVars
  <2>2. aop' = [aop EXCEPT ![t] = "idle"] /\ aop[t] = "read"
    BY <2>1 DEF aop, OpKind, IInv, TypeOK
  <2>3. chanPos = arg[t]
    BY <2>1 DEF IInv, LockInv
  <2>4. ret' = [ret EXCEPT ![t] = NoVal]
        \/ (holder # 0 /\ ret' = [ret EXCEPT ![t] = mem[holder][arg[t]]])
    BY <1>5, <2>3 DEF ReadData, Return, Alive
  <2> QED
    BY <2>1, <2>2, <2>4 DEF Atomic!Read, aop
<1>6. ASSUME NEW t \in Threads, WriteData(t) PROVE Atomic!Write(t)
  <2>1. pc[t] = "w_write" /\ pc' = [pc EXCEPT ![t] = "idle"]
        /\ UNCHANGED <<holder, spawned, arg, wval, ops>>
    BY <1>6 DEF WriteData, Return, envVars
  <2>2. aop' = [aop EXCEPT ![t] = "idle"] /\ aop[t] = "write"
    BY <2>1 DEF aop, OpKind, IInv, TypeOK
  <2>3. \/ /\ holder # 0 /\ mem' = [mem EXCEPT ![holder][arg[t]] = wval[t]]
           /\ ret' = [ret EXCEPT ![t] = Wrote]
        \/ /\ ret' = [ret EXCEPT ![t] = WroteZero] /\ mem' = mem
    BY <1>6 DEF WriteData, Return, Alive
  <2> QED
    BY <2>1, <2>2, <2>3 DEF Atomic!Write, aop, Wrote, WroteZero, Atomic!Wrote,
                            Atomic!WroteZero
<1>7. CASE Exit
  BY <1>7 DEF Exit, Atomic!Exit, Atomic!Next, aop
<1>8. CASE ReusePid
  BY <1>8 DEF ReusePid, Atomic!ReusePid, Atomic!Next, aop
<1>9. CASE UNCHANGED vars
  BY <1>9 DEF vars, Atomic!avars, aop
<1> QED
  BY <1>1, <1>2, <1>3, <1>4, <1>5, <1>6, <1>7, <1>8, <1>9
     DEF Next, Step, Atomic!Next

\* NixMemory implements the safety part of NixMemoryAtomic, for every
\* number of threads, addresses, values and incarnations: every read and
\* write, despite the lazily installed channel shared by all threads and
\* its file position (read, lines 91-94), is one atomic access to the
\* memory of the pid's holder at some instant of the call.  The liveness
\* part of ImplementsAtomic is checked by TLC.
THEOREM Refinement == Spec => Atomic!SafeSpec
<1>1. Init => Atomic!Init
  BY ConstFacts DEF Init, Atomic!Init, Target, Inc, Atomic!Inc, OpKind
<1> QED
  BY <1>1, StepRefines, IInvInvariant, PTL DEF Spec, Atomic!SafeSpec
=============
