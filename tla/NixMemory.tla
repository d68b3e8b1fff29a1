----------------------------- MODULE NixMemory -----------------------------
(***************************************************************************)
(* Memory I/O of the Linux Process object (src/src/nix/process.rs).        *)
(*                                                                         *)
(* A Process keeps only its pid and a lazily opened /proc/<pid>/mem file   *)
(* behind a RwLock (field `mem`).  `read` checks the cache under the read  *)
(* lock, opens the file without any lock, installs it under the write      *)
(* lock, then seeks and reads under the write lock.  `write` opens a fresh *)
(* file with every call.  Several threads call read and write on the same  *)
(* Process concurrently, while the target process may exit and its pid be  *)
(* taken by a new process (pid reuse).                                     *)
(*                                                                         *)
(* A process holding the pid is an "incarnation" 1..MaxInc; incarnation 1  *)
(* is the one the Process was constructed on (from_pid found /proc/<pid>). *)
(* An open /proc/<pid>/mem file is bound to the incarnation that held the  *)
(* pid when it was opened; reading or writing it after that incarnation    *)
(* exited transfers 0 bytes.                                               *)
(***************************************************************************)
EXTENDS Naturals, FiniteSets

CONSTANTS
    Threads,    \* threads of the debugger calling read/write on the Process
    Addr,       \* addresses of the target a call may name
    Val,        \* contents of one address
    MaxInc,     \* bound on the processes that ever hold the pid
    MaxOps,     \* bound on the calls each thread makes
    NoThread,   \* no thread holds the write lock
    NoAddr,     \* file position that is none of Addr (fresh or advanced)
    NoVal       \* the call returned None

ASSUME NixMemoryAssumption ==
    /\ IsFiniteSet(Threads) /\ Threads # {}
    /\ Addr # {} /\ Val # {}
    /\ MaxInc \in Nat \ {0}
    /\ MaxOps \in Nat
    /\ NoThread \notin Threads
    /\ NoAddr \notin Addr
    /\ NoVal \notin Val

Inc == 1..MaxInc

\* The process the Process object was opened on.
Target == 1

\* What `write` returns: Some(len) after a full write, Some(0) when the
\* file's process has exited (the kernel's mem_rw returns 0 bytes).
Wrote == "Some(len)"
WroteZero == "Some(0)"

PC == {"idle", "r_check", "r_open", "r_install", "r_seek", "r_read",
       "w_open", "w_write"}

VARIABLES
    holder,   \* incarnation holding the pid, 0 when no process has it
    spawned,  \* incarnations that have held the pid so far
    mem,      \* mem[i][a]: contents of address a in incarnation i
    chanInc,  \* self.mem: 0 = None, i = Some(file bound to incarnation i)
    chanPos,  \* file position of the cached file
    writer,   \* thread holding the write lock of self.mem
    readers,  \* threads holding the read lock of self.mem
    pc,       \* where each thread is in read/write
    arg,      \* address argument of the thread's current call
    wval,     \* buffer of the thread's current write
    fd,       \* file the thread opened and still owns (0 = none)
    ret,      \* result of the thread's last call
    ops       \* calls made by each thread

vars == <<holder, spawned, mem, chanInc, chanPos, writer, readers,
          pc, arg, wval, fd, ret, ops>>
envVars == <<holder, spawned>>
lockVars == <<writer, readers>>
chanVars == <<chanInc, chanPos>>

TypeOK ==
    /\ holder \in 0..MaxInc
    /\ spawned \in Inc
    /\ mem \in [Inc -> [Addr -> Val]]
    /\ chanInc \in 0..MaxInc
    /\ chanPos \in Addr \cup {NoAddr}
    /\ writer \in Threads \cup {NoThread}
    /\ readers \subseteq Threads
    /\ pc \in [Threads -> PC]
    /\ arg \in [Threads -> Addr \cup {NoAddr}]
    /\ wval \in [Threads -> Val]
    /\ fd \in [Threads -> 0..MaxInc]
    /\ ret \in [Threads -> Val \cup {NoVal, Wrote, WroteZero}]
    /\ ops \in [Threads -> 0..MaxOps]

Init ==
    /\ holder = Target
    /\ spawned = Target
    /\ mem \in [Inc -> [Addr -> Val]]
    /\ chanInc = 0
    /\ chanPos = NoAddr
    /\ writer = NoThread
    /\ readers = {}
    /\ pc = [t \in Threads |-> "idle"]
    /\ arg = [t \in Threads |-> NoAddr]
    /\ wval = [t \in Threads |-> CHOOSE v \in Val : TRUE]
    /\ fd = [t \in Threads |-> 0]
    /\ ret = [t \in Threads |-> NoVal]
    /\ ops = [t \in Threads |-> 0]

\* /proc/<pid>/mem opened now is bound to whoever holds the pid; the open
\* fails when no process holds it.
Alive(i) == i # 0 /\ holder = i

\* Return from a call with result r.
Return(t, r) ==
    /\ pc' = [pc EXCEPT ![t] = "idle"]
    /\ ret' = [ret EXCEPT ![t] = r]

-----------------------------------------------------------------------------
(* A thread calls read(address, buf) or write(address, buf).               *)

CallRead(t) ==
    /\ pc[t] = "idle" /\ ops[t] < MaxOps
    /\ \E a \in Addr : arg' = [arg EXCEPT ![t] = a]
    /\ pc' = [pc EXCEPT ![t] = "r_check"]
    /\ ops' = [ops EXCEPT ![t] = @ + 1]
    /\ UNCHANGED <<envVars, mem, chanVars, lockVars, wval, fd, ret>>

CallWrite(t) ==
    /\ pc[t] = "idle" /\ ops[t] < MaxOps
    /\ \E a \in Addr : arg' = [arg EXCEPT ![t] = a]
    /\ \E v \in Val : wval' = [wval EXCEPT ![t] = v]
    /\ pc' = [pc EXCEPT ![t] = "w_open"]
    /\ ops' = [ops EXCEPT ![t] = @ + 1]
    /\ UNCHANGED <<envVars, mem, chanVars, lockVars, fd, ret>>

\* Mutant: the read guard of the check lives on through the branch, as the
\* scrutinee of `if let None = *self.mem.read().unwrap()` would.
ReadCheckGuardHeld(t) ==
    /\ pc[t] = "r_check"
    /\ writer = NoThread
    /\ pc' = [pc EXCEPT ![t] = IF chanInc = 0 THEN "r_open" ELSE "r_seek"]
    /\ readers' = IF chanInc = 0 THEN readers \cup {t} ELSE readers
    /\ UNCHANGED <<envVars, mem, chanVars, writer, arg, wval, fd, ret, ops>>

(* read, line 91: `self.mem.read().unwrap().is_none()`.  The read guard is *)
(* a temporary of the condition and is dropped before the branch runs.     *)
ReadCheck(t) ==
    /\ pc[t] = "r_check"
    /\ writer = NoThread
    /\ pc' = [pc EXCEPT ![t] = IF chanInc = 0 THEN "r_open" ELSE "r_seek"]
    /\ UNCHANGED <<envVars, mem, chanVars, lockVars, arg, wval, fd, ret, ops>>

(* read, line 92, right-hand side: File::open("/proc/<pid>/mem"), holding  *)
(* no lock; `.ok()?` returns None when the open fails.                     *)
ReadOpen(t) ==
    /\ pc[t] = "r_open"
    /\ \/ /\ holder = 0
          /\ Return(t, NoVal)
          /\ UNCHANGED fd
       \/ /\ holder # 0
          /\ fd' = [fd EXCEPT ![t] = holder]
          /\ pc' = [pc EXCEPT ![t] = "r_install"]
          /\ UNCHANGED ret
    /\ UNCHANGED <<envVars, mem, chanVars, lockVars, arg, wval, ops>>

(* read, line 92, assignment: take the write lock, store Some(file) in     *)
(* self.mem (dropping, and so closing, a file another thread installed),   *)
(* release the lock.  Nothing re-checks that self.mem is still None.       *)
ReadInstall(t) ==
    /\ pc[t] = "r_install"
    /\ writer = NoThread /\ readers = {}
    /\ chanInc' = fd[t]
    /\ chanPos' = NoAddr
    /\ fd' = [fd EXCEPT ![t] = 0]
    /\ pc' = [pc EXCEPT ![t] = "r_seek"]
    /\ UNCHANGED <<envVars, mem, lockVars, arg, wval, ret, ops>>

\* Mutant: seek and read under a shared lock, which `impl Read for &File`
\* would allow.
ReadSeekShared(t) ==
    /\ pc[t] = "r_seek"
    /\ writer = NoThread
    /\ chanPos' = arg[t]
    /\ pc' = [pc EXCEPT ![t] = "r_read"]
    /\ UNCHANGED <<envVars, mem, chanInc, lockVars, arg, wval, fd, ret, ops>>

\* Mutant: the seek runs under a write guard of its own, dropped before
\* the read takes the lock again.
ReadSeekSplit(t) ==
    /\ pc[t] = "r_seek"
    /\ writer = NoThread /\ readers = {}
    /\ chanPos' = arg[t]
    /\ pc' = [pc EXCEPT ![t] = "r_read"]
    /\ UNCHANGED <<envVars, mem, chanInc, lockVars, arg, wval, fd, ret, ops>>

(* read, line 94 and read_mem line 87: take the write lock (held to the    *)
(* end of the statement) and seek the cached file to the address.          *)
ReadSeek(t) ==
    /\ pc[t] = "r_seek"
    /\ writer = NoThread /\ readers = {}
    /\ writer' = t
    /\ chanPos' = arg[t]
    /\ pc' = [pc EXCEPT ![t] = "r_read"]
    /\ UNCHANGED <<envVars, mem, chanInc, readers, arg, wval, fd, ret, ops>>

(* read_mem line 87 and read lines 95-96: read at the file position; a     *)
(* file whose process has exited reads 0 bytes and read returns None; the  *)
(* write guard is dropped at the end of the statement.                     *)
ReadData(t) ==
    /\ pc[t] = "r_read"
    /\ \/ /\ Alive(chanInc)
          /\ Return(t, mem[chanInc][chanPos])
          /\ chanPos' = NoAddr
       \/ /\ ~Alive(chanInc)
          /\ Return(t, NoVal)
          /\ UNCHANGED chanPos
    /\ writer' = NoThread
    /\ UNCHANGED <<envVars, mem, chanInc, readers, arg, wval, fd, ops>>

(* write, line 101: File::create("/proc/<pid>/mem"), a new file per call. *)
WriteOpen(t) ==
    /\ pc[t] = "w_open"
    /\ \/ /\ holder = 0
          /\ Return(t, NoVal)
          /\ UNCHANGED fd
       \/ /\ holder # 0
          /\ fd' = [fd EXCEPT ![t] = holder]
          /\ pc' = [pc EXCEPT ![t] = "w_write"]
          /\ UNCHANGED ret
    /\ UNCHANGED <<envVars, mem, chanVars, lockVars, arg, wval, ops>>

(* write, lines 102-103: seek and write the private file, which is closed *)
(* when it goes out of scope.                                              *)
WriteData(t) ==
    /\ pc[t] = "w_write"
    /\ \/ /\ Alive(fd[t])
          /\ mem' = [mem EXCEPT ![fd[t]][arg[t]] = wval[t]]
          /\ Return(t, Wrote)
       \/ /\ ~Alive(fd[t])
          /\ Return(t, WroteZero)
          /\ UNCHANGED mem
    /\ fd' = [fd EXCEPT ![t] = 0]
    /\ UNCHANGED <<envVars, chanVars, lockVars, arg, wval, ops>>

-----------------------------------------------------------------------------
(* The operating system: the process holding the pid exits, and a new      *)
(* process may later be given the same pid.                                *)

Exit ==
    /\ holder # 0
    /\ holder' = 0
    /\ UNCHANGED <<spawned, mem, chanVars, lockVars, pc, arg, wval, fd, ret, ops>>

ReusePid ==
    /\ holder = 0
    /\ spawned < MaxInc
    /\ spawned' = spawned + 1
    /\ holder' = spawned + 1
    /\ UNCHANGED <<mem, chanVars, lockVars, pc, arg, wval, fd, ret, ops>>

-----------------------------------------------------------------------------

Step(t) ==
    \/ ReadCheck(t) \/ ReadOpen(t) \/ ReadInstall(t) \/ ReadSeek(t)
    \/ ReadData(t) \/ WriteOpen(t) \/ WriteData(t)

Next ==
    \/ \E t \in Threads : CallRead(t) \/ CallWrite(t) \/ Step(t)
    \/ Exit \/ ReusePid

\* A call, once made, is carried on by its thread: the thread is not
\* descheduled forever.  The lock is not fair (std's RwLock is not), but
\* every other thread makes at most MaxOps calls.
Fairness == \A t \in Threads : WF_vars(Step(t))

Spec == Init /\ [][Next]_vars /\ Fairness

-----------------------------------------------------------------------------
(* Properties.                                                             *)

\* A read that returns data returns the contents of the address it was
\* asked for, in the process of the cached file: another thread's seek on
\* the shared file position (read_mem, line 87) never lands between this
\* thread's seek and its read.
ReadsOwnAddress ==
    [][\A t \in Threads :
         (pc[t] = "r_read" /\ pc'[t] = "idle" /\ ret'[t] \in Val)
            => ret'[t] = mem[chanInc][arg[t]]]_vars

\* Every read or write that a thread starts returns: no thread waits
\* forever on the RwLock of self.mem, its own read guard included.
Termination == \A t \in Threads : pc[t] # "idle" ~> pc[t] = "idle"

\* The abstract view of the threads' calls: which kind each is in.
OpKind(p) == IF p = "idle" THEN "idle"
             ELSE IF p \in {"w_open", "w_write"} THEN "write" ELSE "read"

Atomic == INSTANCE NixMemoryAtomic WITH op <- [t \in Threads |-> OpKind(pc[t])]

\* read and write are linearizable: each call, whatever the other threads
\* do to the shared file and its position, behaves as one atomic access to
\* the memory of the process holding the pid at some instant inside the
\* call (NixMemoryAtomic), and every call returns.
ImplementsAtomic == Atomic!Spec

\* The spec (4.6): a Process whose target has exited returns None from its
\* accessors.  So a write through the Process never changes the memory of
\* any process other than its target (write opens /proc/<pid>/mem anew,
\* line 101).
WritesOnlyToTarget == [][\A i \in Inc \ {Target} : mem'[i] = mem[i]]_vars

\* The spec (4.2): read opens /proc/<pid>/mem on the first call and caches
\* it; later reads reuse the cached channel.  So once installed, the
\* channel in self.mem is never replaced (read, lines 91-92).
CachedChannelKept == [][chanInc # 0 => chanInc' = chanInc]_vars

=============================================================================
