--------------------------- MODULE NixMemoryAtomic ---------------------------
(***************************************************************************)
(* What the Linux Process object promises of read and write                *)
(* (src/src/nix/process.rs, lines 90-104), stated without the file cache,  *)
(* the lock or the file position: every call takes effect at one instant,  *)
(* on the memory of the process that holds the pid at that instant, or    *)
(* fails and changes nothing.  NixMemory implements this specification     *)
(* under the refinement mapping NixMemory!Atomic: its check, open,        *)
(* install and seek steps are stutters, and a call takes effect at its    *)
(* ReadData or WriteData step, or at a failed open.                       *)
(***************************************************************************)
EXTENDS Naturals

CONSTANTS Threads, Addr, Val, MaxInc, MaxOps, NoAddr, NoVal

Inc == 1..MaxInc
Wrote == "Some(len)"
WroteZero == "Some(0)"

VARIABLES
    holder,   \* incarnation holding the pid, 0 when none
    spawned,  \* incarnations that have held the pid so far
    mem,      \* mem[i][a]: contents of address a in incarnation i
    op,       \* op[t]: "idle", or the call thread t is in: "read", "write"
    arg,      \* address of the thread's current call
    wval,     \* buffer of the thread's current write
    ret,      \* result of the thread's last call
    ops       \* calls made by each thread

avars == <<holder, spawned, mem, op, arg, wval, ret, ops>>

Init ==
    /\ holder = 1 /\ spawned = 1
    /\ mem \in [Inc -> [Addr -> Val]]
    /\ op = [t \in Threads |-> "idle"]
    /\ arg = [t \in Threads |-> NoAddr]
    /\ wval = [t \in Threads |-> CHOOSE v \in Val : TRUE]
    /\ ret = [t \in Threads |-> NoVal]
    /\ ops = [t \in Threads |-> 0]

\* A thread starts a call of the given kind on an address.
Call(t, kind) ==
    /\ op[t] = "idle" /\ ops[t] < MaxOps
    /\ op' = [op EXCEPT ![t] = kind]
    /\ \E a \in Addr : arg' = [arg EXCEPT ![t] = a]
    /\ ops' = [ops EXCEPT ![t] = @ + 1]
    /\ UNCHANGED <<holder, spawned, mem, ret>>

CallRead(t) == Call(t, "read") /\ UNCHANGED wval
CallWrite(t) == Call(t, "write") /\ \E v \in Val : wval' = [wval EXCEPT ![t] = v]

\* A read returns the contents of its address in the pid's current holder,
\* or None.
Read(t) ==
    /\ op[t] = "read"
    /\ op' = [op EXCEPT ![t] = "idle"]
    /\ \E r \in {NoVal} \cup (IF holder # 0 THEN {mem[holder][arg[t]]} ELSE {}) :
          ret' = [ret EXCEPT ![t] = r]
    /\ UNCHANGED <<holder, spawned, mem, arg, wval, ops>>

\* A write changes one address of the pid's current holder and returns
\* Some(len), or changes nothing and returns None or Some(0).
Write(t) ==
    /\ op[t] = "write"
    /\ op' = [op EXCEPT ![t] = "idle"]
    /\ \/ /\ holder # 0
          /\ mem' = [mem EXCEPT ![holder][arg[t]] = wval[t]]
          /\ ret' = [ret EXCEPT ![t] = Wrote]
       \/ /\ \E r \in {NoVal, WroteZero} : ret' = [ret EXCEPT ![t] = r]
          /\ UNCHANGED mem
    /\ UNCHANGED <<holder, spawned, arg, wval, ops>>

Exit ==
    /\ holder # 0 /\ holder' = 0
    /\ UNCHANGED <<spawned, mem, op, arg, wval, ret, ops>>

ReusePid ==
    /\ holder = 0 /\ spawned < MaxInc
    /\ spawned' = spawned + 1 /\ holder' = spawned + 1
    /\ UNCHANGED <<mem, op, arg, wval, ret, ops>>

Next ==
    \/ \E t \in Threads : \/ CallRead(t) \/ CallWrite(t)
                          \/ Read(t) \/ Write(t)
    \/ Exit \/ ReusePid

SafeSpec == Init /\ [][Next]_avars

\* Every call returns.
Spec == SafeSpec /\ \A t \in Threads : WF_avars(Read(t) \/ Write(t))

==============================================================================
