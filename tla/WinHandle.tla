----------------------------- MODULE WinHandle -----------------------------
(***************************************************************************)
(* Kernel handles and the Process constructors on Windows                 *)
(* (src/src/os/windows/mod.rs): the Handle wrapper (lines 43-100),         *)
(* Process::open (411-420), Process::from_name (429-435),                  *)
(* Process::from_handle (437-446) and Process::current (448-450), with the *)
(* process snapshot from_name walks: enum_process and                      *)
(* enum_process_filter_name (224-241) over ToolHelperIter (102-153).       *)
(*                                                                         *)
(* The kernel keeps a process object, and its pid, until the process has  *)
(* exited AND its last handle is closed; only then may the pid be given to *)
(* a new process.  A Handle owns one handle value: Drop closes it, Clone   *)
(* duplicates it.  GetCurrentProcess() returns the pseudo-handle -1, the   *)
(* same value as INVALID_HANDLE_VALUE, which CloseHandle ignores.          *)
(* CreateToolhelp32Snapshot takes a slot of the handle table for the list *)
(* of processes running at that instant, or returns INVALID_HANDLE_VALUE  *)
(* when it cannot; ToolHelperIter wraps either in a Handle.                *)
(***************************************************************************)
EXTENDS Integers, Sequences, FiniteSets

CONSTANTS
    Pids,        \* pids the kernel may give to new processes
    Names,       \* executable names
    MaxProcs,    \* processes the kernel may create in a behaviour
    HandleVals,  \* handle values of the debugger's handle table
    MaxCurrent,  \* Process::current() objects alive at once
    NoObj        \* a free slot of the handle table

ASSUME WinHandleAssumption ==
    /\ Pids # {} /\ Names # {}
    /\ MaxProcs \in Nat
    /\ IsFiniteSet(HandleVals) /\ HandleVals \subseteq Nat \ {0}
    /\ MaxCurrent \in Nat
    /\ NoObj \notin Int

Pseudo == -1        \* GetCurrentProcess() = INVALID_HANDLE_VALUE
Self == 0           \* the debugger's own process object
Snap == -2          \* a toolhelp snapshot object
NoHandle == 0       \* no snapshot handle: from_name is not iterating
Procs == 1..MaxProcs
Values == HandleVals \cup {Pseudo}

VARIABLES
    nprocs,   \* processes created so far: 1..nprocs
    pidOf,    \* pidOf[i], nameOf[i]: pid and executable name of process i
    nameOf,
    live,     \* live[i]: process i has not exited
    table,    \* table[h]: the object an open handle value h refers to
    owners,   \* owners[h]: Handle values of the debugger that hold h
    pcName,   \* from_name: "idle", "iter" in lines 430-432, "open" at 434
    want,     \* from_name: the name asked for and the pid the snapshot gave
    qpid,
    snap,     \* the processes the snapshot lists, in its order
    snapH,    \* ToolHelperIter::handle: a slot, Pseudo (failed), NoHandle
    count,    \* ToolHelperIter::count
    cursor,   \* the snapshot's own position: the entry last returned
    opened,   \* the object the last open returned, or NoObj for None
    panicked  \* Handle::clone hit expect("clone")

vars == <<nprocs, pidOf, nameOf, live, table, owners, pcName, want, qpid,
          snap, snapH, count, cursor, opened, panicked>>
kernelVars == <<nprocs, pidOf, nameOf, live>>
nameVars == <<pcName, want, qpid, snap, snapH, count, cursor>>

TypeOK ==
    /\ nprocs \in 0..MaxProcs
    /\ pidOf \in [Procs -> Pids] /\ nameOf \in [Procs -> Names]
    /\ live \in [Procs -> BOOLEAN]
    /\ table \in [HandleVals -> Procs \cup {Self, Snap, NoObj}]
    /\ owners \in [Values -> Nat]
    /\ pcName \in {"idle", "iter", "open"} /\ want \in Names /\ qpid \in Pids
    /\ snap \in Seq(Procs) /\ snapH \in HandleVals \cup {Pseudo, NoHandle}
    /\ count \in Nat /\ cursor \in Nat
    /\ opened \in Procs \cup {Self, NoObj}
    /\ panicked \in BOOLEAN

Init ==
    /\ nprocs = 0
    /\ pidOf \in [Procs -> {CHOOSE p \in Pids : TRUE}]
    /\ nameOf \in [Procs -> {CHOOSE n \in Names : TRUE}]
    /\ live = [i \in Procs |-> FALSE]
    /\ table = [h \in HandleVals |-> NoObj]
    /\ owners = [h \in Values |-> 0]
    /\ pcName = "idle" /\ want = CHOOSE n \in Names : TRUE
    /\ qpid = CHOOSE p \in Pids : TRUE
    /\ snap = <<>> /\ snapH = NoHandle /\ count = 0 /\ cursor = 0
    /\ opened = NoObj
    /\ panicked = FALSE

\* A process object exists while it runs or a handle refers to it.
Exists(i) == i \in 1..nprocs /\ (live[i] \/ \E h \in HandleVals : table[h] = i)
Free == {h \in HandleVals : table[h] = NoObj}
\* The processes running now, which a snapshot lists.
Running == {i \in 1..nprocs : live[i]}

-----------------------------------------------------------------------------
(* The rest of the system.                                                 *)

Spawn(p, n) ==
    /\ nprocs < MaxProcs
    /\ ~\E i \in Procs : Exists(i) /\ pidOf[i] = p
    /\ nprocs' = nprocs + 1
    /\ pidOf' = [pidOf EXCEPT ![nprocs + 1] = p]
    /\ nameOf' = [nameOf EXCEPT ![nprocs + 1] = n]
    /\ live' = [live EXCEPT ![nprocs + 1] = TRUE]
    /\ UNCHANGED <<table, owners, nameVars, opened, panicked>>

ExitProc(i) ==
    /\ live[i]
    /\ live' = [live EXCEPT ![i] = FALSE]
    /\ UNCHANGED <<nprocs, pidOf, nameOf, table, owners, nameVars, opened, panicked>>

-----------------------------------------------------------------------------
(* The debugger.                                                           *)

(* Process::open then from_handle: OpenProcess(access, 0, pid) gives a new *)
(* handle to the object that holds pid, or NULL when there is none, the    *)
(* access is refused or the table is full; the Handle takes ownership.     *)
(* GetProcessId of a real process handle is never 0.                       *)
OpenPid(p) ==
    \/ \E i \in Procs, h \in Free :
          /\ Exists(i) /\ pidOf[i] = p
          /\ table' = [table EXCEPT ![h] = i]
          /\ owners' = [owners EXCEPT ![h] = 1]
          /\ opened' = i
    \/ /\ opened' = NoObj
       /\ UNCHANGED <<table, owners>>

Open(p) ==
    /\ pcName = "idle" /\ ~panicked
    /\ OpenPid(p)
    /\ UNCHANGED <<kernelVars, nameVars, panicked>>

(* from_name, line 430, with enum_process (lines 224-236) and              *)
(* ToolHelperIter::new (113-127): CreateToolhelp32Snapshot lists the       *)
(* running processes, oldest first, in a new handle, or fails when the     *)
(* table is full and                                                       *)
(* gives INVALID_HANDLE_VALUE, which new() wraps all the same.             *)
FromNameSnap(n) ==
    /\ pcName = "idle" /\ ~panicked
    /\ \/ \E h \in Free :
             /\ table' = [table EXCEPT ![h] = Snap]
             /\ owners' = [owners EXCEPT ![h] = 1]
             /\ snapH' = h
             /\ snap' \in {s \in [1..Cardinality(Running) -> Running] :
                             \A j, k \in DOMAIN s : j < k => s[j] < s[k]}
       \/ /\ Free = {}
          /\ snapH' = Pseudo /\ snap' = <<>>
          /\ UNCHANGED <<table, owners>>
    /\ pcName' = "iter" /\ want' = n /\ count' = 0 /\ cursor' = 0
    /\ UNCHANGED <<kernelVars, qpid, opened, panicked>>

\* Process32FirstW (first) or Process32NextW: the position the snapshot's
\* cursor moves to, and whether an entry is there.  Both fail on
\* INVALID_HANDLE_VALUE.
Moved(first) == IF first THEN 1 ELSE cursor + 1
HasEntry(c) == snapH # Pseudo /\ c \in 1..Len(snap)

\* The filter of enum_process_filter_name: the entry's executable name is
\* the one asked for (names are atoms here, so ignoring ASCII case is
\* plain equality).
NameMatches(i) == nameOf[i] = want

(* The iterator is dropped at the end of the statement (line 433): Drop    *)
(* closes its handle, which frees the slot unless the snapshot failed.     *)
CloseSnap ==
    /\ table' = IF snapH = Pseudo THEN table ELSE [table EXCEPT ![snapH] = NoObj]
    /\ owners' = IF snapH = Pseudo THEN owners ELSE [owners EXCEPT ![snapH] = 0]
    /\ snapH' = NoHandle

\* Mutant: from_name takes the first entry of the snapshot and checks its
\* name, without the filter of enum_process_filter_name.
FromNameNextFirstOnly ==
    /\ pcName = "iter"
    /\ LET c == Moved(count = 0) IN
       /\ cursor' = c
       /\ count' = count + 1
       /\ CloseSnap
       /\ IF HasEntry(c) /\ NameMatches(snap[c])
            THEN pcName' = "open" /\ qpid' = pidOf[snap[c]] /\ UNCHANGED opened
            ELSE pcName' = "idle" /\ opened' = NoObj /\ UNCHANGED qpid
    /\ UNCHANGED <<kernelVars, want, snap, panicked>>

\* Mutant: next_item never increments count, so every call is a First.
FromNameNextNoCount ==
    /\ pcName = "iter"
    /\ LET c == Moved(TRUE) IN
       /\ cursor' = c
       /\ IF HasEntry(c) /\ ~NameMatches(snap[c])
            THEN UNCHANGED <<table, owners, snapH, pcName, qpid, opened>>
          ELSE /\ CloseSnap
               /\ IF HasEntry(c) THEN pcName' = "open" /\ qpid' = pidOf[snap[c]]
                                   /\ UNCHANGED opened
                  ELSE pcName' = "idle" /\ opened' = NoObj /\ UNCHANGED qpid
    /\ UNCHANGED <<kernelVars, want, snap, count, panicked>>

(* from_name, lines 430-433: one call of Iterator::next (lines 146-152)    *)
(* and next_item (129-140) under the name filter of                        *)
(* enum_process_filter_name (239-241): First while count is 0, Next after, *)
(* count += 1.  An entry with another name makes the filter call next     *)
(* again; the first match gives its pid; None gives Err("name not found"). *)
FromNameNext ==
    /\ pcName = "iter"
    /\ LET c == Moved(count = 0) IN
       /\ cursor' = c
       /\ count' = count + 1
       /\ IF HasEntry(c) /\ ~NameMatches(snap[c])
            THEN UNCHANGED <<table, owners, snapH, pcName, qpid, opened>>
          ELSE /\ CloseSnap
               /\ IF HasEntry(c) THEN pcName' = "open" /\ qpid' = pidOf[snap[c]]
                                   /\ UNCHANGED opened
                  ELSE pcName' = "idle" /\ opened' = NoObj /\ UNCHANGED qpid
    /\ UNCHANGED <<kernelVars, want, snap, panicked>>

\* from_name, line 434: Self::open(pid, access).
FromNameOpen ==
    /\ pcName = "open"
    /\ OpenPid(qpid)
    /\ pcName' = "idle"
    /\ UNCHANGED <<kernelVars, want, qpid, snap, snapH, count, cursor, panicked>>

\* Process::current: a Handle holding the pseudo-handle.
Current ==
    /\ ~panicked /\ owners[Pseudo] < MaxCurrent
    /\ owners' = [owners EXCEPT ![Pseudo] = @ + 1]
    /\ opened' = Self
    /\ UNCHANGED <<kernelVars, table, nameVars, panicked>>

\* Mutant: Clone copies the raw value, as #[derive(Clone)] would.
CloneCopy(h) ==
    /\ ~panicked /\ owners[h] > 0 /\ (h = snapH => h = Pseudo)
    /\ owners' = [owners EXCEPT ![h] = @ + 1]
    /\ UNCHANGED <<kernelVars, table, nameVars, opened, panicked>>

(* Clone for Handle, lines 64-91: DuplicateHandle into a free slot; the    *)
(* pseudo-handle duplicates to a real handle of the debugger itself.       *)
(* A full table makes clone_from_raw fail and expect("clone") panic.       *)
CloneH(h) ==
    /\ ~panicked /\ owners[h] > 0 /\ (h = snapH => h = Pseudo)
    /\ \/ \E h2 \in Free :
             /\ table' = [table EXCEPT ![h2] = IF h = Pseudo THEN Self ELSE table[h]]
             /\ owners' = [owners EXCEPT ![h2] = 1]
             /\ UNCHANGED panicked
       \/ /\ Free = {}
          /\ panicked' = TRUE
          /\ UNCHANGED <<table, owners>>
    /\ UNCHANGED <<kernelVars, nameVars, opened>>

(* Drop for Handle, lines 94-100: CloseHandle on the value held, which     *)
(* frees whatever slot has that value; on -1 it does nothing.              *)
DropH(h) ==
    /\ ~panicked /\ owners[h] > 0 /\ (h = snapH => h = Pseudo)
    /\ owners' = [owners EXCEPT ![h] = @ - 1]
    /\ table' = IF h = Pseudo THEN table ELSE [table EXCEPT ![h] = NoObj]
    /\ UNCHANGED <<kernelVars, nameVars, opened, panicked>>

Next ==
    \/ \E p \in Pids, n \in Names : Spawn(p, n)
    \/ \E i \in Procs : ExitProc(i)
    \/ \E p \in Pids : Open(p)
    \/ \E n \in Names : FromNameSnap(n)
    \/ FromNameNext
    \/ FromNameOpen
    \/ Current
    \/ \E h \in Values : CloneH(h) \/ DropH(h)

\* The thread in from_name is not descheduled forever between two calls of
\* next(); nothing else is assumed to be fair.
Spec == Init /\ [][Next]_vars /\ WF_vars(FromNameNext)

-----------------------------------------------------------------------------

\* Spec I1 and 4.1: every open handle of the debugger is owned by exactly one
\* Handle and no Handle holds a closed value, so each is closed exactly once
\* and a Drop never closes a handle that a later open reused.
HandleOwnership ==
    \A h \in HandleVals : owners[h] = IF table[h] = NoObj THEN 0 ELSE 1

\* from_name reports "name not found" only when the snapshot it walked
\* listed no process of that name, or could not be taken: the filter of
\* enum_process_filter_name and ToolHelperIter's First/Next by count visit
\* every entry of the snapshot.
NotFoundMeansAbsent ==
    [][pcName = "iter" /\ pcName' = "idle" =>
         snapH = Pseudo \/ \A k \in 1..Len(snap) : nameOf[snap[k]] # want]_vars

\* Every from_name that has taken its snapshot leaves the iteration: the
\* walk of the snapshot ends (ToolHelperIter moves on with every call).
FromNameReturns == pcName = "iter" ~> pcName # "iter"

\* Spec 4.6: from_name returns a process whose executable has that name.
FromNameOpensNamed ==
    [][pcName = "open" /\ pcName' = "idle" /\ opened' # NoObj =>
         nameOf[opened'] = want]_vars

=============================================================================
