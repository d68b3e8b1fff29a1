# Verification models of the process inspection core

This directory holds TLA+ models of the process inspection and control core
in `src/`. There are two implementations of it:

- **Linux**: `src/src/nix/process.rs`. This is the Process object with its
  lazily opened `/proc/<pid>/mem` channel, the procfs readers, and the
  ptrace wait loop.
- **Windows**: `src/src/os/windows/mod.rs`. This is the Handle wrapper, the
  toolhelp enumerations, memory I/O through `ReadProcessMemory` and
  `WriteProcessMemory`, the `VirtualQueryEx` walk, the Process constructors
  and accessors, and `create_debug_process`.

Each model keeps the control of the code: every state change, guard, early
return and error path, in the code's order. It abstracts the data to what
the properties tell apart. TLC checks the models on small instances. TLAPS
proves nine results for every value of the constants:

- the Linux read invariant;
- that the Linux memory channel refines an atomic memory specification;
- the Windows handle ownership invariant, and that `from_name` walks its
  whole snapshot;
- the correctness of the ptrace status decoding;
- the parent of a created debuggee;
- that the Windows memory walk tiles the address space, and that it
  refines an abstract page walk;
- what a Windows write by a single writer does to the protections: each
  page of its range gets the first page's earlier protection, and no other
  page changes;
- that `process_cmdline` gives back the target's arguments, with only
  the trailing empty ones dropped.

## 1. The system: parts, state, operations, interactions

| Part | Code | State | Operations | Interacts with |
|---|---|---|---|---|
| Linux Process and memory channel | process.rs 48-104 | `pid`, `mem: RwLock<Option<Box<File>>>` | `from_pid`, `read` (check, open, install, seek+read), `read_mem`, `write` (fresh file per call) | concurrent callers of one Process; the kernel (the target's exit, pid reuse, `/proc/pid/mem` semantics) |
| Linux wait loop | process.rs 130-163 | none kept (one call = one notification) | `wait(opt)`: waitpid, decoding, GETEVENTMSG | the kernel's ptrace notifications; the caller's PTRACE_CONT |
| Linux process information | process.rs 4-46, 75-84 | none | `process_cmdline`, `process_environ`, `process_name`, `process_path`, `process_tasks`, `process_fd` | procfs files that may vanish |
| Windows Handle | mod.rs 43-100 | one `HANDLE` value | `from_raw_handle`, `clone_from_raw`/`Clone` (DuplicateHandle, `expect`), `Drop` (CloseHandle), `is_valid` | the kernel handle table; every other Windows part holds Handles |
| Windows toolhelp iterators | mod.rs 102-153, 224-277 | `count: u32`, snapshot Handle, `data` | `new`, `next_item` (First when count = 0, else Next), `next` | snapshot handles; `from_name`, `enumerate` |
| Windows memory I/O | mod.rs 305-345, 380-409, 608-623 | none (per call: `old_protect`) | `read_process_memory`, `write_process_memory` (relax, write, restore), `protect_memory`, `flush_cache` | page protections shared with the target and with other writer threads |
| Windows memory map | mod.rs 155-168, 347-378, 625-648 | `MemoryIter::address` | `enum_memory`, `next` (`address += size`), `next_commit`, `virtual_query` | the target's changing address space |
| Windows Process | mod.rs 347-350, 410-682 | `handle: Handle` | `open`, `from_name`, `from_handle`, `current`, `duplicate_from_other_process`, accessors | Handle, toolhelp, the kernel's process table (exit, pid reuse) |
| Windows debuggee creation | mod.rs 767-843 | per call: parent handle, attribute list | `create_debug_process` | the parent process, CreateProcessW |
| PE/PEB reader, thread context, exception records | mod.rs 242-251, 280-302, 686-735 | none | `read_nt_header`, `cmdline`, `get_thread_context`, `ExceptionRecord::copy` | the target's memory and threads |

### The behaviours that make this code hard

- **Threads sharing one Process.** The Linux `read` checks the cached
  channel under a read guard. The guard is a temporary and is dropped before
  the branch. The file is then opened with no lock held and installed under
  the write lock, and nothing checks the slot again. Seek and read share the
  file offset and both run under the write lock. On Windows, several threads
  may be inside `write_process_memory` at once, and each saves and restores
  page protections.
- **Pid reuse.** The Linux Process stores only a pid. `write` opens
  `/proc/<pid>/mem` on every call, and `read` opens it on its first call.
  Windows `from_name` takes a pid from a snapshot and opens it later. On
  Windows an open handle pins the process object and its pid. Nothing pins a
  Linux pid.
- **Kernel notifications in any order.** Several tracees stop, exec, clone,
  exit or are killed. A SIGKILL may land between `waitpid` and
  `PTRACE_GETEVENTMSG`. `waitpid` may also report nothing: it returns 0 with
  WNOHANG and -1 with ECHILD.
- **Resources on every exit path.** Handles are closed by `Drop`. Raw
  `HANDLE`s are not closed at all. One example is the parent handle of
  `create_debug_process`. The attribute list must be deleted even on error.
- **Numeric edges.** Status words are decoded with shifts and masks. The
  toolhelp `count` is a u32. `e_lfanew` is a signed offset that is cast to
  `usize`.

## 2. Modules

| Module | Models | State (variables) | Actions |
|---|---|---|---|
| `NixMemory` | Linux `read`, `read_mem`, `write` on one Process | `holder`/`spawned` (which incarnation holds the pid), `mem` (memory per incarnation), `chanInc`/`chanPos` (the cached channel: its incarnation and file offset), `writer`/`readers` (the RwLock), `pc`, `arg`, `wval`, `fd` (a file opened but not installed), `ret`, `ops` per thread | `CallRead`, `ReadCheck` (line 91), `ReadOpen` (line 92, right-hand side), `ReadInstall` (line 92, assignment), `ReadSeek` (line 94 and line 87's seek), `ReadData` (lines 87, 95-96); `CallWrite`, `WriteOpen` (line 101), `WriteData` (lines 102-103); the environment's `Exit` and `ReusePid` |
| `NixMemoryAtomic` | what `read` and `write` promise (process.rs 90-104), without cache, lock or offset | `holder`/`spawned`/`mem` as in `NixMemory`; `op`, `arg`, `wval`, `ret`, `ops` per thread | `CallRead`, `CallWrite`, `Read` (one atomic read of the holder's memory, or `None`), `Write` (one atomic write, or `None`/`Some(0)` with no effect), `Exit`, `ReusePid` |
| `NixMemoryProofs` | the theorems about `NixMemory`, the refinement included | | |
| `NixWaitProofs` | the decoding lemmas and the theorem about `NixWait` | | |
| `NixWait` | `Process::wait` against the kernel | `state`/`pending`/`kev`/`eventmsg` per tid (the kernel: the life of each tracee, its unreported status word, the change it stands for, the GETEVENTMSG value), `pc`, `cur`, `result`, `truth` (ghost: what the kernel recorded for the reported change) | `WaitReport(t)` (lines 134-160, when a tracee has a notification), `WaitNothing(opt)` (waitpid returns 0 or -1), `GetEventMsg` (lines 146-150, with the UB choice); the kernel's `TraceeStop`, `TraceeExec`, `TraceeClone`, `TraceeExit`, `TraceeKilled`, `TraceeContinued`, and the caller's `Resume` |
| `NixProcInfo` | `process_cmdline`, `process_environ` | `argv`, `env`, `readable` (the target's data and whether procfs lets us read it), `cmd`, `envmap`, `called` | `CallCmdline`, `CallEnviron`. The kernel's layout (`EncodeScan`), `slice::split` at NUL (`SplitScan`, one `SplitStep` per byte) and the pop loop of lines 13-15 (`PopScan`) are recursive functions over `0..n`, so that they can be reasoned about |
| `NixProcInfoProofs` | the lemmas and the theorem about `process_cmdline` | | |
| `WinWrite` | `write_process_memory` through `Process::write_memory` | `prot` per page; `pc`, `rng`, `old` (`old_protect`), `result`, `ret`, `before` (ghost) per writer thread | `Relax` (lines 318-330), `Write` (331-337, which may fail even after a successful relax), `Restore` (338-344) |
| `WinWriteProofs` | the invariant and the theorem about `WinWrite` | | |
| `WinHandle` | Handle, `open`, `from_handle`, `from_name`, `current` | the kernel: `nprocs`, `pidOf`, `nameOf`, `live`, `table` (the debugger's handle table); the debugger: `owners` (Handles holding each value), `pcName`/`want`/`qpid` (where from_name is, the name asked for, the pid found), `snap`/`snapH` (the toolhelp snapshot and the slot its Handle takes), `count`/`cursor` (the iterator's u32 counter and its place in the snapshot), `opened`, `panicked` | `Open` (411-420 with 437-446), `FromNameSnap(n)` (`ToolHelperIter::new`, 113-127), `FromNameNext` (one `next` of the iterator with the name filter, 129-152 and 430-433), `FromNameOpen` (434), `Current` (448-450), `CloneH` (64-91), `DropH` (94-100); the kernel's `Spawn` and `ExitProc` |
| `WinHandleProofs` | the theorems about `WinHandle` | | |
| `WinMemoryIterProofs` | the lemmas and the theorems about `WinMemoryIter`, the refinement included | | |
| `MemoryWalk` | what `enum_memory`'s walk promises (spec I2, I4, test 2), a page at a time | `alloc`, `state`, `changes`, `at` (the page the next region starts at), `out`, `ended` | `Report` (a whole run of the current map from `at`), `Finish` (at the last page), `TargetChange` |
| `WinMemoryIter` | `enum_memory`, `MemoryIter::next`, `virtual_query`, `MemoryPage::from` | `alloc`, `state` per page (the target's map), `changes`, `start`, `address`, `out`, `ended` | `IterNext` (369-378); the target's `TargetChange` |
| `WinCreateProcessProofs` | the theorem about `WinCreateProcess` | | |
| `WinCreateProcess` | `create_debug_process` | `path`, `args`, `ppid`, `parentAlive`, `pc`, `hParent`, `attrList`, `child`, `result` | `Start` (802-808), `OpenParent` (809-810), `InitList` (812), `Update` (813-827, failing on a list not initialised or on its own), `CreateExt` (828-832), `Create` (833-836), `Check` (838-841, with `from_handle` failing after the child exists); the parent's `ParentExit` |

Each `MC<Module>.tla` extends its module and gives the constants model
values. Each `MC<Module>*.cfg` is one run. `PROJECT.json` maps every
definition that models code to the source lines it translates.

The models that follow the kernel keep only what the code depends on:

- **Linux memory.** A `/proc/<pid>/mem` file is bound to the process that
  held the pid when the file was opened. Once that process has exited,
  reading or writing the file transfers 0 bytes.
- **Linux ptrace.** The status word is built as `kernel/exit.c` builds it:
  - exit: `code << 8`
  - killed by a signal: `sig`
  - stop: `sig << 8 | 0x7f`
  - ptrace event: `ev << 16 | SIGTRAP << 8 | 0x7f`
  - continued: `0xffff`

  A thread created by a clone is auto-attached and starts in a SIGSTOP stop.
- **Windows handles.** A process object, and its pid, lives until it has
  exited and its last handle is closed. `CloseHandle(-1)` does nothing.
- **Windows protections.** `VirtualProtectEx` fails on a range that crosses
  two allocations. On success it reports the protection of the first page.
  `WriteProcessMemory` fails unless the whole area is accessible.
- **Windows memory map.** `VirtualQueryEx(a)` reports the region from the
  page of `a` to the end of the run of pages that share its allocation and
  state.

## 3. Runs

| Run | Config | Expect | Checks | What it shows |
|---|---|---|---|---|
| nix_memory | `MCNixMemory.cfg` | pass | `ReadsOwnAddress`, `Termination`, `ImplementsAtomic` | 2 threads, 2 addresses, 2 values, the pid held by up to 2 processes, 1 call per thread. A successful read returns the value at its own address in the process its channel is bound to. Every call returns. Every behaviour, liveness included, is a behaviour of `NixMemoryAtomic` under the mapping `Atomic`. |
| nix_memory_pid_reuse_write | `MCNixMemory_WritesOnlyToTarget.cfg` | violation | `WritesOnlyToTarget` | The target exits, its pid is reused, and `write` changes the new process's memory. |
| nix_memory_channel_replaced | `MCNixMemory_CachedChannelKept.cfg` | violation | `CachedChannelKept` | Two first reads both pass the `is_none` check and both install, so the cached channel is replaced. After pid reuse the new channel is bound to another process. |
| nix_wait | `MCNixWait.cfg` | pass | `ReportsKernelChange` | 3 tids, exit codes {0,1}, signals {KILL, SEGV, STOP}, options {0, WNOHANG}. Every report that names a tracee is the change the kernel recorded for it: same kind, same code or signal. |
| nix_wait_exit_on_error | `MCNixWait_ExitMeansExited.cfg` | violation | `ExitMeansExited` | With nothing ready under WNOHANG, or with no tracee left, `wait` returns `Exit(0)` for tid 0 or -1. |
| nix_cmdline | `MCNixProcInfo.cfg` | pass | `CmdlineRoundTrip` | Every argv of up to 3 arguments of up to 1 byte, empty ones included. `process_cmdline` returns the arguments with only the trailing empty ones dropped. |
| win_write | `MCWinWrite.cfg` | pass | `RestoresFirstPage` | 1 writer, 5 pages in 3 allocations, the first of which holds a code page and a read-only page. Every call leaves each page of its range at the first page's earlier protection and every other page at its own. A call whose range crosses allocations changes nothing, and a failed `WriteProcessMemory` still restores. |
| win_write_mixed_pages | `MCWinWrite_MixedPages.cfg` | violation | `ProtectionRestored` | A code page and a read-only page in one allocation both end up with the first page's protection. |
| win_handle | `MCWinHandle.cfg` | pass | `HandleOwnership`, `NotFoundMeansAbsent`, `FromNameReturns` | 2 pids, 3 processes (so one pid is reused), 2 names, 2 handle slots (so the table fills, slots are reused, and a snapshot may find no slot). Every open handle, the snapshot's included, is owned by exactly one Handle. `from_name` returns `None` only when no process of its snapshot has the name, or when the snapshot failed. Every `from_name` leaves its iteration. |
| win_memory_walk | `MCWinMemoryIter.cfg` | pass | `WalkCoversSpace`, `ImplementsWalk` | 3 pages of 2 addresses each (so a start address can be unaligned), and the target changes its map up to twice. The regions reported tile the address space from the start page to the last page, and the walk implements `MemoryWalk` under `at <- address \div PageSize`. |
| win_create_process | `MCWinCreateProcess.cfg` | pass | `ParentAsAsked` | Paths and arguments of up to 2 characters, with and without a ppid, a parent that may exit, and an attribute list whose initialisation may fail. A created debuggee has the parent that was asked for. |
| win_create_process_leak | `MCWinCreateProcess_ResourcesReleased.cfg` | violation | `ResourcesReleased` | The parent handle is never closed. An initialised attribute list is not deleted when `UpdateProcThreadAttribute` fails. |

Every property of a passing run has a mutant in `PROJECT.json`. A mutant
replaces one mapped definition with a plausible bug, and TLC then finds the
property violated:

- `ReadSeekShared` seeks under the read lock.
- `ReadSeekSplit` seeks without taking the lock at all (breaks `ImplementsAtomic`).
- `FromNameNextFirstOnly` calls `Process32First` on every `next`, so only the
  first entry is ever seen.
- `FromNameNextNoCount` never increments `count`, so `from_name` loops on the
  first entry.
- `ReadCheckGuardHeld` keeps the read guard over the install.
- `PtraceEventLow` shifts by 8 instead of 16.
- `PopTrailingOnce` uses `if` for `while`.
- `RelaxOldAfterChange` saves the protection after changing it.
- `CloneCopy` copies the raw value, as `#[derive(Clone)]` would.
- `NextFromAllocBase` advances from the allocation base.
- `CreateExtNoFlag` drops `EXTENDED_STARTUPINFO_PRESENT`.

The models also define four properties that TLC finds violated but that no
listed run checks:

- `CloneCarriesNewTid` (NixWait): `Clone(0)` after a clone event, because of
  the undefined behaviour of the GETEVENTMSG write.
- `EnvironComplete` (NixProcInfo): `process_environ` is always empty.
- `FromNameOpensNamed` (WinHandle): exit and pid reuse between the snapshot
  and `OpenProcess`.
- `CommandLineRoundTrip` (WinCreateProcess): an empty argument, or one
  holding a space, does not reach the debuggee.

`PROJECT.json` lists each of them as a hazard.

### Why these bounds are enough

- **nix_memory.** Two threads are needed for every race in `read`, and two
  incarnations for pid reuse. One call per thread already covers check,
  open, install and read of both threads in every order, with an exit and a
  reuse anywhere in between. Two calls per thread gave 2.4M states and no
  new action orders.
- **nix_wait.** Three tids cover one clone of a clone. With two signals,
  every tracee can be both stopped and killed.
- **WinHandle.** Two slots and three processes over two pids are the least
  that make both slot reuse and pid reuse happen. With two slots, a
  `from_name` whose snapshot would need a third finds the table full and
  takes the `INVALID_HANDLE_VALUE` path. Two names let the filter both skip
  and match. Snapshots list the running processes in creation order. The
  run has 1.76M distinct states and takes about 1.5 minutes.
- **WinMemoryIter.** Page size 2 allows unaligned starts, and two changes
  let a region split and merge during a walk.

### Fairness

`NixMemory` assumes weak fairness for each thread's steps: a thread that can
take its next step eventually does. Every step of `read` and `write` is
either a lock acquisition or a system call that returns, and std's RwLock
grants a lock that stays free. The RwLock is not fair, but the calls are
bounded (`MaxOps`), so fairness is needed only for progress and never for
arbitration. `Termination` is checked under this fairness.
`NixMemoryAtomic!Spec` asks the same of each thread's read or write, and
`ImplementsAtomic` checks it under the mapping.

`WinHandle` assumes weak fairness of `FromNameNext`. A `next` of the
toolhelp iterator is one `Process32First`/`Process32Next` call on a
snapshot the debugger holds, so it returns, and the loop in `from_name`
calls it until a match or the end. `FromNameReturns` is checked under this
fairness. The other models check only safety and assume no fairness.

Every run sets `CHECK_DEADLOCK FALSE`, because every model has bounded
behaviours that end:

- the calls are bounded (`MaxOps`, one call per function);
- the kernel's process creation is bounded (`MaxProcs`, `MaxInc`);
- a panic or a finished walk ends the debugger.

## 4. What is proved

`NixMemoryProofs` proves these theorems for every value of the constants
(any number of threads, addresses, values and incarnations):

- `TypeCorrect`: `Spec => []TypeOK`.
- `SeekReadAtomic`: `Spec => ReadsOwnAddress`.

They rest on the constants' assumption `NixMemoryAssumption`. The argument
uses the inductive invariant `IInv == TypeOK /\ ArgsOK /\ LockInv`:

- `ArgsOK`: a thread inside a call holds an address.
- `LockInv`:
  - a thread is at `r_read` exactly when it holds the write lock;
  - while a thread holds the write lock, the channel's offset is that
    thread's address.

`ReadsOwnAddress` alone is not inductive. It speaks only of the
`r_read -> idle` step, and it needs the fact that no other thread moved the
offset since this thread's seek. That fact is `LockInv`, and it holds
because both `ReadSeek` and `ReadData` require the write lock with no reader
and no other writer. `InitIInv` and `NextIInv` establish `IInv`, with one
case per action and one step per conjunct. `SeekReadAtomic` then shows that
a step from `r_read` to `idle` with a value is a `ReadData` step, whose value
is read at `chanPos = arg[t]`.

`Refinement`: `Spec => Atomic!SafeSpec`. `NixMemory` implements the safety
part of `NixMemoryAtomic` under the mapping `Atomic`. The mapping keeps
`holder`, `spawned`, `mem`, `arg`, `wval`, `ret` and `ops`, and maps each
thread's `pc` to the kind of call it is in (`OpKind`). The proof has two
parts:

- `Init` maps to `Atomic!Init`.
- The lemma `StepRefines` shows that every step of `NixMemory` under `IInv`
  is a step of the abstract spec or a stutter:
  - `ReadCheck`, `ReadInstall` and `ReadSeek` are stutters (`InnerStutter`),
    and so is an open that succeeds;
  - a failed open is an abstract `Read` or `Write` that returns `None`;
  - `ReadData` is an abstract `Read`, and `LockInv` gives `chanPos = arg[t]`.
    A channel bound to a dead or earlier incarnation reads `None`, and the
    abstract `Read` allows `None` at any instant;
  - `WriteData` is an abstract `Write` on the holder, or one that fails
    without effect.

Liveness of the mapping (`ImplementsAtomic` with its fairness) is checked by
TLC only.
`WinHandleProofs` proves `OwnershipInvariant`: `Spec => []HandleOwnership`.
This holds for any set of pids and names, any handle table size and any
process bound, from `WinHandleAssumption`. The assumptions it uses:

- the pids and names are nonempty sets;
- handle values are positive naturals, so the pseudo-handle -1 is never a
  table slot;
- `NoObj` is not an integer, so the snapshot object `Snap` (-2) is not
  `NoObj`.

The inductive invariant is
`IInv == TypeOK /\ HandleOwnership /\ SnapHeld`. `SnapHeld` says that during
the iteration the snapshot Handle is held, either in a slot or as -1.
Without it, the `CloseSnap` at the end of the iteration could not be shown
to free the slot the snapshot took. The argument:

- `OpenPid` and `CloneH` fill only a slot in `Free` and give it one owner.
  `CloneH` acts on a Handle that owns something, so its slot is in use and
  the copy refers to a real object, or to the debugger for the pseudo-handle.
- `DropH` on a real value empties a slot whose owner count the invariant
  pins at 1. On the pseudo-handle it touches no slot.
- The lemma `OpenPidIInv` covers the open shared by `Open` and `FromNameOpen`.
- `FromNameSnap` takes a free slot with one owner, or none when the table is
  full. `FromNameNext` frees that slot when the iteration ends. The snapshot
  is a finite sequence because the set of running processes is finite
  (`FS_Interval`, `FS_Subset`).

`WinHandleProofs` also proves `NotFoundInvariant`:
`Spec => NotFoundMeansAbsent`. It rests on `WalkInv`:

- every entry of a snapshot is a process already created, so a later
  `Spawn`, which names the next index, does not rename it;
- during the iteration, `cursor <= Len(snap)` and `count = 0 => cursor = 0`,
  so the next position is always `cursor + 1`;
- no entry up to the cursor has the name asked for.

`NextWalk` shows that `WalkInv` is preserved, with `IInv` giving the types.
The lemma `RunningFinite` gives the snapshot's length. `NotFoundStep` then
shows that an iteration ends with "not found" only when there is no entry
at `cursor + 1`. At that point the cursor is at the end of the snapshot,
and every entry has been skipped.

`NixWaitProofs` proves `KernelChangeReported`: `Spec => ReportsKernelChange`.
This holds for any set of tids, exit codes in 0..255 and signals in 1..31.
It rests on five decoding lemmas, one per status word the kernel builds
(`DecodeExit`, `DecodeKilled`, `DecodeStop`, `DecodeEvent`,
`DecodeContinued`). Each shows that wait's chain of tests, written with
`%` and `\div` as the libc macros are, gives back the kind and the value.
The inductive invariant adds two facts to a typing conjunct:

- `PendingOK`: every pending status word decodes to the change the kernel
  recorded;
- `CloneInFlight`: between waitpid and GETEVENTMSG the change reported is a
  clone.

`ReportStep` then shows the action property one step at a time. The tid that
GETEVENTMSG returns is outside the property, because of the undefined
behaviour at line 147.

`WinCreateProcessProofs` proves `ParentInvariant`: `Spec => []ParentAsAsked`.
This holds for any set of parents and any bounds on paths and arguments.
`ParentAsAsked` is not inductive, because a state at `check` holding a child
of the wrong parent satisfies it. The strengthening `IInv` adds:

- `BranchOK`: the branch of line 802 matches `ppid`;
- `NoChildYet`: no child exists before `CreateProcessW`;
- `ChildParent`: a created child has the expected parent;
- `OkHasChild`: an `Ok` result has a child.

`WinMemoryIterProofs` proves `WalkTilesSpace`: `Spec => []WalkCoversSpace`.
This holds for any number of pages, any page size and any bound on the
target's changes (`WinMemoryIterAssumption`). `WalkCoversSpace` is not
inductive: it says nothing of where the next query starts. The strengthening
`AddressOK` ties `address` to the output:

- before the first region, `address = start`;
- after it, the last region ends on a page boundary `k * PageSize` and
  `address = k * PageSize + start % PageSize`, because line 376 adds the
  region size to an address that keeps the offset of `start`;
- once the walk has ended, `address` has reached the limit.

The step lemmas `QueryPage` and `QueryRegion` say what `virtual_query`
returns: the region starts at the page of the address and ends at the end of
its run. `RegionEndRange` finds that end as the least page past the run,
using `WFMin` of `WellFoundedInduction` over `<` on `Nat`, so no recursion is
needed. `PageOf`, `SplitAddress`, `PagesOrdered` and `RegionSpan` carry the
arithmetic with `\div` and `%` that the SMT solver does not find alone.

The same module proves `WalkRefinement`: `Spec => ImplementsWalk`, so the
walk implements `MemoryWalk` under the mapping `at <- address \div PageSize`
(the other variables map to themselves; `start` is hidden). `InitRefines`
shows that `enum_memory` starts on a user page. `StepRefines` maps each step,
using the invariant `IInv` above:

- a change of the target's map is `MemoryWalk`'s `TargetChange`;
- a `next()` below the limit is a `Report`. By `QueryPage`, the address is
  its page plus the start's offset. By `RegionEndRange`, `virtual_query`
  reports the whole run from that page, and adding the region's size moves
  the address to the run's end page, with the offset kept;
- a `next()` at or past the limit is a `Finish`. `WalkAtEnd` derives from
  `AddressOK` that the address then lies on page `NPages` exactly, and no
  further;
- any other step leaves the abstract state alone.

The theorem combines these with `[]IInv` by `PTL`. `MemoryWalk` has no
fairness, so the refinement is a safety property and is proved in full.

`WinWriteProofs` proves `WriteEffectForOneWriter`: for a writer `w`, if
`Writers = {w}`, then `Spec => RestoresFirstPage`. This holds for any
number of pages, any allocations and any initial protections. Each call
leaves every page of its range at the protection the range's first page had
when the call began, and every other page at its own. A call whose relax
failed changes nothing, and a failed `WriteProcessMemory` does not stop the
restore. So the spec's promise, `ProtectionRestored`, holds exactly for a
range whose pages shared one protection. Run `win_write_mixed_pages` shows
the other case.

The single writer is a real hypothesis. With two writers, TLC finds this
violation of `ProtectionRestored` on two pages of one `RX` allocation:

1. `w1` relaxes page 1;
2. `w2` relaxes pages 1-2 and saves `w1`'s `RWX` as its `old_protect`;
3. `w2` restores `RWX` over page 2, which was `RX`.

This is the interleaving hazard at `mod.rs:322`. The inductive invariant
`IInv(w)` describes a call relative to the protections `before[w]` it began
with:

- if the range lies in one allocation, `old[w]` is the first page's entry
  of `before[w]`, and `prot` is `before[w]` with the range made
  `PAGE_EXECUTE_READWRITE` (`Relaxed`);
- otherwise `old[w]` is `NoProt` and `prot` is `before[w]`.

Only `Restore` returns from a call (`ReturnEffect`). At a restore,
`old[w] # NoProt` exactly when the relax succeeded, so the pages of the
range get `old[w]` and the others keep `before[w]`.

`NixProcInfoProofs` proves `CmdlineRoundTripHolds`:
`Spec => []CmdlineRoundTrip`, for every byte alphabet and every bound on
argument counts and lengths (`NixProcInfoAssumption`). The invariant is
almost inductive: `IInv` adds only that `argv` is a sequence of byte
strings. The work is in one fact about the data, `CmdlineOfLayout`:
`ProcessCmdline(Encode(a)) = Kept(a)` for every argument list `a`. It
rests on these lemmas:

- `EncodeScanDef`, `SplitScanDef` and `PopScanDef` give the defining
  equations of the three recursive functions. Each one comes from
  `FiniteNatInductiveDef`, with the step written as a LAMBDA.
- `UpTo` is induction over `0..n`, stated with the set of indices where
  the claim holds instead of an operator. It is proved from a least
  counterexample (`Least`, from `WFMin`), so no backend has to instantiate
  an operator parameter.
- `ScanAgree`: `split` looks only at the bytes it has passed.
  `ScanWord`: the bytes of one argument grow the last piece into that
  argument.
- `EncodeStep` and `SplitEncode`: the layout of `a`, split at NUL, is `a`
  followed by one empty piece.
- `PopStep`, `PopEnds`, `KeptAt` and `PopKept`: the while loop stops at the
  last nonempty argument, which is where `Kept` cuts.

Some things only TLC checks:

- `Termination`, `FromNameReturns` and the fairness part of
  `ImplementsAtomic`, because TLAPS does not check liveness or ENABLED.
- `RestoresFirstPage` with several writers: it does not hold there (see
  the trace above).
- `EnvironComplete` and the other properties of the runs that expect a
  violation.

## 5. What is not modelled, and why

- **Linux constructors** (`from_pid`, `from_comm`, `from_name`, `current`)
  and `get_regs`/`siginfo`: single procfs tests or ptrace calls. Their
  name-then-open race is the one modelled in `WinHandle`.
- **Windows toolhelp iterator, beyond `from_name`.** `WinHandle` models the
  iterator inside `from_name`. Its u32 `count` would wrap only after 2^32
  calls on one snapshot, and then the iterator restarts the snapshot.
  `from_name` calls `next` at most once per entry plus one, so the wrap
  cannot happen there. The other users
  (`ProcessInfo::enumerate`, thread and module lists) are not modelled.
- **Windows accessors** (`pid`, `peb`, `is_wow64`, module name, path, list
  and info, `image_path`, `cmdline`, `terminate`, `get_exit_code`,
  `get_mapped_file_name`, `virtual_alloc`/`free`, `flush_cache`) and the PE
  reader: one or two OS calls each, with no state of the core's own. Their
  hazards are listed: the truncated module list, the negative `e_lfanew`.
- **`get_thread_context`** (ignores `SuspendThread`'s result): listed as
  a hazard. **`ExceptionRecord::copy`** copies `NumberParameters` entries,
  which the kernel keeps within `EXCEPTION_MAXIMUM_PARAMETERS`.
- **`duplicate_from_other_process`**, `ModuleIter`/`MemoryIter`/`PidIter` on
  Linux, and the demangler: the code they rely on is outside `src/`.
- **Formatting and decoding** (UTF-16, ANSI fallback): no property is about
  them.

## 6. Plan

The order in which the models were built, and what comes next:

1. **Done:**
   - `NixMemory` and its proofs, with the refinement to `NixMemoryAtomic`;
   - `NixWait` and its decoding proof;
   - `NixProcInfo` and `WinWrite`;
   - `WinHandle`, with the toolhelp iterator composed into `from_name`, and
     its ownership proof;
   - `WinMemoryIter` and its tiling proof;
   - `WinCreateProcess` and its parent proof;
   - the `WinWrite` effect proof for one writer;
   - the `process_cmdline` round-trip proof;
   - the refinement of `WinMemoryIter` to `MemoryWalk`.
2. **Next proofs:**
   - an abstract `from_name` that returns the first matching entry of its
     snapshot, and the toolhelp iterator shown to refine it;
3. **More models:**
   - `get_module_list`'s two-call pattern against modules loading between
     the calls;
   - `get_thread_context` with thread suspend counts;
   - `ProcessInfo::enumerate` over the same snapshot iterator.
