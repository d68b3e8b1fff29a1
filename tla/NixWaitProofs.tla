--------------------------- MODULE NixWaitProofs ---------------------------
(***************************************************************************)
(* Proofs about the Linux wait loop (src/src/nix/process.rs, lines       *)
(* 130-163), for every set of tids, exit codes and signals.               *)
(*                                                                         *)
(* The decoding lemmas show that wait's chain of WIFEXITED, WIFSIGNALED,   *)
(* WIFSTOPPED, the event test of line 143 and WIFCONTINUED gives back     *)
(* what each status word the kernel packs stands for.  With them,          *)
(* ReportsKernelChange follows from an invariant: every pending status    *)
(* word decodes to the change the kernel recorded for its tracee, and a    *)
(* wait that is between waitpid and GETEVENTMSG reports a clone event.    *)
(***************************************************************************)
EXTENDS NixWait, TLAPS

\* Status word s decodes to the WaitStatus ws, but for a clone's tid, which
\* only GETEVENTMSG gives.
Decodes(s, ws) ==
    /\ Classify(s).kind = ws.kind
    /\ ws.kind # "Clone" => Classify(s).val = ws.val

-----------------------------------------------------------------------------
(* The decoding of each status word.                                       *)

LEMMA DecodeExit ==
    ASSUME NEW c \in 0..255
    PROVE  Classify(ExitStatus(c)) = WS("Exit", c)
BY DEF Classify, ExitStatus, WIFEXITED, WEXITSTATUS, WS

LEMMA DecodeKilled ==
    ASSUME NEW sig \in 1..31
    PROVE  Classify(KilledStatus(sig)) = WS("Signal", sig)
BY DEF Classify, KilledStatus, WIFEXITED, WIFSIGNALED, WTERMSIG, WS

LEMMA DecodeStop ==
    ASSUME NEW sig \in 1..31
    PROVE  Classify(StopStatus(sig)) = WS("Stop", sig)
<1>1. /\ ~WIFEXITED(StopStatus(sig))
      /\ ~WIFSIGNALED(StopStatus(sig))
      /\ WIFSTOPPED(StopStatus(sig))
    BY DEF StopStatus, WIFEXITED, WIFSIGNALED, WIFSTOPPED
<1>2. PtraceEvent(StopStatus(sig)) = 0
    BY DEF StopStatus, PtraceEvent
<1>3. WSTOPSIG(StopStatus(sig)) = sig
    BY DEF StopStatus, WSTOPSIG, WEXITSTATUS
<1>4. QED
    BY <1>1, <1>2, <1>3 DEF Classify, PTRACE_EVENT_CLONE, PTRACE_EVENT_EXEC

LEMMA DecodeEvent ==
    ASSUME NEW ev \in {PTRACE_EVENT_CLONE, PTRACE_EVENT_EXEC}
    PROVE  Classify(EventStatus(ev)) =
               WS(IF ev = PTRACE_EVENT_CLONE THEN "Clone" ELSE "Exec", 0)
<1>1. /\ ~WIFEXITED(EventStatus(ev))
      /\ ~WIFSIGNALED(EventStatus(ev))
      /\ WIFSTOPPED(EventStatus(ev))
    BY DEF EventStatus, SIGTRAP, PTRACE_EVENT_CLONE, PTRACE_EVENT_EXEC,
           WIFEXITED, WIFSIGNALED, WIFSTOPPED
<1>2. PtraceEvent(EventStatus(ev)) = ev
    BY DEF EventStatus, SIGTRAP, PTRACE_EVENT_CLONE, PTRACE_EVENT_EXEC, PtraceEvent
<1>3. QED
    BY <1>1, <1>2 DEF Classify, PTRACE_EVENT_CLONE, PTRACE_EVENT_EXEC

LEMMA DecodeContinued ==
    Classify(ContinuedStatus) = WS("Continue", 0)
BY DEF Classify, ContinuedStatus, WIFEXITED, WIFSIGNALED, WIFSTOPPED, WIFCONTINUED


-----------------------------------------------------------------------------
(* The invariant.                                                          *)

\* The types the proof needs of the kernel's state.
Typ ==
    /\ state \in [Tids -> TState]
    /\ pending \in [Tids -> Int \cup {NoStatus}]
    /\ kev \in [Tids -> [kind : Kinds, val : Int]]
    /\ pc \in {"idle", "geteventmsg", "panic"}

\* Every unreported notification decodes to the change the kernel recorded.
PendingOK == \A t \in Tids : pending[t] # NoStatus => Decodes(pending[t], kev[t])

\* Between waitpid and GETEVENTMSG, the change being reported is a clone.
CloneInFlight == pc = "geteventmsg" => truth.kind = "Clone"

IInv == Typ /\ PendingOK /\ CloneInFlight

LEMMA InitIInv == Init => IInv
BY DEF Init, IInv, Typ, PendingOK, CloneInFlight, TState, Kinds, WS

(* A notification the kernel posts decodes to what it records: the step   *)
(* that posts status s with record ws keeps PendingOK.                     *)
LEMMA NotifyOK ==
    ASSUME NEW t \in Tids, NEW st, NEW s \in Int, NEW ws,
           Typ, PendingOK, Decodes(s, ws),
           Notify(t, st, s, ws)
    PROVE  PendingOK'
BY DEF Notify, PendingOK, Typ

LEMMA NextIInv == IInv /\ [Next]_vars => IInv'
<1> SUFFICES ASSUME IInv, [Next]_vars PROVE IInv'
    OBVIOUS
<1> USE NixWaitAssumption DEF IInv
<1>1. ASSUME NEW t \in Tids, NEW sig \in Signals \ {SIGKILL}, TraceeStop(t, sig)
      PROVE  IInv'
    <2>1. Decodes(StopStatus(sig), WS("Stop", sig))
        BY DecodeStop DEF Decodes
    <2>2. Typ'
        BY <1>1 DEF TraceeStop, Notify, Typ, StopStatus, WS, TState, Kinds
    <2>3. QED
        BY <1>1, <2>1, <2>2, NotifyOK DEF TraceeStop, StopStatus, CloneInFlight
<1>2. ASSUME NEW t \in Tids, NEW sig \in Signals \ {SIGSTOP}, TraceeKilled(t, sig)
      PROVE  IInv'
    <2>1. Decodes(KilledStatus(sig), WS("Signal", sig))
        BY DecodeKilled DEF Decodes
    <2>2. Typ'
        BY <1>2 DEF TraceeKilled, Notify, Typ, KilledStatus, WS, TState, Kinds
    <2>3. QED
        BY <1>2, <2>1, <2>2, NotifyOK DEF TraceeKilled, KilledStatus, CloneInFlight
<1>3. ASSUME NEW t \in Tids, TraceeExec(t)
      PROVE  IInv'
    <2>1. Decodes(EventStatus(PTRACE_EVENT_EXEC), WS("Exec", 0))
        BY DecodeEvent DEF Decodes, PTRACE_EVENT_EXEC, PTRACE_EVENT_CLONE
    <2>2. Typ'
        BY <1>3 DEF TraceeExec, Notify, Typ, EventStatus, SIGTRAP,
                    PTRACE_EVENT_EXEC, WS, TState, Kinds
    <2>3. QED
        BY <1>3, <2>1, <2>2, NotifyOK DEF TraceeExec, EventStatus, SIGTRAP,
                                          PTRACE_EVENT_EXEC, CloneInFlight
<1>4. ASSUME NEW t \in Tids, NEW n \in Tids, TraceeClone(t, n)
      PROVE  IInv'
    <2>1. t # n
        BY <1>4 DEF TraceeClone
    <2>2. Decodes(EventStatus(PTRACE_EVENT_CLONE), WS("Clone", n))
        BY DecodeEvent DEF Decodes, WS, PTRACE_EVENT_EXEC, PTRACE_EVENT_CLONE
    <2>3. Decodes(StopStatus(SIGSTOP), WS("Stop", SIGSTOP))
        BY DecodeStop DEF Decodes, SIGSTOP
    <2>4. Typ'
        BY <1>4 DEF TraceeClone, Typ, EventStatus, StopStatus, SIGTRAP, SIGSTOP,
                    PTRACE_EVENT_CLONE, WS, TState, Kinds
    <2>5. PendingOK'
        BY <1>4, <2>1, <2>2, <2>3 DEF TraceeClone, PendingOK, Typ
    <2>6. QED
        BY <1>4, <2>4, <2>5 DEF TraceeClone, CloneInFlight
<1>5. ASSUME NEW t \in Tids, NEW code \in ExitCodes, TraceeExit(t, code)
      PROVE  IInv'
    <2>1. Decodes(ExitStatus(code), WS("Exit", code))
        BY DecodeExit DEF Decodes
    <2>2. Typ'
        BY <1>5 DEF TraceeExit, Notify, Typ, ExitStatus, WS, TState, Kinds
    <2>3. QED
        BY <1>5, <2>1, <2>2, NotifyOK DEF TraceeExit, ExitStatus, CloneInFlight
<1>6. ASSUME NEW t \in Tids, TraceeContinued(t)
      PROVE  IInv'
    <2>1. Decodes(ContinuedStatus, WS("Continue", 0))
        BY DecodeContinued DEF Decodes
    <2>2. Typ'
        BY <1>6 DEF TraceeContinued, Notify, Typ, ContinuedStatus, WS, TState, Kinds
    <2>3. QED
        BY <1>6, <2>1, <2>2, NotifyOK DEF TraceeContinued, ContinuedStatus, CloneInFlight
<1>7. ASSUME NEW t \in Tids, Resume(t)
      PROVE  IInv'
    BY <1>7 DEF Resume, Typ, PendingOK, CloneInFlight, TState
<1>8. ASSUME NEW t \in Tids, WaitReport(t)
      PROVE  IInv'
    <2> DEFINE ws == Classify(pending[t])
    <2>1. Typ'
        BY <1>8 DEF WaitReport, Typ, TState
    <2>2. PendingOK'
        BY <1>8 DEF WaitReport, Typ, PendingOK
    <2>3. CloneInFlight'
        BY <1>8 DEF WaitReport, Typ, PendingOK, CloneInFlight, Decodes
    <2>4. QED
        BY <2>1, <2>2, <2>3
<1>9. ASSUME NEW opt \in Options, WaitNothing(opt)
      PROVE  IInv'
    BY <1>9 DEF WaitNothing, kernelVars, Typ, PendingOK, CloneInFlight
<1>10. CASE GetEventMsg
    BY <1>10 DEF GetEventMsg, kernelVars, Typ, PendingOK, CloneInFlight
<1>11. CASE UNCHANGED vars
    BY <1>11 DEF vars, Typ, PendingOK, CloneInFlight
<1>12. QED
    BY <1>1, <1>2, <1>3, <1>4, <1>5, <1>6, <1>7, <1>8, <1>9, <1>10, <1>11
       DEF Next, Kernel, Wait

THEOREM IInvInvariant == Spec => []IInv
BY InitIInv, NextIInv, PTL DEF Spec

(* One step of wait, or of the kernel, that sets a result naming a tracee *)
(* reports the change recorded in truth.                                   *)
LEMMA ReportStep ==
    IInv /\ [Next]_vars =>
        (result' # result /\ result'.tid \in Tids =>
             /\ result'.ws.kind = truth'.kind
             /\ result'.ws.kind # "Clone" => result'.ws.val = truth'.val)
<1> SUFFICES ASSUME IInv, [Next]_vars
             PROVE  result' # result /\ result'.tid \in Tids =>
                        /\ result'.ws.kind = truth'.kind
                        /\ result'.ws.kind # "Clone" => result'.ws.val = truth'.val
    OBVIOUS
<1> USE NixWaitAssumption DEF IInv
<1>1. ASSUME NEW t \in Tids, WaitReport(t)
      PROVE  result' # result =>
                 /\ result'.ws.kind = truth'.kind
                 /\ result'.ws.kind # "Clone" => result'.ws.val = truth'.val
    <2> DEFINE ws == Classify(pending[t])
    <2>1. Decodes(pending[t], kev[t]) /\ truth' = kev[t]
        BY <1>1 DEF WaitReport, PendingOK
    <2>2. CASE ws.kind = "Clone"
        BY <1>1, <2>2 DEF WaitReport
    <2>3. CASE ws.kind # "Clone"
        <3>1. result' = [tid |-> t, ws |-> ws]
            BY <1>1, <2>3 DEF WaitReport
        <3>2. QED
            BY <2>1, <3>1 DEF Decodes
    <2>4. QED
        BY <2>2, <2>3
<1>2. ASSUME NEW opt \in Options, WaitNothing(opt)
      PROVE  result'.tid \notin Tids
    BY <1>2 DEF WaitNothing
<1>3. CASE GetEventMsg
    BY <1>3 DEF GetEventMsg, kernelVars, CloneInFlight, WS
<1>4. CASE Kernel
    BY <1>4 DEF Kernel, TraceeStop, TraceeKilled, TraceeExec, TraceeClone,
                TraceeExit, TraceeContinued, Resume
<1>5. CASE UNCHANGED vars
    BY <1>5 DEF vars
<1>6. QED
    BY <1>1, <1>2, <1>3, <1>4, <1>5 DEF Next, Wait

\* For every set of tids, exit codes and signals, a wait() result that names
\* a tracee reports the change the kernel recorded for it: the kind, and the
\* exit code or signal.  This is the claim of spec section 4.7 that the
\* decoding of process.rs lines 136-161 reads the status word right.
THEOREM KernelChangeReported == Spec => ReportsKernelChange
BY ReportStep, IInvInvariant, PTL DEF Spec, ReportsKernelChange

=============================================================================
