------------------------------ MODULE NixWait ------------------------------
(***************************************************************************)
(* The Linux debug wait loop: Process::wait (src/src/nix/process.rs,       *)
(* lines 130-163) against the kernel's ptrace notifications.               *)
(*                                                                         *)
(* Traced threads ("tracees") stop, hit ptrace events (exec, clone), exit  *)
(* or are killed; each such change leaves one notification that waitpid   *)
(* hands to the debugger as a packed status word.  wait() calls            *)
(* waitpid(-1, &status, opt) with status preset to 0, decodes the word in  *)
(* the order of the code, and for a clone event asks the kernel for the    *)
(* new thread's tid with PTRACE_GETEVENTMSG.  The debugger resumes a       *)
(* reported stop with PTRACE_CONT (caller code, modelled as Resume).       *)
(***************************************************************************)
EXTENDS Integers

CONSTANTS
    Tids,       \* thread ids the kernel may give to tracees
    FirstTid,   \* the tracee attached at the start
    ExitCodes,  \* exit codes tracees may exit with
    Signals,    \* signals that may stop or kill a tracee
    Options,    \* values of the opt argument callers pass to wait()
    NoStatus    \* no notification pending

ASSUME NixWaitAssumption ==
    /\ Tids \subseteq Nat \ {0}
    /\ FirstTid \in Tids
    /\ ExitCodes \subseteq 0..255
    /\ Signals \subseteq 1..31
    /\ Options \subseteq {0, 1}
    /\ NoStatus \notin Nat

\* Constants of <sys/wait.h> and <sys/ptrace.h>.
WNOHANG == 1
SIGTRAP == 5
SIGSTOP == 19
SIGKILL == 9
PTRACE_EVENT_CLONE == 3
PTRACE_EVENT_EXEC == 4

(* The status word as the kernel packs it (kernel/exit.c, wait_task_...). *)
ExitStatus(code) == code * 256
KilledStatus(sig) == sig
StopStatus(sig) == sig * 256 + 127
EventStatus(ev) == ev * 65536 + SIGTRAP * 256 + 127
ContinuedStatus == 65535

(* The libc macros, on the low bits of status.                             *)
WIFEXITED(s) == s % 128 = 0
WEXITSTATUS(s) == (s % 65536) \div 256
WIFSIGNALED(s) == s % 128 \notin {0, 127}
WTERMSIG(s) == s % 128
WIFSTOPPED(s) == s % 256 = 127
WSTOPSIG(s) == WEXITSTATUS(s)
WIFCONTINUED(s) == s = 65535

\* Mutant: the event code taken 8 bits too low.
PtraceEventLow(s) == (s \div 256) % 65536

\* wait, line 143: `(status >> 16) & 0xffff`.
PtraceEvent(s) == (s \div 65536) % 65536

\* A WaitStatus value.
WS(k, v) == [kind |-> k, val |-> v]

(* wait, lines 136-161: the decoding, in the order of the code.  A clone   *)
(* event still needs GETEVENTMSG to learn its tid; "Invalid" is the        *)
(* panic at line 161.                                                      *)
Classify(s) ==
    IF WIFEXITED(s) THEN WS("Exit", WEXITSTATUS(s))
    ELSE IF WIFSIGNALED(s) THEN WS("Signal", WTERMSIG(s))
    ELSE IF WIFSTOPPED(s)
         THEN IF PtraceEvent(s) = PTRACE_EVENT_CLONE THEN WS("Clone", 0)
              ELSE IF PtraceEvent(s) = PTRACE_EVENT_EXEC THEN WS("Exec", 0)
              ELSE WS("Stop", WSTOPSIG(s))
    ELSE IF WIFCONTINUED(s) THEN WS("Continue", 0)
    ELSE WS("Invalid", 0)

TState == {"none", "running", "stopped", "zombie", "reaped"}
Kinds == {"Exit", "Signal", "Stop", "Clone", "Exec", "Continue", "Invalid"}
Results == [tid : Tids \cup {-1, 0}, ws : [kind : Kinds, val : Int]]

VARIABLES
    state,     \* state[t]: where tracee t is in its life
    pending,   \* pending[t]: status word of t's unreported notification
    kev,       \* kev[t]: the change the kernel recorded for it (a WaitStatus)
    eventmsg,  \* eventmsg[t]: what PTRACE_GETEVENTMSG returns for t
    pc,        \* "idle", "geteventmsg" (between lines 134 and 147), "panic"
    cur,       \* tracee whose clone event is being completed
    result,    \* what the last wait() call returned
    truth      \* the kernel's record of the change that call reported

vars == <<state, pending, kev, eventmsg, pc, cur, result, truth>>
kernelVars == <<state, pending, kev, eventmsg>>

NoResult == [tid |-> 0, ws |-> WS("None", 0)]

TypeOK ==
    /\ state \in [Tids -> TState]
    /\ pending \in [Tids -> Nat \cup {NoStatus}]
    /\ kev \in [Tids -> [kind : Kinds, val : Int]]
    /\ eventmsg \in [Tids -> Tids \cup {0}]
    /\ pc \in {"idle", "geteventmsg", "panic"}
    /\ cur \in Tids
    /\ result \in Results \cup {NoResult}
    /\ truth \in [kind : Kinds \cup {"None"}, val : Int]

Init ==
    /\ state = [t \in Tids |-> IF t = FirstTid THEN "running" ELSE "none"]
    /\ pending = [t \in Tids |-> NoStatus]
    /\ kev = [t \in Tids |-> WS("Invalid", 0)]
    /\ eventmsg = [t \in Tids |-> 0]
    /\ pc = "idle"
    /\ cur = FirstTid
    /\ result = NoResult
    /\ truth = WS("None", 0)

-----------------------------------------------------------------------------
(* The kernel.  A change of a running tracee leaves a notification.       *)

Notify(t, st, s, ws) ==
    /\ state' = [state EXCEPT ![t] = st]
    /\ pending' = [pending EXCEPT ![t] = s]
    /\ kev' = [kev EXCEPT ![t] = ws]

TraceeStop(t, sig) ==
    /\ state[t] = "running"
    /\ Notify(t, "stopped", StopStatus(sig), WS("Stop", sig))
    /\ UNCHANGED <<eventmsg, pc, cur, result, truth>>

TraceeExec(t) ==
    /\ state[t] = "running"
    /\ Notify(t, "stopped", EventStatus(PTRACE_EVENT_EXEC), WS("Exec", 0))
    /\ UNCHANGED <<eventmsg, pc, cur, result, truth>>

\* The new thread n is auto-attached and starts with a SIGSTOP stop.
TraceeClone(t, n) ==
    /\ state[t] = "running" /\ state[n] = "none"
    /\ state' = [state EXCEPT ![t] = "stopped", ![n] = "stopped"]
    /\ pending' = [pending EXCEPT ![t] = EventStatus(PTRACE_EVENT_CLONE),
                                  ![n] = StopStatus(SIGSTOP)]
    /\ kev' = [kev EXCEPT ![t] = WS("Clone", n), ![n] = WS("Stop", SIGSTOP)]
    /\ eventmsg' = [eventmsg EXCEPT ![t] = n]
    /\ UNCHANGED <<pc, cur, result, truth>>

TraceeExit(t, code) ==
    /\ state[t] = "running"
    /\ Notify(t, "zombie", ExitStatus(code), WS("Exit", code))
    /\ UNCHANGED <<eventmsg, pc, cur, result, truth>>

\* A signal kills the tracee, even one that sits in a reported stop.
TraceeKilled(t, sig) ==
    /\ state[t] \in {"running", "stopped"} /\ pending[t] = NoStatus
    /\ Notify(t, "zombie", KilledStatus(sig), WS("Signal", sig))
    /\ UNCHANGED <<eventmsg, pc, cur, result, truth>>

\* SIGCONT resumes a tracee in a reported stop (reported with WCONTINUED).
TraceeContinued(t) ==
    /\ state[t] = "stopped" /\ pending[t] = NoStatus
    /\ Notify(t, "running", ContinuedStatus, WS("Continue", 0))
    /\ UNCHANGED <<eventmsg, pc, cur, result, truth>>

\* The debugger resumes a reported stop (PTRACE_CONT, outside src/).
Resume(t) ==
    /\ state[t] = "stopped" /\ pending[t] = NoStatus
    /\ state' = [state EXCEPT ![t] = "running"]
    /\ UNCHANGED <<pending, kev, eventmsg, pc, cur, result, truth>>

-----------------------------------------------------------------------------
(* Process::wait.                                                          *)

Children == {t \in Tids : state[t] \in {"running", "stopped", "zombie"}}

(* Lines 134-160 when waitpid reports tracee t: the notification is taken *)
(* (a zombie is reaped) and decoded; a clone event goes on to line 147.    *)
WaitReport(t) ==
    /\ pc = "idle"
    /\ pending[t] # NoStatus
    /\ LET ws == Classify(pending[t]) IN
         /\ state' = [state EXCEPT ![t] = IF @ = "zombie" THEN "reaped" ELSE @]
         /\ pending' = [pending EXCEPT ![t] = NoStatus]
         /\ truth' = kev[t]
         /\ IF ws.kind = "Clone"
              THEN /\ pc' = "geteventmsg" /\ cur' = t
                   /\ UNCHANGED result
              ELSE /\ pc' = IF ws.kind = "Invalid" THEN "panic" ELSE "idle"
                   /\ result' = [tid |-> t, ws |-> ws]
                   /\ UNCHANGED cur
    /\ UNCHANGED <<kev, eventmsg>>

(* Lines 134-137 when waitpid reports nothing: it returns -1 (ECHILD, no  *)
(* child left) or 0 (WNOHANG, no child changed) and leaves status at 0,    *)
(* which decodes as a normal exit with code 0.                             *)
WaitNothing(opt) ==
    /\ pc = "idle"
    /\ \A t \in Tids : pending[t] = NoStatus
    /\ \/ /\ Children = {}
          /\ result' = [tid |-> -1, ws |-> Classify(0)]
       \/ /\ Children # {} /\ opt = WNOHANG
          /\ result' = [tid |-> 0, ws |-> Classify(0)]
    /\ truth' = WS("None", 0)
    /\ UNCHANGED <<kernelVars, pc, cur>>

(* Lines 146-150: PTRACE_GETEVENTMSG on the stopped tracee.  It fails when *)
(* the tracee has been killed since waitpid, and wait panics (line 148).   *)
(* The kernel stores the tid through &new_tid, a shared reference to an    *)
(* immutable local: undefined behaviour, after which the build may return  *)
(* either the stored tid or the 0 the local was initialised with.          *)
GetEventMsg ==
    /\ pc = "geteventmsg"
    /\ \/ /\ state[cur] = "stopped"
          /\ \E n \in {eventmsg[cur], 0} :
                result' = [tid |-> cur, ws |-> WS("Clone", n)]
          /\ pc' = "idle"
       \/ /\ state[cur] # "stopped"
          /\ pc' = "panic"
          /\ UNCHANGED result
    /\ UNCHANGED <<kernelVars, cur, truth>>

-----------------------------------------------------------------------------

Kernel ==
    \E t \in Tids :
        \/ \E sig \in Signals \ {SIGKILL} : TraceeStop(t, sig)
        \/ \E sig \in Signals \ {SIGSTOP} : TraceeKilled(t, sig)
        \/ TraceeExec(t)
        \/ \E n \in Tids : TraceeClone(t, n)
        \/ \E code \in ExitCodes : TraceeExit(t, code)
        \/ TraceeContinued(t)
        \/ Resume(t)

Wait ==
    \/ \E t \in Tids : WaitReport(t)
    \/ \E opt \in Options : WaitNothing(opt)
    \/ GetEventMsg

Next == Kernel \/ Wait

Spec == Init /\ [][Next]_vars

-----------------------------------------------------------------------------
(* Properties.                                                             *)

\* A report that names a tracee is the change the kernel recorded for it:
\* the same kind, and the same exit code or signal (the tid a clone event
\* carries is the subject of CloneCarriesNewTid).  This is the table of
\* spec section 4.7 applied to the status words the kernel really builds.
ReportsKernelChange ==
    [][result' # result /\ result'.tid \in Tids =>
         /\ result'.ws.kind = truth'.kind
         /\ result'.ws.kind # "Clone" => result'.ws.val = truth'.val]_vars

\* Spec S2/S3: Exit(code) is reported only for a tracee that exited, with
\* its code; the loop "terminates with Exit(0)" of the tracee.
ExitMeansExited ==
    [][result' # result /\ result'.ws.kind = "Exit" =>
         truth' = result'.ws]_vars

\* Spec S3: Clone(new_tid) carries the tid of the thread the clone created.
CloneCarriesNewTid ==
    [][result' # result /\ result'.ws.kind = "Clone" =>
         result'.ws = truth']_vars

=============================================================================
