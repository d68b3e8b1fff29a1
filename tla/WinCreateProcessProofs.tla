---------------------- MODULE WinCreateProcessProofs ----------------------
(***************************************************************************)
(* Proof that create_debug_process (src/src/os/windows/mod.rs, lines      *)
(* 767-843) starts the debuggee under the parent it was asked for, for    *)
(* every set of parents and every bound on paths and arguments.           *)
(*                                                                         *)
(* ParentAsAsked is not inductive by itself: a state at "check" with a     *)
(* child of the wrong parent satisfies it but reaches a violation.  The    *)
(* strengthening records which branch of line 799 the call is on, that no *)
(* child exists before CreateProcessW, and that a created child has the    *)
(* expected parent from then on.                                           *)
(***************************************************************************)
EXTENDS WinCreateProcess, TLAPS

\* The parent the call asked for.
Expected == IF ppid = NoPpid THEN Self ELSE ppid

\* The pid of the parent decides the branch: the ppid path goes through
\* open, init, update and create_ext, the other through create.
BranchOK ==
    /\ pc = "create" => ppid = NoPpid
    /\ pc \in {"open", "init", "update", "create_ext"} => ppid # NoPpid

\* No process exists before CreateProcessW is called.
NoChildYet ==
    pc \in {"start", "open", "init", "update", "create_ext", "create"} => child = NoChild

\* A created child has the parent the call asked for.
ChildParent == child # NoChild => child.parent = Expected

\* A call reports Ok only after creating a child.
OkHasChild == result = "ok" => child # NoChild

IInv == BranchOK /\ NoChildYet /\ ChildParent /\ OkHasChild

LEMMA InitIInv == Init => IInv
BY DEF Init, IInv, BranchOK, NoChildYet, ChildParent, OkHasChild

LEMMA NextIInv == IInv /\ [Next]_vars => IInv'
<1> SUFFICES ASSUME IInv, [Next]_vars PROVE IInv'
    OBVIOUS
<1> USE DEF IInv, BranchOK, NoChildYet, ChildParent, OkHasChild, Expected
<1>1. CASE ParentExit
    BY <1>1 DEF ParentExit
<1>2. CASE Start
    BY <1>2 DEF Start
<1>3. CASE OpenParent
    BY <1>3 DEF OpenParent, Return
<1>4. CASE InitList
    BY <1>4 DEF InitList
<1>5. CASE Update
    BY <1>5 DEF Update, Return
<1>6. CASE CreateExt
    \* The child is created under ppid, which is not NoPpid on this branch.
    BY <1>6 DEF CreateExt
<1>7. CASE Create
    \* The child is created under the debugger, and ppid is NoPpid here.
    BY <1>7 DEF Create
<1>8. CASE Check
    BY <1>8 DEF Check, Return
<1>9. CASE UNCHANGED vars
    BY <1>9 DEF vars
<1>10. QED
    BY <1>1, <1>2, <1>3, <1>4, <1>5, <1>6, <1>7, <1>8, <1>9 DEF Next

LEMMA IInvParent == IInv => ParentAsAsked
BY DEF IInv, OkHasChild, ChildParent, Expected, ParentAsAsked

\* For every set of parents and every bound on paths and arguments, a
\* debuggee that create_debug_process reports started is a child of the
\* ppid it was given, or of the debugger when it was given none.
THEOREM ParentInvariant == Spec => []ParentAsAsked
<1>1. Init => IInv
    BY InitIInv
<1>2. IInv /\ [Next]_vars => IInv'
    BY NextIInv
<1>3. IInv => ParentAsAsked
    BY IInvParent
<1>4. QED
    BY <1>1, <1>2, <1>3, PTL DEF Spec

=============================================================================
