------------------------- MODULE WinCreateProcess -------------------------
(***************************************************************************)
(* Starting a debuggee on Windows: create_debug_process                   *)
(* (src/src/os/windows/mod.rs, lines 767-843).                            *)
(*                                                                         *)
(* The command line is the trimmed path, quoted when it holds whitespace,  *)
(* then the arguments joined with single spaces.  With a ppid, the call    *)
(* opens the parent, builds a one-entry attribute list naming it, and     *)
(* passes the list to CreateProcessW; the child is then created under that *)
(* parent.  The child parses its command line with CommandLineToArgvW.     *)
(* Strings are sequences over a small alphabet: a letter and a space.      *)
(***************************************************************************)
EXTENDS Integers, Sequences, SequencesExt

CONSTANTS
    Parents,   \* processes that may be named as the parent
    MaxArgs,   \* arguments passed
    MaxWord,   \* longest path or argument
    NoPpid     \* ppid = None

ASSUME WinCreateProcessAssumption ==
    /\ MaxArgs \in Nat /\ MaxWord \in Nat
    /\ NoPpid \notin Parents

SP == " "
QT == "\""
Self == "debugger"
Strs == BoundedSeq({"a", SP}, MaxWord)

IsSpace(c) == c = SP

\* str::trim.
Trim(s) ==
    LET keep == {i \in 1..Len(s) : ~IsSpace(s[i])} IN
    IF keep = {} THEN <<>>
    ELSE SubSeq(s, CHOOSE i \in keep : \A j \in keep : i <= j,
                   CHOOSE i \in keep : \A j \in keep : j <= i)

\* [&str]::join(" ").
JoinSp(ss) == FlattenSeq([i \in 1..Len(ss) |-> IF i = 1 THEN ss[i] ELSE <<SP>> \o ss[i]])

\* Lines 775-781: the command line handed to CreateProcessW.
BuildCmdline(path, args) ==
    LET p == Trim(path)
        q == IF \E i \in 1..Len(p) : IsSpace(p[i]) THEN <<QT>> \o p \o <<QT>> ELSE p
    IN IF args = <<>> THEN q ELSE q \o <<SP>> \o JoinSp(args)

(* CommandLineToArgvW on this alphabet.  The program name is everything up *)
(* to the closing quote when it starts with one, else up to the first      *)
(* space; the rest, which holds no quote here, splits at runs of spaces.   *)
Words(s) ==
    LET starts == SetToSortSeq({i \in 1..Len(s) :
                      ~IsSpace(s[i]) /\ (i = 1 \/ IsSpace(s[i - 1]))}, <)
        EndOf(i) == CHOOSE e \in i..Len(s) :
                      (\A j \in i..e : ~IsSpace(s[j])) /\ (e = Len(s) \/ IsSpace(s[e + 1]))
    IN [k \in 1..Len(starts) |-> SubSeq(s, starts[k], EndOf(starts[k]))]

CommandLineToArgv(s) ==
    IF s # <<>> /\ s[1] = QT
      THEN LET close == CHOOSE i \in 2..Len(s) : s[i] = QT /\ \A j \in 2..i - 1 : s[j] # QT
           IN <<SubSeq(s, 2, close - 1)>> \o Words(SubSeq(s, close + 1, Len(s)))
      ELSE LET w == Words(s) IN
           IF w = <<>> THEN <<<<>>>> ELSE w

VARIABLES
    path, args, ppid,  \* the arguments of the call
    parentAlive,       \* the named parent has not exited
    pc,                \* where the call is
    hParent,           \* the handle OpenProcess gave for the parent is open
    attrList,          \* "none", "init", "failed" or "deleted"
    child,             \* the process CreateProcessW created, or NoChild
    result             \* "running", "ok" or "err"

vars == <<path, args, ppid, parentAlive, pc, hParent, attrList, child, result>>

Child == [parent : Parents \cup {Self}, argv : Seq(Seq({"a", SP, QT}))]
NoChild == [parent |-> "none", argv |-> <<>>]

TypeOK ==
    /\ path \in Strs /\ args \in BoundedSeq(Strs, MaxArgs)
    /\ ppid \in Parents \cup {NoPpid}
    /\ parentAlive \in BOOLEAN
    /\ pc \in {"start", "open", "init", "update", "create_ext", "create", "check", "done"}
    /\ hParent \in BOOLEAN
    /\ attrList \in {"none", "init", "failed", "deleted"}
    /\ child \in Child \cup {NoChild}
    /\ result \in {"running", "ok", "err"}

\* A path that names something once trimmed.
Init ==
    /\ path \in {s \in Strs : Trim(s) # <<>>}
    /\ args \in BoundedSeq(Strs, MaxArgs)
    /\ ppid \in Parents \cup {NoPpid}
    /\ parentAlive = TRUE
    /\ pc = "start" /\ hParent = FALSE /\ attrList = "none"
    /\ child = NoChild /\ result = "running"

Return(r) == pc' = "done" /\ result' = r

\* The parent may exit at any time.
ParentExit ==
    /\ parentAlive /\ ppid # NoPpid
    /\ parentAlive' = FALSE
    /\ UNCHANGED <<path, args, ppid, pc, hParent, attrList, child, result>>

(* Lines 802-808: with a ppid, the STARTUPINFOEXW is set up and the       *)
(* attribute list buffer sized; without one, the else branch at 833.       *)
Start ==
    /\ pc = "start"
    /\ pc' = IF ppid = NoPpid THEN "create" ELSE "open"
    /\ UNCHANGED <<path, args, ppid, parentAlive, hParent, attrList, child, result>>

(* Lines 809-810: OpenProcess(PROCESS_CREATE_PROCESS, 0, ppid); NULL (the *)
(* parent is gone or refuses) returns Err("ppid open failed").             *)
OpenParent ==
    /\ pc = "open"
    /\ \/ /\ parentAlive /\ hParent' = TRUE /\ pc' = "init"
          /\ UNCHANGED result
       \/ /\ Return("err") /\ UNCHANGED hParent
    /\ UNCHANGED <<path, args, ppid, parentAlive, attrList, child>>

\* Line 812: InitializeProcThreadAttributeList; its result is not checked.
InitList ==
    /\ pc = "init"
    /\ attrList' \in {"init", "failed"}
    /\ pc' = "update"
    /\ UNCHANGED <<path, args, ppid, parentAlive, hParent, child, result>>

(* Lines 813-827: UpdateProcThreadAttribute, which fails on a list not    *)
(* initialised and may fail on its own; a failure returns Err at 826.      *)
Update ==
    /\ pc = "update"
    /\ \/ attrList = "init" /\ pc' = "create_ext" /\ UNCHANGED result
       \/ Return("err")
    /\ UNCHANGED <<path, args, ppid, parentAlive, hParent, attrList, child>>

\* Mutant: the list is built but the EXTENDED_STARTUPINFO_PRESENT flag is
\* not passed, so the parent attribute is ignored.
CreateExtNoFlag ==
    /\ pc = "create_ext"
    /\ \/ child' = [parent |-> Self, argv |-> CommandLineToArgv(BuildCmdline(path, args))]
       \/ UNCHANGED child
    /\ attrList' = "deleted"
    /\ pc' = "check"
    /\ UNCHANGED <<path, args, ppid, parentAlive, hParent, result>>

(* Lines 828-832: CreateProcessW with EXTENDED_STARTUPINFO_PRESENT under  *)
(* the parent, which fails when the parent has exited (or for any reason  *)
(* of its own); then DeleteProcThreadAttributeList.                        *)
CreateExt ==
    /\ pc = "create_ext"
    /\ \/ /\ parentAlive
          /\ child' = [parent |-> ppid, argv |-> CommandLineToArgv(BuildCmdline(path, args))]
       \/ UNCHANGED child
    /\ attrList' = "deleted"
    /\ pc' = "check"
    /\ UNCHANGED <<path, args, ppid, parentAlive, hParent, result>>

\* Lines 833-836: CreateProcessW with the debugger as parent.
Create ==
    /\ pc = "create"
    /\ \/ child' = [parent |-> Self, argv |-> CommandLineToArgv(BuildCmdline(path, args))]
       \/ UNCHANGED child
    /\ pc' = "check"
    /\ UNCHANGED <<path, args, ppid, parentAlive, hParent, attrList, result>>

(* Lines 838-841: r == 0 is Err; else Process::from_handle(pi.hProcess),  *)
(* which is None, and so Err, when GetProcessId fails.                     *)
Check ==
    /\ pc = "check"
    /\ \/ child = NoChild /\ Return("err")
       \/ child # NoChild /\ Return("ok")
       \/ child # NoChild /\ Return("err")
    /\ UNCHANGED <<path, args, ppid, parentAlive, hParent, attrList, child>>

Next == ParentExit \/ Start \/ OpenParent \/ InitList \/ Update
          \/ CreateExt \/ Create \/ Check

Spec == Init /\ [][Next]_vars

-----------------------------------------------------------------------------

\* Spec 6: a debuggee started with a ppid is a child of that process, one
\* started without is a child of the debugger.
ParentAsAsked ==
    result = "ok" => child.parent = IF ppid = NoPpid THEN Self ELSE ppid

\* Spec 4.1 and 5: a call releases what it acquired on every exit path:
\* the parent's handle is closed and an initialised attribute list deleted.
ResourcesReleased ==
    pc = "done" => ~hParent /\ attrList # "init"

\* The debuggee sees the path and the arguments it was started with.
CommandLineRoundTrip ==
    result = "ok" => child.argv = <<Trim(path)>> \o args

=============================================================================
