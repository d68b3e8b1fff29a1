---------------------------- MODULE NixProcInfo ----------------------------
(***************************************************************************)
(* Reading a process's command line and environment on Linux:              *)
(* process_cmdline (src/src/nix/process.rs, lines 8-17) and               *)
(* process_environ (lines 35-46).                                          *)
(*                                                                         *)
(* The kernel lays out /proc/pid/cmdline as every argument followed by a   *)
(* NUL byte, and /proc/pid/environ likewise with entries NAME=VALUE.  The  *)
(* file may be unreadable (the process is gone, or access is refused):     *)
(* both functions then read an empty buffer (unwrap_or(vec![])).  Bytes    *)
(* are abstracted to a few letters; NUL is the separator.                  *)
(***************************************************************************)
EXTENDS Integers, Sequences, SequencesExt

CONSTANTS
    Chars,     \* the bytes other than NUL and '=' that arguments may hold
    EnvNames,  \* variable names
    MaxArgs,   \* longest argv
    MaxWord    \* longest argument or value

NUL == "NUL"
EQ == "="

ASSUME NixProcInfoAssumption ==
    /\ NUL \notin Chars /\ EQ \notin Chars
    /\ EnvNames \subseteq Chars
    /\ MaxArgs \in Nat /\ MaxWord \in Nat

Words == BoundedSeq(Chars \cup {EQ}, MaxWord)

\* The kernel's layout: every item followed by a NUL byte.  enc[k] is the
\* layout of the first k items.
EncodeScan(items) ==
    LET enc[k \in 0..Len(items)] ==
          IF k = 0 THEN << >> ELSE enc[k - 1] \o Append(items[k], NUL)
    IN  enc

Encode(items) == EncodeScan(items)[Len(items)]

(* <[u8]>::split(|b| *b == 0) walks the buffer: a NUL ends the current     *)
(* piece and starts an empty one, any other byte extends the current      *)
(* piece.  piece[i] is the list of pieces of the first i bytes, so there   *)
(* is one more piece than there are NULs and an empty buffer is one empty  *)
(* piece.                                                                  *)
SplitStep(p, b) ==
    IF b = NUL THEN Append(p, << >>)
    ELSE Append(Front(p), Append(Last(p), b))

SplitScan(s) ==
    LET piece[i \in 0..Len(s)] ==
          IF i = 0 THEN << << >> >> ELSE SplitStep(piece[i - 1], s[i])
    IN  piece

SplitNul(s) == SplitScan(s)[Len(s)]

\* Mutant: `if` where the code has `while`: one trailing piece popped.
PopTrailingOnce(r) == IF r # <<>> /\ Last(r) = <<>> THEN Front(r) ELSE r

(* process_cmdline, lines 13-15: while the last piece is empty, pop it.   *)
(* kept[n] is what the loop leaves of the first n pieces: it stops at the *)
(* first nonempty piece from the end, or at an empty list, where last()   *)
(* is None and unwrap_or(false) ends the loop.                            *)
PopScan(r) ==
    LET kept[n \in 0..Len(r)] ==
          IF n = 0 THEN << >>
          ELSE IF r[n] = << >> THEN kept[n - 1] ELSE SubSeq(r, 1, n)
    IN  kept

PopTrailingEmpty(r) == PopScan(r)[Len(r)]

\* process_cmdline, lines 8-17.
ProcessCmdline(data) == PopTrailingEmpty(SplitNul(data))

(* process_environ, lines 35-46: the pieces are mapped by a closure that   *)
(* would insert NAME -> VALUE, but the lazy Map is never consumed, so the  *)
(* closure never runs and the HashMap stays empty.                         *)
ProcessEnviron(data) == [n \in {} |-> <<>>]

VARIABLES
    argv,     \* the target's arguments
    env,      \* the target's environment: NAME -> VALUE
    readable, \* whether the /proc files can be read
    cmd,      \* what process_cmdline returned, or <<>> before the call
    envmap,   \* what process_environ returned
    called    \* which of the two calls have been made

vars == <<argv, env, readable, cmd, envmap, called>>

Environs == UNION {[N -> BoundedSeq(Chars \cup {EQ}, MaxWord)] : N \in SUBSET EnvNames}

TypeOK ==
    /\ argv \in BoundedSeq(Words, MaxArgs)
    /\ env \in Environs
    /\ readable \in BOOLEAN
    /\ cmd \in Seq(Seq(Chars \cup {EQ}))
    /\ called \subseteq {"cmdline", "environ"}

Init ==
    /\ argv \in BoundedSeq(Words, MaxArgs)
    /\ env \in Environs
    /\ readable \in BOOLEAN
    /\ cmd = <<>>
    /\ envmap = [n \in {} |-> <<>>]
    /\ called = {}

\* The file as std::fs::read(..).unwrap_or(vec![]) leaves it.
FileData(items) == IF readable THEN Encode(items) ELSE <<>>

EnvEntries == SetToSeq({<<n>> \o <<EQ>> \o env[n] : n \in DOMAIN env})

\* Process::cmdline (line 78): process_cmdline on the target's file.
CallCmdline ==
    /\ "cmdline" \notin called
    /\ cmd' = ProcessCmdline(FileData(argv))
    /\ called' = called \cup {"cmdline"}
    /\ UNCHANGED <<argv, env, readable, envmap>>

CallEnviron ==
    /\ "environ" \notin called
    /\ envmap' = ProcessEnviron(FileData(EnvEntries))
    /\ called' = called \cup {"environ"}
    /\ UNCHANGED <<argv, env, readable, cmd>>

Next == CallCmdline \/ CallEnviron

Spec == Init /\ [][Next]_vars

-----------------------------------------------------------------------------

\* A list of arguments without the empty ones at the end: the list up to
\* its last nonempty argument.
Kept(args) ==
    LET nonempty == {i \in 1..Len(args) : args[i] # <<>>}
        k == IF nonempty = {} THEN 0 ELSE CHOOSE i \in nonempty : \A j \in nonempty : j <= i
    IN SubSeq(args, 1, k)

\* Spec I5 and test 4: a readable command line comes back as the arguments
\* the process was started with, empty ones in the middle kept, only the
\* trailing empty ones trimmed.
CmdlineRoundTrip ==
    "cmdline" \in called /\ readable => cmd = Kept(argv)

\* Spec 4.6 and S1: environ maps every variable of a readable environment
\* to its value.
EnvironComplete ==
    "environ" \in called /\ readable =>
        /\ DOMAIN envmap = DOMAIN env
        /\ \A n \in DOMAIN env : envmap[n] = env[n]

=============================================================================
