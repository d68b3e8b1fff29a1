----------------------------- MODULE MemoryWalk -----------------------------
(***************************************************************************)
(* What a walk of a target's memory map promises (spec I2, I4 and test 2 *)
(* of the Process specification), at the granularity of pages.  Each call *)
(* of next reports one region of the map as it is at that call: it starts  *)
(* at the page where the previous region ended (at first, the page of the  *)
(* start address), its pages share one allocation and one state, and it    *)
(* ends where that run of pages ends.  Once the regions reach the last     *)
(* user page, next reports the end.  The target changes its map between    *)
(* calls.                                                                  *)
(***************************************************************************)
EXTENDS Integers, Sequences

CONSTANTS
    NPages,      \* user pages 0..NPages-1
    PageSize,    \* addresses per page
    MaxChanges   \* changes the target makes to its map during a walk

Pages == 0..NPages - 1
States == {"free", "reserve", "commit"}

VARIABLES
    alloc,    \* alloc[p]: first page of the allocation p belongs to, or -1
    state,    \* state[p]: free, reserved or committed
    changes,  \* changes the target has made
    at,       \* the page the next region starts at
    out,      \* the regions reported
    ended     \* the walk has reported its end

vars == <<alloc, state, changes, at, out, ended>>

\* Every allocation is a run of pages from its first page; a free page
\* belongs to no allocation.
WellFormed(a, s) ==
    \A p \in Pages :
        /\ (a[p] = -1) <=> (s[p] = "free")
        /\ a[p] # -1 => a[p] <= p /\ \A q \in a[p]..p : a[q] = a[p]

\* Pages p..e-1 are one run of the map: same allocation and state, and the
\* run stops at e.
SameRegion(p, q) == alloc[q] = alloc[p] /\ state[q] = state[p]
Run(p, e) ==
    /\ \A q \in p..e - 1 : SameRegion(p, q)
    /\ e = NPages \/ ~SameRegion(p, e)

\* The region of pages p..e-1, as the walk reports it.
Region(p, e) ==
    [base |-> p * PageSize,
     alloc_base |-> IF alloc[p] = -1 THEN 0 ELSE alloc[p] * PageSize,
     size |-> (e - p) * PageSize,
     state |-> state[p]]

Init ==
    /\ alloc \in [Pages -> Pages \cup {-1}]
    /\ state \in [Pages -> States]
    /\ WellFormed(alloc, state)
    /\ changes = 0
    /\ at \in Pages
    /\ out = <<>>
    /\ ended = FALSE

\* The target commits or decommits a page of one of its allocations.
TargetChange(p) ==
    /\ changes < MaxChanges
    /\ alloc[p] # -1
    /\ state' = [state EXCEPT ![p] = IF @ = "commit" THEN "reserve" ELSE "commit"]
    /\ changes' = changes + 1
    /\ UNCHANGED <<alloc, at, out, ended>>

\* next reports the run that starts at the current page.
Report ==
    /\ ~ended
    /\ at < NPages
    /\ \E e \in at + 1..NPages :
          /\ Run(at, e)
          /\ out' = Append(out, Region(at, e))
          /\ at' = e
    /\ UNCHANGED <<alloc, state, changes, ended>>

\* next reports the end once the regions reach the last user page.
Finish ==
    /\ ~ended
    /\ at = NPages
    /\ ended' = TRUE
    /\ UNCHANGED <<alloc, state, changes, at, out>>

Next == (\E p \in Pages : TargetChange(p)) \/ Report \/ Finish

Spec == Init /\ [][Next]_vars

=============================================================================
