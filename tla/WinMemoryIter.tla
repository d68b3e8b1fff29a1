--------------------------- MODULE WinMemoryIter ---------------------------
(***************************************************************************)
(* The memory map walk on Windows (src/src/os/windows/mod.rs):             *)
(* Process::enum_memory (lines 625-630), MemoryIter::next (369-378),       *)
(* Process::virtual_query (640-648) and MemoryPage::from (155-168).        *)
(*                                                                         *)
(* VirtualQueryEx(address) describes the region that holds address: it    *)
(* starts at address rounded down to a page (BaseAddress) and runs over    *)
(* the following pages of the same allocation and state (RegionSize).      *)
(* AllocationBase is the first page of the allocation.  Past the last      *)
(* user page the call fails.  The walk adds RegionSize to the address it  *)
(* queried, which need not be page aligned.  The target commits and      *)
(* decommits pages of its allocations while the walk goes on.             *)
(***************************************************************************)
EXTENDS Integers, Sequences

CONSTANTS
    NPages,      \* user pages 0..NPages-1
    PageSize,    \* addresses per page
    MaxChanges   \* changes the target makes to its map during a walk

ASSUME WinMemoryIterAssumption ==
    /\ NPages \in Nat \ {0}
    /\ PageSize \in Nat \ {0}
    /\ MaxChanges \in Nat

Pages == 0..NPages - 1
Limit == NPages * PageSize
States == {"free", "reserve", "commit"}

VARIABLES
    alloc,    \* alloc[p]: first page of the allocation p belongs to, or -1
    state,    \* state[p]: MEM_FREE, MEM_RESERVE or MEM_COMMIT
    changes,  \* changes the target has made
    start,    \* the address enum_memory was given
    address,  \* MemoryIter::address
    out,      \* the MemoryPages next() returned
    ended     \* next() returned None

vars == <<alloc, state, changes, start, address, out, ended>>

Page == [base : Int, alloc_base : Int, size : Int, state : States]

TypeOK ==
    /\ alloc \in [Pages -> Pages \cup {-1}]
    /\ state \in [Pages -> States]
    /\ changes \in 0..MaxChanges
    /\ start \in 0..Limit - 1
    /\ address \in Nat
    /\ out \in Seq(Page)
    /\ ended \in BOOLEAN

\* A map where every allocation is a run of pages that starts at its first
\* page, and a free page belongs to no allocation.
WellFormed(a, s) ==
    \A p \in Pages :
        /\ (a[p] = -1) <=> (s[p] = "free")
        /\ a[p] # -1 => a[p] <= p /\ \A q \in a[p]..p : a[q] = a[p]

Init ==
    /\ alloc \in [Pages -> Pages \cup {-1}]
    /\ state \in [Pages -> States]
    /\ WellFormed(alloc, state)
    /\ changes = 0
    /\ start \in 0..Limit - 1
    /\ address = start
    /\ out = <<>>
    /\ ended = FALSE

\* The target commits or decommits a page of one of its allocations.
TargetChange(p) ==
    /\ changes < MaxChanges
    /\ alloc[p] # -1
    /\ state' = [state EXCEPT ![p] = IF @ = "commit" THEN "reserve" ELSE "commit"]
    /\ changes' = changes + 1
    /\ UNCHANGED <<alloc, start, address, out, ended>>

\* The pages after p that VirtualQueryEx reports in p's region.
SameRegion(p, q) == alloc[q] = alloc[p] /\ state[q] = state[p]
RegionEnd(p) ==
    CHOOSE e \in p + 1..NPages :
        /\ \A q \in p..e - 1 : SameRegion(p, q)
        /\ e = NPages \/ ~SameRegion(p, e)

\* virtual_query and MemoryPage::from, lines 640-648 and 155-168.
VirtualQuery(a) ==
    LET p == a \div PageSize IN
    [base |-> p * PageSize,
     alloc_base |-> IF alloc[p] = -1 THEN 0 ELSE alloc[p] * PageSize,
     size |-> (RegionEnd(p) - p) * PageSize,
     state |-> state[p]]

\* Mutant: the walk advances from the allocation base.
NextFromAllocBase ==
    /\ ~ended
    /\ IF address < Limit
         THEN LET m == VirtualQuery(address) IN
              /\ out' = Append(out, m)
              /\ address' = IF m.state = "free" THEN address + m.size
                            ELSE m.alloc_base + m.size
              /\ UNCHANGED ended
         ELSE /\ ended' = TRUE /\ UNCHANGED <<out, address>>
    /\ UNCHANGED <<alloc, state, changes, start>>

(* MemoryIter::next, lines 369-378: query; on Some, address += size.        *)
IterNext ==
    /\ ~ended
    /\ IF address < Limit
         THEN LET m == VirtualQuery(address) IN
              /\ out' = Append(out, m)
              /\ address' = address + m.size
              /\ UNCHANGED ended
         ELSE /\ ended' = TRUE /\ UNCHANGED <<out, address>>
    /\ UNCHANGED <<alloc, state, changes, start>>

Next == (\E p \in Pages : TargetChange(p)) \/ IterNext

Spec == Init /\ [][Next]_vars

-----------------------------------------------------------------------------

\* Spec I2: the regions the walk reports follow each other without gap or
\* overlap from the page of the start address, and a walk that ended
\* reached the last user page, even while the target changes its map.
WalkCoversSpace ==
    /\ out # <<>> => out[1].base = (start \div PageSize) * PageSize
    /\ \A i \in 1..Len(out) - 1 : out[i + 1].base = out[i].base + out[i].size
    /\ ended => out # <<>> /\ out[Len(out)].base + out[Len(out)].size = Limit

\* The walk seen a page at a time: the page the next region starts at is the
\* page of MemoryIter::address.
Walk == INSTANCE MemoryWalk WITH at <- address \div PageSize

\* Spec I2 and I4: MemoryIter::next behaves as the page walk of MemoryWalk.
\* Each call reports the region of the current map that starts where the
\* last one ended, though the address it queries keeps the offset of a
\* misaligned start, and it reports the end only after the last user page.
ImplementsWalk == Walk!Spec

=============================================================================
