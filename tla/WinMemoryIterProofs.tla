------------------------ MODULE WinMemoryIterProofs ------------------------
(***************************************************************************)
(* Proof that the memory map walk (src/src/os/windows/mod.rs, lines       *)
(* 369-378 with 640-648) tiles the address space, for every number of     *)
(* pages and every page size, whatever the target does to its map.        *)
(*                                                                         *)
(* WalkCoversSpace speaks of the regions reported so far; it is not        *)
(* inductive, since the next region depends on the address the walk will  *)
(* query.  The strengthening ties that address to the last region: it is  *)
(* the region's end, a whole number of pages, plus the offset the start   *)
(* address had within its page.  Because next() adds RegionSize to the    *)
(* queried address and not to BaseAddress, the offset is carried along,  *)
(* and the page the next query rounds down to is the last region's end.  *)
(***************************************************************************)
EXTENDS WinMemoryIter, WellFoundedInduction, TLAPS

\* The empty sequence is a sequence of any set.
LEMMA SeqEmpty == \A S : << >> \in Seq(S)
OBVIOUS

\* The offset of the start address within its page.
Off == start % PageSize

\* The end of the last region reported.
LastEnd == out[Len(out)].base + out[Len(out)].size

\* Where the walk's address is, relative to what it has reported.
AddressOK ==
    /\ out = <<>> => address = start
    /\ out # <<>> => \E k \in 1..NPages : /\ LastEnd = k * PageSize
                                           /\ address = k * PageSize + Off
    /\ ended => address >= Limit

IInv == TypeOK /\ AddressOK /\ WalkCoversSpace


-----------------------------------------------------------------------------
(* The region VirtualQueryEx reports.                                      *)

(* The first page after p that ends p's region exists, because the end of *)
(* user memory ends every region: RegionEnd(p), a CHOOSE, is the least     *)
(* such page, lies after p, and ends the run of pages like p.              *)
LEMMA RegionEndRange ==
    ASSUME WinMemoryIterAssumption, NEW p \in Pages
    PROVE  /\ RegionEnd(p) \in p + 1..NPages
           /\ \A q \in p..RegionEnd(p) - 1 : SameRegion(p, q)
           /\ RegionEnd(p) = NPages \/ ~SameRegion(p, RegionEnd(p))
<1> DEFINE T == {e \in p + 1..NPages : e = NPages \/ ~SameRegion(p, e)}
<1>1. T \subseteq Nat /\ T # {}
  BY DEF Pages
<1>2. PICK x \in T : \A y \in T : ~(<<y, x>> \in OpToRel(<, Nat))
  BY <1>1, NatLessThanWellFounded, WFMin
<1>3. \A y \in T : ~(y < x)
  BY <1>1, <1>2 DEF OpToRel
<1>4. \A q \in p..x - 1 : SameRegion(p, q)
  <2> TAKE q \in p..x - 1
  <2>1. CASE q = p
    BY <2>1 DEF SameRegion
  <2>2. CASE q # p
    <3>1. q \in p + 1..NPages /\ q < x
      BY <2>2, <1>1 DEF Pages
    <3> QED
      BY <3>1, <1>3
  <2> QED
    BY <2>1, <2>2
<1>5. /\ \A q \in p..x - 1 : SameRegion(p, q)
      /\ x = NPages \/ ~SameRegion(p, x)
  BY <1>4
<1> QED
  BY <1>5, <1>1 DEF RegionEnd

(* A page of user memory, in terms of addresses: an address k pages and r  *)
(* in lies on page k.                                                      *)
LEMMA PageOf ==
    ASSUME NEW k \in Int, NEW ps \in Nat \ {0}, NEW r \in 0..ps - 1
    PROVE  (k * ps + r) \div ps = k
OBVIOUS

\* An address is its page's first address plus its offset within the page.
LEMMA SplitAddress ==
    ASSUME NEW a \in Nat, NEW ps \in Nat \ {0}
    PROVE  /\ a = (a \div ps) * ps + (a % ps)
           /\ a % ps \in 0..ps - 1
           /\ a \div ps \in Nat
OBVIOUS

(* Multiplying by the page size keeps the order of page numbers.           *)
LEMMA PagesOrdered ==
    ASSUME NEW j \in Int, NEW k \in Int, NEW ps \in Nat \ {0}, j <= k
    PROVE  j * ps <= k * ps
OBVIOUS

\* A region of e - j pages that starts at page j ends at page e.
LEMMA RegionSpan ==
    ASSUME NEW j \in Int, NEW e \in Int, NEW ps \in Int
    PROVE  j * ps + (e - j) * ps = e * ps
OBVIOUS


-----------------------------------------------------------------------------
(* The inductive invariant.                                                *)

LEMMA InitIInv == Init => IInv
<1>1. Limit \in Nat
  BY WinMemoryIterAssumption DEF Limit
<1>2. Init => TypeOK
  <2>1. Init => /\ alloc \in [Pages -> Pages \cup {-1}] /\ state \in [Pages -> States]
                /\ changes \in 0..MaxChanges /\ start \in 0..Limit - 1
                /\ address \in Nat /\ out \in Seq(Page)
    BY <1>1, SeqEmpty, WinMemoryIterAssumption DEF Init
  <2>2. Init => ended \in BOOLEAN
    BY DEF Init
  <2> QED
    BY <2>1, <2>2, Zenon DEF TypeOK
<1>3. Init => AddressOK /\ WalkCoversSpace
  BY DEF Init, AddressOK, WalkCoversSpace
<1> QED
  BY <1>2, <1>3 DEF IInv

(* A query at an address below the limit: the page it rounds down to is   *)
(* the start page for the first query and the last region's end after,    *)
(* and the address is that page plus the start's offset.                  *)
LEMMA QueryPage ==
    ASSUME WinMemoryIterAssumption, IInv, address < Limit
    PROVE  LET pg == address \div PageSize IN
           /\ pg \in Pages
           /\ address = pg * PageSize + Off
           /\ out = <<>> => pg * PageSize = (start \div PageSize) * PageSize
           /\ out # <<>> => LastEnd = pg * PageSize
<1> DEFINE pg == address \div PageSize
<1>1. address \in Nat /\ start \in Nat /\ Off \in 0..PageSize - 1
  BY SplitAddress DEF IInv, TypeOK, Off, Limit
<1>2. address = pg * PageSize + (address % PageSize) /\ pg \in Nat
  BY <1>1, SplitAddress
<1>3. ASSUME out = <<>>
      PROVE  address = pg * PageSize + Off /\ pg * PageSize = (start \div PageSize) * PageSize
  <2>1. address = start
    BY <1>3 DEF IInv, AddressOK
  <2> QED
    BY <1>2, <2>1 DEF Off
<1>4. ASSUME out # <<>>
      PROVE  address = pg * PageSize + Off /\ LastEnd = pg * PageSize
  <2>1. PICK k \in 1..NPages : /\ LastEnd = k * PageSize
                               /\ address = k * PageSize + Off
    BY <1>4 DEF IInv, AddressOK
  <2>2. pg = k
    BY <1>1, <2>1, PageOf
  <2> QED
    BY <2>1, <2>2
<1>5. address = pg * PageSize + Off /\ (out # <<>> => LastEnd = pg * PageSize)
  BY <1>3, <1>4
<1>6. pg < NPages
  <2> SUFFICES ASSUME pg >= NPages PROVE FALSE
    BY <1>2
  <2>1. NPages * PageSize <= pg * PageSize
    BY <1>2, PagesOrdered
  <2> QED
    BY <1>1, <1>5, <2>1 DEF Limit
<1> QED
  BY <1>2, <1>3, <1>5, <1>6 DEF Pages

(* The query at the address, and the region it reports.                    *)
LEMMA QueryRegion ==
    ASSUME WinMemoryIterAssumption, TypeOK, NEW pg \in Pages
    PROVE  LET m == VirtualQuery(pg * PageSize + Off) IN
           \E e \in pg + 1..NPages :
               /\ m.base = pg * PageSize
               /\ m.size = (e - pg) * PageSize
               /\ m \in Page
<1> DEFINE a == pg * PageSize + Off
<1>1. Off \in 0..PageSize - 1 /\ pg \in Int
  BY SplitAddress DEF TypeOK, Off, Limit, Pages
<1>2. a \div PageSize = pg
  BY <1>1, PageOf
<1>3. RegionEnd(pg) \in pg + 1..NPages
  BY RegionEndRange
<1>4. alloc[pg] \in Int /\ state[pg] \in States
  BY DEF TypeOK, Pages
<1> DEFINE e == RegionEnd(pg)
           m == VirtualQuery(a)
<1>5. /\ m.base = pg * PageSize
      /\ m.size = (e - pg) * PageSize
      /\ m.alloc_base = IF alloc[pg] = -1 THEN 0 ELSE alloc[pg] * PageSize
      /\ m.state = state[pg]
      /\ m = [base |-> m.base, alloc_base |-> m.alloc_base, size |-> m.size,
              state |-> m.state]
  BY <1>2 DEF VirtualQuery
<1>6. m \in Page
  BY <1>1, <1>3, <1>4, <1>5 DEF Page, Pages
<1> QED
  BY <1>3, <1>5, <1>6

LEMMA NextIInv == IInv /\ [Next]_vars => IInv'
<1> SUFFICES ASSUME IInv, [Next]_vars PROVE IInv'
  OBVIOUS
<1> USE WinMemoryIterAssumption
<1>1. ASSUME NEW p \in Pages, TargetChange(p)
      PROVE  IInv'
  \* The target's map changes; the regions already reported do not.
  <2>1. TypeOK'
    BY <1>1 DEF TargetChange, IInv, TypeOK, States
  <2> QED
    BY <1>1, <2>1 DEF TargetChange, IInv, AddressOK, WalkCoversSpace, LastEnd, Off
<1>2. CASE IterNext /\ address < Limit
  <2> DEFINE pg == address \div PageSize
             m == VirtualQuery(address)
  <2>1. /\ pg \in Pages
        /\ address = pg * PageSize + Off
        /\ out = <<>> => pg * PageSize = (start \div PageSize) * PageSize
        /\ out # <<>> => LastEnd = pg * PageSize
    BY <1>2, QueryPage
  <2>2. PICK e \in pg + 1..NPages : /\ m.base = pg * PageSize
                                     /\ m.size = (e - pg) * PageSize
                                     /\ m \in Page
    BY <2>1, QueryRegion DEF IInv
  <2>3. /\ out' = Append(out, m) /\ address' = address + m.size
        /\ ~ended /\ UNCHANGED <<alloc, state, changes, start, ended>>
    BY <1>2 DEF IterNext
  <2>4. out \in Seq(Page) /\ address \in Nat
    BY DEF IInv, TypeOK
  <2>5. address' = e * PageSize + Off /\ address' \in Nat
    <3>1. Off \in 0..PageSize - 1 /\ pg \in Int
      BY SplitAddress DEF IInv, TypeOK, Off, Limit, Pages
    <3>2. address' = pg * PageSize + Off + (e - pg) * PageSize
      BY <2>1, <2>2, <2>3
    <3>3. pg * PageSize + (e - pg) * PageSize = e * PageSize
      BY <3>1, RegionSpan
    <3>4. e * PageSize \in Nat
      BY <2>1, WinMemoryIterAssumption DEF Pages
    <3> QED
      BY <3>1, <3>2, <3>3, <3>4
  <2>6. /\ out' \in Seq(Page) /\ Len(out') = Len(out) + 1
        /\ out'[Len(out')] = m
        /\ \A i \in 1..Len(out) : out'[i] = out[i]
    BY <2>2, <2>3, <2>4
  <2>7. TypeOK'
    BY <2>3, <2>5, <2>6 DEF IInv, TypeOK
  <2>8. LastEnd' = e * PageSize
    <3>1. pg \in Int
      BY <2>1 DEF Pages
    <3>2. LastEnd' = pg * PageSize + (e - pg) * PageSize
      BY <2>2, <2>6 DEF LastEnd
    <3> QED
      BY <3>1, <3>2, RegionSpan
  <2>9. AddressOK'
    <3>1. out' # <<>> /\ ~ended' /\ Off' = Off
      BY <2>3, <2>6 DEF Off
    <3>2. e \in 1..NPages
      BY <2>1 DEF Pages
    <3>3. /\ LastEnd' = e * PageSize
          /\ address' = e * PageSize + Off'
      BY <2>5, <2>8, <3>1
    <3> QED
      BY <3>1, <3>2, <3>3 DEF AddressOK
  <2>10. WalkCoversSpace'
    <3>1. out'[1].base = (start' \div PageSize) * PageSize
      <4>1. CASE out = <<>>
        BY <2>1, <2>2, <2>3, <2>4, <2>6, <4>1
      <4>2. CASE out # <<>>
        BY <2>3, <2>4, <2>6, <4>2 DEF IInv, WalkCoversSpace
      <4> QED
        BY <4>1, <4>2
    <3>2. \A i \in 1..Len(out') - 1 : out'[i + 1].base = out'[i].base + out'[i].size
      <4> TAKE i \in 1..Len(out') - 1
      <4>1. CASE i < Len(out)
        BY <2>4, <2>6, <4>1 DEF IInv, WalkCoversSpace
      <4>2. CASE i = Len(out)
        BY <2>1, <2>2, <2>4, <2>6, <4>2 DEF LastEnd
      <4> QED
        BY <2>4, <2>6, <4>1, <4>2
    <3> QED
      BY <2>3, <3>1, <3>2 DEF WalkCoversSpace
  <2> QED
    BY <2>7, <2>9, <2>10 DEF IInv
<1>3. CASE IterNext /\ ~(address < Limit)
  \* The walk ends: VirtualQueryEx fails past the last user page.
  <2>1. ended' = TRUE /\ UNCHANGED <<out, address, alloc, state, changes, start>>
    BY <1>3 DEF IterNext
  <2>2. out # <<>>
    BY <1>3 DEF IInv, AddressOK, TypeOK, Limit
  <2>3. PICK k \in 1..NPages : /\ LastEnd = k * PageSize
                               /\ address = k * PageSize + Off
    BY <2>2 DEF IInv, AddressOK
  <2>4. k = NPages
    <3> SUFFICES ASSUME k <= NPages - 1 PROVE FALSE
      OBVIOUS
    <3>1. k * PageSize <= (NPages - 1) * PageSize
      BY PagesOrdered
    <3>2. Off \in 0..PageSize - 1
      BY SplitAddress DEF IInv, TypeOK, Off, Limit
    <3> QED
      BY <1>3, <2>3, <3>1, <3>2 DEF Limit
  <2>5. LastEnd = Limit
    BY <2>3, <2>4 DEF Limit
  <2>6. TypeOK'
    <3>1. ended' \in BOOLEAN
      BY <2>1
    <3>2. /\ alloc' \in [Pages -> Pages \cup {-1}] /\ state' \in [Pages -> States]
          /\ changes' \in 0..MaxChanges /\ start' \in 0..Limit - 1
          /\ address' \in Nat /\ out' \in Seq(Page)
      BY <2>1 DEF IInv, TypeOK
    <3> QED
      BY <3>1, <3>2, Zenon DEF TypeOK
  <2>7. AddressOK'
    <3>1. address' >= Limit
      BY <1>3, <2>1 DEF IInv, TypeOK, Limit
    <3>2. /\ out' # <<>>
          /\ LastEnd' = NPages * PageSize
          /\ address' = NPages * PageSize + Off'
      BY <2>1, <2>2, <2>3, <2>4 DEF LastEnd, Off
    <3> QED
      BY <3>1, <3>2, WinMemoryIterAssumption DEF AddressOK
  <2>8. WalkCoversSpace'
    BY <2>1, <2>2, <2>5 DEF IInv, WalkCoversSpace, LastEnd
  <2> QED
    BY <2>6, <2>7, <2>8 DEF IInv
<1>4. CASE UNCHANGED vars
  BY <1>4 DEF vars, IInv, TypeOK, AddressOK, WalkCoversSpace, LastEnd, Off
<1> QED
  BY <1>1, <1>2, <1>3, <1>4 DEF Next

\* For every number of pages and every page size, and however the target
\* changes its map meanwhile, the regions enum_memory's walk reports start
\* at the start address's page, follow each other without gap or overlap,
\* and a walk that ended reached the end of user memory (WalkCoversSpace).
THEOREM WalkTilesSpace == Spec => []WalkCoversSpace
<1>1. IInv => WalkCoversSpace
  BY DEF IInv
<1> QED
  BY InitIInv, NextIInv, <1>1, PTL DEF Spec


-----------------------------------------------------------------------------
(* The walk implements MemoryWalk under the mapping at <- the page of the  *)
(* walk's address.  A query reports the run that starts at that page, and  *)
(* adding its size to the address moves the address to the run's end page *)
(* with the offset kept, so each next() is a Report.  A walk past the     *)
(* limit stands at page NPages exactly (AddressOK), so its last next() is *)
(* a Finish.                                                               *)

\* A walk at or past the limit has reported a region, and its address lies
\* on page NPages.
LEMMA WalkAtEnd ==
    ASSUME WinMemoryIterAssumption, IInv, ~(address < Limit)
    PROVE  address \div PageSize = NPages
<1>1. out # <<>>
  BY DEF IInv, AddressOK, TypeOK, Limit
<1>2. PICK k \in 1..NPages : address = k * PageSize + Off
  BY <1>1 DEF IInv, AddressOK
<1>3. Off \in 0..PageSize - 1
  BY SplitAddress DEF IInv, TypeOK, Off, Limit
<1>4. k = NPages
  <2> SUFFICES ASSUME k <= NPages - 1 PROVE FALSE
    OBVIOUS
  <2>1. k * PageSize <= (NPages - 1) * PageSize
    BY PagesOrdered
  <2> QED
    BY <1>2, <1>3, <2>1 DEF Limit
<1> QED
  BY <1>2, <1>3, <1>4, PageOf

\* enum_memory starts the walk on a page of user memory.
LEMMA InitRefines == Init => Walk!Init
<1> SUFFICES ASSUME Init PROVE Walk!Init
  OBVIOUS
<1> USE WinMemoryIterAssumption
<1>1. start \in Nat /\ start < NPages * PageSize
  BY DEF Init, Limit
<1> DEFINE q == start \div PageSize
<1>2. start = q * PageSize + (start % PageSize)
      /\ start % PageSize \in 0..PageSize - 1 /\ q \in Nat
  BY <1>1, SplitAddress
<1>3. q < NPages
  <2> SUFFICES ASSUME q >= NPages PROVE FALSE
    BY <1>2
  <2>1. NPages \in Int /\ PageSize \in Nat \ {0} /\ q \in Int
    BY <1>2
  <2>2. NPages * PageSize <= q * PageSize
    BY <2>1, PagesOrdered
  <2> QED
    BY <1>1, <1>2, <2>2
<1>4. address \div PageSize \in Walk!Pages
  BY <1>2, <1>3 DEF Init, Walk!Pages
<1> QED
  BY <1>4 DEF Init, Walk!Init, Walk!Pages, Walk!WellFormed, Walk!States, Pages,
             WellFormed, States

\* Every step of the walk or of the target is a step of MemoryWalk or
\* leaves its state alone.
LEMMA StepRefines == IInv /\ [Next]_vars => [Walk!Next]_Walk!vars
<1> SUFFICES ASSUME IInv, [Next]_vars PROVE [Walk!Next]_Walk!vars
  OBVIOUS
<1> USE WinMemoryIterAssumption
<1>1. ASSUME NEW p \in Pages, TargetChange(p)
      PROVE  Walk!TargetChange(p)
  BY <1>1 DEF TargetChange, Walk!TargetChange
<1>2. CASE IterNext /\ address < Limit
  <2> DEFINE pg == address \div PageSize
             e == RegionEnd(pg)
  <2>1. pg \in Pages /\ address = pg * PageSize + Off
    BY <1>2, QueryPage
  <2>2. e \in pg + 1..NPages /\ Walk!Run(pg, e)
    BY <2>1, RegionEndRange DEF Walk!Run, Walk!SameRegion, SameRegion
  <2>3. VirtualQuery(address) = Walk!Region(pg, e)
    BY DEF VirtualQuery, Walk!Region
  <2>4. /\ out' = Append(out, Walk!Region(pg, e))
        /\ address' = address + (e - pg) * PageSize
        /\ ~ended /\ UNCHANGED <<alloc, state, changes, ended>>
    BY <1>2, <2>3 DEF IterNext, Walk!Region
  <2>5. address' \div PageSize = e
    <3>1. Off \in 0..PageSize - 1 /\ pg \in Int /\ e \in Int
      BY <2>1, <2>2, SplitAddress DEF IInv, TypeOK, Off, Limit, Pages
    <3>2. pg * PageSize + (e - pg) * PageSize = e * PageSize
      BY <3>1, RegionSpan
    <3>3. address' = e * PageSize + Off
      BY <2>1, <2>4, <3>1, <3>2
    <3> QED
      BY <3>1, <3>3, PageOf
  <2>6. Walk!Report
    BY <2>1, <2>2, <2>4, <2>5 DEF Walk!Report, Pages
  <2> QED
    BY <2>6 DEF Walk!Next
<1>3. CASE IterNext /\ ~(address < Limit)
  <2>1. ended' = TRUE /\ ~ended /\ UNCHANGED <<out, address, alloc, state, changes>>
    BY <1>3 DEF IterNext
  <2>2. address \div PageSize = NPages
    BY <1>3, WalkAtEnd
  <2>3. Walk!Finish
    BY <2>1, <2>2 DEF Walk!Finish
  <2> QED
    BY <2>3 DEF Walk!Next
<1>4. CASE UNCHANGED vars
  BY <1>4 DEF vars, Walk!vars
<1> QED
  BY <1>1, <1>2, <1>3, <1>4 DEF Next, Walk!Next, Walk!Pages, Pages

\* For every number of pages and page size, and however the target changes
\* its map, enum_memory's walk is MemoryWalk's page walk (ImplementsWalk):
\* each next() reports the whole run of the current map that starts where
\* the last region ended, and the end comes only after the last user page.
THEOREM WalkRefinement == Spec => ImplementsWalk
<1>1. Spec => []IInv
  BY InitIInv, NextIInv, PTL DEF Spec
<1>2. IInv /\ [Next]_vars => [Walk!Next]_Walk!vars
  BY StepRefines
<1> QED
  BY InitRefines, <1>1, <1>2, PTL DEF Spec, ImplementsWalk, Walk!Spec

=============================================================================
