--------------------------- MODULE BootMapProofs ----------------------------
(***************************************************************************)
(* Proofs about BootMap, for any memory map of disjoint regions, any       *)
(* kernel image, page size, symbol table and early allocations.            *)
(***************************************************************************)
EXTENDS BootMap, TLAPS

-----------------------------------------------------------------------------
(* Arithmetic of pages.                                                    *)

Mult(x) == \E k \in Nat : x = k * Page

\* A product with a page size orders like its factors.
LEMMA TimesPage ==
    ASSUME NEW a \in Nat, NEW b \in Nat
    PROVE  /\ a * Page \in Nat
           /\ a <= b => a * Page <= b * Page
           /\ a * Page < b * Page + Page => a <= b
           /\ (a + b) * Page = a * Page + b * Page
<1>1. Page \in Nat /\ Page > 0
  BY BootMapAssumption
<1>2. a * Page \in Nat /\ (a + b) * Page = a * Page + b * Page
  BY <1>1
<1>3. a <= b => a * Page <= b * Page
  BY <1>1
<1>4. ASSUME a * Page < b * Page + Page PROVE a <= b
  <2> SUFFICES ASSUME a >= b + 1 PROVE FALSE
    OBVIOUS
  <2>1. a * Page >= (b + 1) * Page
    BY <1>1
  <2>2. (b + 1) * Page = b * Page + Page
    BY <1>1
  <2> QED
    BY <1>1, <1>4, <2>1, <2>2
<1> QED
  BY <1>2, <1>3, <1>4

\* The quotient by a page size.
LEMMA DivPage ==
    ASSUME NEW x \in Nat
    PROVE  /\ x \div Page \in Nat
           /\ (x \div Page) * Page <= x
           /\ x < (x \div Page) * Page + Page
  BY BootMapAssumption

\* ROUND_DOWN yields the nearest page boundary below.
LEMMA RoundDownPage ==
    ASSUME NEW x \in Nat
    PROVE  /\ RoundDown(x) \in Nat /\ Mult(RoundDown(x))
           /\ RoundDown(x) <= x /\ x < RoundDown(x) + Page
  BY DivPage, TimesPage, BootMapAssumption DEF RoundDown, Mult

\* ROUND_UP yields the nearest page boundary above.
LEMMA RoundUpPage ==
    ASSUME NEW x \in Nat
    PROVE  /\ RoundUp(x) \in Nat /\ Mult(RoundUp(x))
           /\ x <= RoundUp(x) /\ RoundUp(x) < x + Page
<1>1. Page \in Nat /\ Page > 0 /\ x + Page - 1 \in Nat
  BY BootMapAssumption
<1> DEFINE q == (x + Page - 1) \div Page
<1>2. q \in Nat /\ q * Page <= x + Page - 1 /\ x + Page - 1 < q * Page + Page
  BY <1>1, DivPage
<1>3. q * Page \in Nat
  BY <1>2, TimesPage
<1> QED
  BY <1>1, <1>2, <1>3 DEF RoundUp, Mult

\* A page boundary is its own rounding.
LEMMA RoundMult ==
    ASSUME NEW x \in Nat, Mult(x)
    PROVE  RoundUp(x) = x /\ RoundDown(x) = x
<1>1. PICK k \in Nat : x = k * Page
  BY DEF Mult
<1>2. PICK u \in Nat : RoundUp(x) = u * Page
  BY RoundUpPage DEF Mult
<1>3. PICK d \in Nat : RoundDown(x) = d * Page
  BY RoundDownPage DEF Mult
<1>4. u <= k /\ k <= d
  BY <1>1, <1>2, <1>3, RoundUpPage, RoundDownPage, TimesPage
<1>5. u * Page <= x /\ x <= d * Page
  BY <1>1, <1>4, TimesPage
<1> QED
  BY SMTT(30), <1>2, <1>3, <1>5, RoundUpPage, RoundDownPage

\* Sums and differences of page boundaries are page boundaries.
LEMMA MultSum ==
    ASSUME NEW x \in Nat, NEW y \in Nat, Mult(x), Mult(y)
    PROVE  Mult(x + y) /\ (y <= x => Mult(x - y))
<1>1. PICK j \in Nat : x = j * Page
  BY DEF Mult
<1>2. PICK k \in Nat : y = k * Page
  BY DEF Mult
<1>3. Mult(x + y)
  <2>1. x + y = (j + k) * Page /\ j + k \in Nat
    BY <1>1, <1>2, TimesPage
  <2> QED
    BY <2>1 DEF Mult
<1>4. ASSUME y <= x PROVE Mult(x - y)
  <2>0. Page \in Nat /\ Page > 0
    BY BootMapAssumption
  <2>1. k * Page < j * Page + Page
    BY <1>1, <1>2, <1>4, <2>0
  <2>2. k <= j
    BY <2>1, TimesPage
  <2>3. j - k \in Nat /\ (j - k) + k = j
    BY <2>2
  <2>4. j * Page = (j - k) * Page + k * Page /\ (j - k) * Page \in Nat
    BY <2>3, TimesPage
  <2>5. x - y = (j - k) * Page
    BY <1>1, <1>2, <2>4, TimesPage
  <2> QED
    BY <2>3, <2>5 DEF Mult
<1> QED
  BY <1>3, <1>4

\* Rounding start and length of a region never crosses a page boundary
\* beyond the region's end.
LEMMA RoundedEnd ==
    ASSUME NEW a \in Nat, NEW l \in Nat, NEW b \in Nat, Mult(b), a + l <= b
    PROVE  RoundUp(a) + RoundDown(l) <= b
<1>1. PICK k \in Nat : b = k * Page
  BY DEF Mult
<1>2. PICK u \in Nat : RoundUp(a) = u * Page
  BY RoundUpPage DEF Mult
<1>3. PICK d \in Nat : RoundDown(l) = d * Page
  BY RoundDownPage DEF Mult
<1>4. u + d \in Nat /\ (u + d) * Page = u * Page + d * Page
  BY TimesPage
<1>5. (u + d) * Page < k * Page + Page
  <2>1. u * Page \in Nat /\ u * Page < a + Page
    BY <1>2, RoundUpPage
  <2>2. d * Page \in Nat /\ d * Page <= l
    BY <1>3, RoundDownPage
  <2>3. Page \in Nat /\ k * Page \in Nat /\ a + l <= k * Page
    BY <1>1, BootMapAssumption
  <2> QED
    BY <1>4, <2>1, <2>2, <2>3
<1>6. (u + d) * Page <= k * Page
  BY <1>4, <1>5, TimesPage
<1> QED
  BY <1>1, <1>2, <1>3, <1>4, <1>6

-----------------------------------------------------------------------------
(* Types.                                                                  *)

\* The kernel's pages.
LEMMA KernelPages ==
    /\ KernelStart \in Nat /\ Mult(KernelStart)
    /\ KernelEnd \in Nat /\ Mult(KernelEnd)
    /\ KernelStart <= KernelEnd
<1>1. KernelImage.start \in Nat /\ KernelImage.end \in Nat
      /\ KernelImage.start <= KernelImage.end
  BY BootMapAssumption
<1> QED
  BY <1>1, RoundDownPage, RoundUpPage DEF KernelStart, KernelEnd

\* The rounding of arch_mm_init yields a region.
LEMMA RoundedType ==
    ASSUME NEW r \in Region
    PROVE  Rounded(r) \in Region
  BY RoundUpPage, RoundDownPage DEF Rounded, Region

-----------------------------------------------------------------------------
(* What each edit does to a region.                                        *)

Aligned(r) == Mult(r.addr) /\ Mult(r.len)

\* Region q is a piece of region r.
Piece(q, r) ==
    /\ q \in Region
    /\ r.addr <= q.addr /\ End(q) <= End(r)
    /\ q.avail => r.avail
    /\ Aligned(r) => Aligned(q)

ClearOfKernel(r) == r.avail => ~Overlap(r, KernelStart, KernelEnd)

\* The end of an aligned region is a page boundary.
LEMMA AlignedEnd ==
    ASSUME NEW r \in Region, Aligned(r)
    PROVE  End(r) \in Nat /\ Mult(End(r))
  BY MultSum DEF Region, Aligned, End

\* A part of a region that starts and ends on page boundaries when the
\* region does is a piece of it.
LEMMA PieceOf ==
    ASSUME NEW r \in Region, NEW q \in Region,
           r.addr <= q.addr, End(q) <= End(r), q.avail => r.avail,
           Aligned(r) => Mult(q.addr) /\ Mult(End(q))
    PROVE  Piece(q, r)
<1>1. q.addr \in Nat /\ q.len \in Nat /\ End(q) \in Nat /\ q.addr <= End(q)
      /\ End(q) - q.addr = q.len
  BY DEF Region, End
<1>2. Aligned(r) => Mult(q.len)
  BY <1>1, MultSum
<1> QED
  BY <1>2 DEF Piece, Aligned

\* Moving the bounds of a region: its new bounds.
LEMMA Bounds ==
    ASSUME NEW r \in Region, NEW a \in Nat, NEW e \in Nat, a <= e
    PROVE  LET q == [r EXCEPT !.addr = a, !.len = e - a]
           IN  q \in Region /\ q.addr = a /\ End(q) = e /\ q.avail = r.avail
<1> DEFINE q == [r EXCEPT !.addr = a, !.len = e - a]
<1>1. e - a \in Nat
  OBVIOUS
<1>2. q.addr = a /\ q.len = e - a /\ q.avail = r.avail
  BY DEF Region
<1>3. q \in Region
  BY <1>1 DEF Region
<1>4. End(q) = e
  BY <1>1, <1>2 DEF End
<1> QED
  BY <1>2, <1>3, <1>4

\* x86_64_fix_multiboot leaves a piece of each region, clear of the kernel
\* unless the region held part of it.
LEMMA FixFacts ==
    ASSUME NEW r \in Region
    PROVE  /\ Piece(FixRegion(r), r)
           /\ ~Panics(r) /\ (r.avail /\ Overlap(r, KernelStart, KernelEnd) => Contains(r))
                => ClearOfKernel(FixRegion(r))
<1>1. r.addr \in Nat /\ r.len \in Nat /\ End(r) \in Nat
  BY DEF Region, End
<1> DEFINE c1 == Contains(r) /\ Case1(r)
           c2 == Contains(r) /\ Case2(r)
           c4 == Contains(r) /\ Case4(r) /\ ~Case1(r) /\ ~Case2(r)
<1>2. CASE c1
  <2>1. r.addr <= KernelStart /\ KernelStart <= End(r) /\ ~c2 /\ ~c4
    BY <1>1, <1>2, KernelPages DEF Case1, Case2, Contains
  <2>2. FixRegion(r) = [r EXCEPT !.len = KernelStart - r.addr]
    BY <1>2, <2>1 DEF FixRegion
  <2>3. FixRegion(r) = [r EXCEPT !.addr = r.addr, !.len = KernelStart - r.addr]
    BY <2>2 DEF Region
  <2> DEFINE q == [r EXCEPT !.addr = r.addr, !.len = KernelStart - r.addr]
  <2>5. Aligned(r) => Mult(r.addr) /\ Mult(KernelStart)
    BY KernelPages DEF Aligned
  <2>7. q \in Region /\ q.addr = r.addr /\ End(q) = KernelStart /\ q.avail = r.avail
    BY <1>1, <2>1, KernelPages, Bounds
  <2> HIDE DEF q
  <2>6. Piece(q, r) /\ End(q) = KernelStart
    BY <1>1, <2>1, <2>5, <2>7, PieceOf
  <2>4. Piece(FixRegion(r), r) /\ End(FixRegion(r)) = KernelStart
    BY <2>3, <2>6 DEF q
  <2> QED
    BY <2>4, KernelPages DEF ClearOfKernel, Overlap
<1>3. CASE c2
  <2>1. r.addr <= KernelEnd /\ KernelEnd <= End(r) /\ ~c1 /\ ~c4
    BY <1>1, <1>3, KernelPages DEF Case1, Case2, Contains
  <2>2. FixRegion(r) = [r EXCEPT !.addr = KernelEnd, !.len = End(r) - KernelEnd]
    BY <1>3, <2>1 DEF FixRegion
  <2> DEFINE q == [r EXCEPT !.addr = KernelEnd, !.len = End(r) - KernelEnd]
  <2>5. Aligned(r) => Mult(KernelEnd) /\ Mult(End(r))
    BY AlignedEnd, KernelPages
  <2>7. q \in Region /\ q.addr = KernelEnd /\ End(q) = End(r) /\ q.avail = r.avail
    BY <1>1, <2>1, KernelPages, Bounds
  <2> HIDE DEF q
  <2>6. Piece(q, r) /\ q.addr = KernelEnd
    BY <1>1, <2>1, <2>5, <2>7, PieceOf
  <2>3. Piece(FixRegion(r), r) /\ FixRegion(r).addr = KernelEnd
    BY <2>2, <2>6 DEF q
  <2> QED
    BY <2>3, KernelPages DEF ClearOfKernel, Overlap
<1>4. CASE c4
  <2> DEFINE q == [r EXCEPT !.avail = FALSE]
  <2>1. FixRegion(r) = q
    BY <1>4 DEF FixRegion
  <2>2. q \in Region /\ q.addr = r.addr /\ q.len = r.len /\ q.avail = FALSE
    BY DEF Region
  <2> HIDE DEF q
  <2>3. Piece(q, r) /\ ClearOfKernel(q)
    BY <1>1, <2>2 DEF Piece, Aligned, End, ClearOfKernel
  <2> QED
    BY <2>1, <2>3
<1>5. CASE ~c1 /\ ~c2 /\ ~c4
  <2>1. FixRegion(r) = r
    BY <1>5 DEF FixRegion
  <2>2. Piece(r, r)
    BY <1>1 DEF Piece
  <2>3. Contains(r) => Panics(r)
    BY <1>1, <1>5, KernelPages DEF Contains, Case1, Case2, Case3, Case4, Panics
  <2> QED
    BY <2>1, <2>2, <2>3 DEF ClearOfKernel
<1> QED
  BY <1>2, <1>3, <1>4, <1>5

\* x86_64_update_map leaves a piece of each region that does not reach
\* across the end of the early heap.
LEMMA UpdateFacts ==
    ASSUME NEW r \in Region, heap.mark \in Nat
    PROVE  /\ Piece(UpdateRegion(r), r)
           /\ End(UpdateRegion(r)) = End(r)
           /\ UpdateRegion(r).avail = r.avail
           /\ r.avail => UpdateRegion(r).addr >= HeapEnd \/ End(r) <= HeapEnd
<1>1. r.addr \in Nat /\ r.len \in Nat /\ End(r) \in Nat
  BY DEF Region, End
<1>2. HeapEnd \in Nat /\ Mult(HeapEnd)
  BY RoundUpPage DEF HeapEnd
<1>3. CASE r.addr < HeapEnd /\ End(r) > HeapEnd /\ r.avail
  <2>1. UpdateRegion(r) = [r EXCEPT !.addr = HeapEnd, !.len = End(r) - HeapEnd]
    BY <1>3 DEF UpdateRegion
  <2> DEFINE q == [r EXCEPT !.addr = HeapEnd, !.len = End(r) - HeapEnd]
  <2>3. Aligned(r) => Mult(HeapEnd) /\ Mult(End(r))
    BY <1>2, AlignedEnd
  <2>4. r.addr <= HeapEnd /\ HeapEnd <= End(r)
    BY <1>1, <1>2, <1>3
  <2>5. Piece(q, r) /\ q.addr = HeapEnd /\ End(q) = End(r) /\ q.avail = r.avail
    <3>1. q \in Region /\ q.addr = HeapEnd /\ End(q) = End(r) /\ q.avail = r.avail
      BY <1>1, <1>2, <2>4, Bounds
    <3> HIDE DEF q
    <3> QED
      BY <1>1, <2>3, <2>4, <3>1, PieceOf
  <2>2. /\ Piece(UpdateRegion(r), r) /\ UpdateRegion(r).addr = HeapEnd
        /\ End(UpdateRegion(r)) = End(r) /\ UpdateRegion(r).avail = r.avail
    BY <2>1, <2>5
  <2> QED
    BY <1>2, <2>2
<1>4. CASE ~(r.addr < HeapEnd /\ End(r) > HeapEnd /\ r.avail)
  <2>1. UpdateRegion(r) = r
    BY <1>4 DEF UpdateRegion
  <2>2. r.avail => r.addr >= HeapEnd \/ End(r) <= HeapEnd
    BY <1>1, <1>2, <1>4
  <2> QED
    BY <1>1, <2>1, <2>2 DEF Piece
<1> QED
  BY <1>3, <1>4

\* The rounding of arch_mm_init leaves an aligned region alone, and never
\* crosses a page boundary the region itself did not cross.
LEMMA RoundedFacts ==
    ASSUME NEW r \in Region
    PROVE  /\ Rounded(r) \in Region
           /\ Aligned(r) => Rounded(r) = r
           /\ r.addr <= Rounded(r).addr
           /\ \A b \in Nat : Mult(b) /\ End(r) <= b => End(Rounded(r)) <= b
<1>1. r.addr \in Nat /\ r.len \in Nat
  BY DEF Region
<1>2. Rounded(r).addr = RoundUp(r.addr) /\ Rounded(r).len = RoundDown(r.len)
  BY DEF Rounded, Region
<1>3. Aligned(r) => Rounded(r) = r
  <2> SUFFICES ASSUME Aligned(r) PROVE Rounded(r) = r
    OBVIOUS
  <2>1. RoundUp(r.addr) = r.addr /\ RoundDown(r.len) = r.len
    BY <1>1, RoundMult DEF Aligned
  <2> QED
    BY <2>1 DEF Rounded, Region
<1>4. r.addr <= RoundUp(r.addr)
  BY <1>1, RoundUpPage
<1>5. ASSUME NEW b \in Nat, Mult(b), End(r) <= b
      PROVE  End(Rounded(r)) <= b
  BY <1>1, <1>2, <1>5, RoundedEnd DEF End
<1> QED
  BY <1>2, <1>3, <1>4, <1>5, RoundedType

\* A piece of a piece of a region is a piece of the region.
LEMMA PieceTrans ==
    ASSUME NEW p, NEW q \in Region, NEW r \in Region, Piece(p, q), Piece(q, r)
    PROVE  Piece(p, r)
  BY DEF Piece, Region, End

\* A piece of a region that is clear of the kernel is clear of it too.
LEMMA PieceClear ==
    ASSUME NEW q, NEW r \in Region, Piece(q, r), ClearOfKernel(r)
    PROVE  ClearOfKernel(q)
  BY KernelPages DEF Piece, Region, End, ClearOfKernel, Overlap

\* x86_64_protect_symtab leaves a piece of the block it cuts.
LEMMA ProtectFacts ==
    ASSUME NEW r \in Region, NEW t \in Nat, RoundUp(t) <= r.len
    PROVE  LET q == [r EXCEPT !.addr = @ + RoundUp(t), !.len = @ - RoundUp(t)]
           IN  Piece(q, r) /\ End(q) = End(r) /\ q.avail = r.avail
<1> DEFINE q == [r EXCEPT !.addr = @ + RoundUp(t), !.len = @ - RoundUp(t)]
           n == RoundUp(t)
<1>1. n \in Nat /\ Mult(n) /\ r.addr \in Nat /\ r.len \in Nat
  BY RoundUpPage DEF Region
<1>2. q.addr = r.addr + n /\ q.len = r.len - n /\ q.avail = r.avail
  BY DEF Region
<1>3. q \in Region
  <2>1. r.addr + RoundUp(t) \in Nat /\ r.len - RoundUp(t) \in Nat
    BY <1>1
  <2> QED
    BY <2>1 DEF Region
<1>4. End(q) = End(r) /\ r.addr <= q.addr
  BY <1>1, <1>2 DEF End
<1>5. Aligned(r) => Mult(q.addr) /\ Mult(End(q))
  <2>1. Aligned(r) => Mult(r.addr + n)
    BY <1>1, MultSum DEF Aligned
  <2> HIDE DEF q
  <2> QED
    BY <2>1, <1>2, <1>4, AlignedEnd
<1> HIDE DEF q
<1>6. End(q) <= End(r)
  BY <1>4, <1>1 DEF End
<1>7. Piece(q, r)
  BY <1>2, <1>3, <1>4, <1>5, <1>6, PieceOf
<1> QED
  BY <1>2, <1>4, <1>7 DEF q

-----------------------------------------------------------------------------
(* The inductive invariant.                                                *)

Booting == {"symbols", "memory", "update", "handover", "done"}

\* Every entry of the edited map is a piece of the reported one.
MapInv ==
    /\ reported \in Maps
    /\ DOMAIN mmap = DOMAIN reported
    /\ \A i \in DOMAIN mmap : Piece(mmap[i], reported[i])

\* Nothing has been edited yet when x86_64_fix_multiboot runs.
FixInv == step = "fix" => mmap = reported

\* Once it has run, no available entry overlaps the kernel.
KernelInv ==
    KernelInOneRegion /\ step \notin {"fix", "panic"} =>
        \A i \in DOMAIN mmap : ClearOfKernel(mmap[i])

\* The early heap is one available entry of the map.
HeapInv ==
    step \in Booting =>
        /\ home \in DOMAIN mmap
        /\ mmap[home].avail
        /\ heap.start = mmap[home].addr /\ heap.end = End(mmap[home])
        /\ heap.start <= heap.mark /\ heap.mark <= heap.end

\* bootinfo's list is a copy of the map until x86_64_update_map.
RegionsInv ==
    /\ step \in {"memory", "update"} => regions = mmap
    /\ step = "handover" => regions = [i \in DOMAIN mmap |-> UpdateRegion(mmap[i])]

GivenInv ==
    \A g \in given :
        /\ step = "done"
        /\ \E i \in DOMAIN mmap : mmap[i].avail /\ g = Rounded(UpdateRegion(mmap[i]))

BootInv == TypeOK /\ MapInv /\ FixInv /\ KernelInv /\ HeapInv /\ RegionsInv /\ GivenInv

\* The reported map is a sequence of regions that do not overlap.
LEMMA MapFacts ==
    ASSUME MapInv
    PROVE  /\ \A i \in DOMAIN reported : reported[i] \in Region
           /\ \A i, j \in DOMAIN reported : i # j =>
                End(reported[i]) <= reported[j].addr \/ End(reported[j]) <= reported[i].addr
  BY BootMapAssumption DEF MapInv, End

\* The invariant holds when the boot loader jumps to the kernel.
LEMMA InitBoot == Init => BootInv
<1> SUFFICES ASSUME Init PROVE BootInv
  OBVIOUS
<1>1. TypeOK
  BY BootMapAssumption DEF Init, TypeOK, Steps
<1>2. MapInv
  <2>1. \A i \in DOMAIN reported : reported[i] \in Region
    BY BootMapAssumption DEF Init
  <2> QED
    BY <2>1 DEF Init, MapInv, Piece, Region, End
<1>3. FixInv /\ KernelInv /\ HeapInv /\ RegionsInv /\ GivenInv
  BY DEF Init, FixInv, KernelInv, HeapInv, RegionsInv, GivenInv, Booting
<1> QED
  BY <1>1, <1>2, <1>3 DEF BootInv

\* Steps that leave the map, its history and the heap's bounds alone keep
\* everything the invariant says about them.
LEMMA SameMap ==
    ASSUME BootInv, UNCHANGED <<reported, mmap>>, step \notin {"fix", "panic"}
    PROVE  MapInv' /\ KernelInv'
<1>1. MapInv'
  BY DEF BootInv, MapInv
<1>2. KernelInv'
  BY DEF BootInv, KernelInv, KernelInOneRegion
<1> QED
  BY <1>1, <1>2

\* early_malloc moves the watermark up, within the heap.
LEMMA KmallocFacts ==
    ASSUME BootInv, step \in {"symbols", "memory"}, NEW size \in Nat, NEW to \in {"symbols", "memory", "update"},
           Kmalloc(size, to), UNCHANGED <<mmap, home>>
    PROVE  /\ heap' \in [start : Nat, end : Nat, mark : Nat]
           /\ step' \in {to, "fault"}
           /\ HeapInv'
<1>1. heap \in [start : Nat, end : Nat, mark : Nat]
  BY DEF BootInv, TypeOK
<1>2. HeapInv /\ step \in Booting
  BY DEF BootInv, Booting
<1>3. CASE Fits(size)
  <2>1. heap' = [heap EXCEPT !.mark = @ + size] /\ step' = to
    BY <1>3 DEF Kmalloc
  <2>2. heap' \in [start : Nat, end : Nat, mark : Nat]
    BY <1>1, <2>1
  <2>3. heap'.start = heap.start /\ heap'.end = heap.end /\ heap'.mark = heap.mark + size
    BY <1>1, <2>1
  <2>4. heap'.start <= heap'.mark /\ heap'.mark <= heap'.end
    BY <1>1, <1>2, <1>3, <2>3 DEF HeapInv, Fits
  <2>5. HeapInv'
    BY <1>2, <2>3, <2>4 DEF HeapInv, End
  <2> QED
    BY <2>1, <2>2, <2>5
<1>4. CASE ~Fits(size)
  <2>1. heap' = heap /\ step' = "fault"
    BY <1>4 DEF Kmalloc
  <2>2. HeapInv'
    BY <2>1 DEF HeapInv, Booting
  <2> QED
    BY <1>1, <2>1, <2>2
<1> QED
  BY <1>3, <1>4

\* x86_64_fix_multiboot keeps the invariant.
LEMMA StepFix == BootInv /\ FixMultiboot => BootInv'
<1> SUFFICES ASSUME BootInv, FixMultiboot PROVE BootInv'
  OBVIOUS
<1> DEFINE fixed == [i \in DOMAIN mmap |-> FixRegion(mmap[i])]
<1>1. /\ mmap' = fixed /\ step = "fix" /\ step' \in {"panic", "largest"}
      /\ UNCHANGED <<reported, home, heap, regions, highest, given>>
  BY DEF FixMultiboot
<1>2. mmap \in Seq(Region) /\ \A i \in DOMAIN mmap : mmap[i] \in Region
  BY DEF BootInv, TypeOK
<1>3. \A i \in DOMAIN mmap : Piece(FixRegion(mmap[i]), mmap[i])
  BY <1>2, FixFacts
<1>4. fixed \in Seq(Region) /\ DOMAIN fixed = DOMAIN mmap
  <2>1. \A i \in DOMAIN mmap : FixRegion(mmap[i]) \in Region
    BY <1>3 DEF Piece
  <2> QED
    BY <1>2, <2>1
<1>5. TypeOK'
  BY <1>1, <1>4 DEF BootInv, TypeOK, Steps
<1>6. MapInv'
  <2>1. \A i \in DOMAIN mmap : Piece(mmap[i], reported[i]) /\ reported[i] \in Region
    BY MapFacts DEF BootInv, MapInv
  <2>2. \A i \in DOMAIN mmap : Piece(FixRegion(mmap[i]), reported[i])
    BY <1>2, <1>3, <2>1, PieceTrans
  <2> QED
    BY <1>1, <2>2 DEF BootInv, MapInv
<1>7. KernelInv'
  <2> SUFFICES ASSUME KernelInOneRegion', step' \notin {"fix", "panic"}
               PROVE  \A i \in DOMAIN mmap' : ClearOfKernel(mmap'[i])
    BY DEF KernelInv
  <2> SUFFICES ASSUME NEW i \in DOMAIN mmap PROVE ClearOfKernel(FixRegion(mmap[i]))
    BY <1>1
  <2>1. ~Panics(mmap[i])
    BY DEF FixMultiboot
  <2>2. mmap[i] = reported[i]
    BY <1>1 DEF BootInv, FixInv
  <2>3. mmap[i].avail /\ Overlap(mmap[i], KernelStart, KernelEnd) => Contains(mmap[i])
    BY <1>1, <2>2 DEF KernelInOneRegion, BootInv, MapInv
  <2> QED
    BY <1>2, <2>1, <2>3, FixFacts
<1>8. HeapInv' /\ RegionsInv' /\ GivenInv'
  BY <1>1 DEF BootInv, HeapInv, RegionsInv, GivenInv, Booting
<1>9. FixInv'
  BY <1>1 DEF FixInv
<1> QED
  BY <1>5, <1>6, <1>7, <1>8, <1>9 DEF BootInv

\* x86_64_protect_symtab and early_malloc_set_properties keep the invariant.
LEMMA StepSetup ==
    ASSUME BootInv, NEW i \in DOMAIN mmap, NEW symtab \in Symtabs, SetupHeap(i, symtab)
    PROVE  BootInv'
<1> DEFINE entry == [mmap[i] EXCEPT !.addr = @ + RoundUp(symtab), !.len = @ - RoundUp(symtab)]
<1>1. /\ mmap' = [mmap EXCEPT ![i] = entry] /\ home' = i
      /\ heap' = [start |-> entry.addr, end |-> End(entry), mark |-> entry.addr]
      /\ step = "largest" /\ step' \in {"fault", "symbols"}
      /\ UNCHANGED <<reported, regions, highest, given>>
      /\ mmap[i].avail /\ RoundUp(symtab) <= mmap[i].len
  BY DEF SetupHeap, Largest
<1>2. mmap \in Seq(Region) /\ \A k \in DOMAIN mmap : mmap[k] \in Region
  BY DEF BootInv, TypeOK
<1>3. symtab \in Nat
  BY BootMapAssumption
<1>4. Piece(entry, mmap[i]) /\ End(entry) = End(mmap[i]) /\ entry.avail
  BY <1>1, <1>2, <1>3, ProtectFacts
<1> HIDE DEF entry
<1>5. entry \in Region /\ entry.addr \in Nat /\ entry.len \in Nat /\ End(entry) \in Nat
      /\ entry.addr <= End(entry)
  BY <1>4 DEF Piece, Region, End
<1>6. mmap' \in Seq(Region) /\ DOMAIN mmap' = DOMAIN mmap
      /\ \A k \in DOMAIN mmap : mmap'[k] = IF k = i THEN entry ELSE mmap[k]
  BY <1>1, <1>2, <1>5
<1>7. TypeOK'
  BY <1>1, <1>5, <1>6 DEF BootInv, TypeOK, Steps
<1>8. MapInv'
  <2>1. \A k \in DOMAIN mmap : Piece(mmap[k], reported[k]) /\ reported[k] \in Region
    BY MapFacts DEF BootInv, MapInv
  <2>2. Piece(entry, reported[i])
    BY <1>2, <1>4, <2>1, PieceTrans
  <2> QED
    BY <1>1, <1>6, <2>1, <2>2 DEF BootInv, MapInv
<1>9. KernelInv'
  <2> SUFFICES ASSUME KernelInOneRegion'
               PROVE  \A k \in DOMAIN mmap' : ClearOfKernel(mmap'[k])
    BY DEF KernelInv
  <2>1. \A k \in DOMAIN mmap : ClearOfKernel(mmap[k])
    BY <1>1 DEF BootInv, KernelInv, KernelInOneRegion
  <2>2. ClearOfKernel(entry)
    BY <1>2, <1>4, <2>1, PieceClear
  <2> QED
    BY <1>6, <2>1, <2>2
<1>10. HeapInv'
  <2>1. home' \in DOMAIN mmap' /\ mmap'[home'] = entry
    BY <1>1, <1>6
  <2>2. heap'.start = entry.addr /\ heap'.end = End(entry) /\ heap'.mark = entry.addr
    BY <1>1
  <2> QED
    BY <1>4, <1>5, <2>1, <2>2 DEF HeapInv, End
<1>11. RegionsInv' /\ GivenInv' /\ FixInv'
  BY <1>1 DEF BootInv, RegionsInv, GivenInv, FixInv
<1> QED
  BY <1>7, <1>8, <1>9, <1>10, <1>11 DEF BootInv

\* x86_64_update_map keeps the invariant.
LEMMA StepUpdate == BootInv /\ UpdateMap => BootInv'
<1> SUFFICES ASSUME BootInv, UpdateMap PROVE BootInv'
  OBVIOUS
<1>1. /\ step = "update" /\ step' = "handover"
      /\ regions' = [i \in DOMAIN regions |-> UpdateRegion(regions[i])]
      /\ UNCHANGED <<reported, mmap, home, heap, highest, given>>
  BY DEF UpdateMap
<1>2. regions \in Seq(Region) /\ \A i \in DOMAIN regions : regions[i] \in Region
  BY DEF BootInv, TypeOK
<1>3. \A i \in DOMAIN regions : UpdateRegion(regions[i]) \in Region
  BY <1>2, UpdateFacts DEF BootInv, TypeOK, Piece
<1>4. regions' \in Seq(Region)
  BY <1>1, <1>2, <1>3
<1>5. TypeOK'
  BY <1>1, <1>4 DEF BootInv, TypeOK, Steps
<1>6. MapInv' /\ KernelInv'
  BY <1>1, SameMap
<1>7. HeapInv' /\ GivenInv' /\ FixInv'
  BY <1>1 DEF BootInv, HeapInv, GivenInv, FixInv, Booting, End
<1>8. RegionsInv'
  <2>1. regions = mmap
    BY <1>1 DEF BootInv, RegionsInv
  <2> QED
    BY <1>1, <2>1 DEF RegionsInv, UpdateRegion, HeapEnd, RoundUp, End
<1> QED
  BY <1>5, <1>6, <1>7, <1>8 DEF BootInv

\* The loop of arch_mm_init keeps the invariant.
LEMMA StepHandOver == BootInv /\ HandOver => BootInv'
<1> SUFFICES ASSUME BootInv, HandOver PROVE BootInv'
  OBVIOUS
<1>1. /\ step = "handover" /\ step' = "done"
      /\ regions' = [i \in DOMAIN regions |-> Rounded(regions[i])]
      /\ given' = {Rounded(regions[i]) : i \in {j \in DOMAIN regions : regions[j].avail}}
      /\ UNCHANGED <<reported, mmap, home, heap, highest>>
  BY DEF HandOver
<1>2. regions \in Seq(Region) /\ \A i \in DOMAIN regions : regions[i] \in Region
  BY DEF BootInv, TypeOK
<1>3. \A i \in DOMAIN regions : Rounded(regions[i]) \in Region
  BY <1>2, RoundedType
<1>4. regions' \in Seq(Region) /\ given' \subseteq Region
  BY <1>1, <1>2, <1>3
<1>5. TypeOK'
  BY <1>1, <1>4 DEF BootInv, TypeOK, Steps
<1>6. MapInv' /\ KernelInv'
  BY <1>1, SameMap
<1>7. HeapInv' /\ RegionsInv' /\ FixInv'
  BY <1>1 DEF BootInv, HeapInv, RegionsInv, FixInv, Booting, End
<1>8. GivenInv'
  <2>1. regions = [i \in DOMAIN mmap |-> UpdateRegion(mmap[i])]
    BY <1>1 DEF BootInv, RegionsInv
  <2>2. \A i \in DOMAIN mmap : UpdateRegion(mmap[i]).avail = mmap[i].avail
    BY UpdateFacts DEF BootInv, TypeOK
  <2>3. \A g \in given' : \E i \in DOMAIN mmap : mmap[i].avail /\ g = Rounded(UpdateRegion(mmap[i]))
    BY <1>1, <2>1, <2>2
  <2> QED
    BY <1>1, <2>3 DEF GivenInv, UpdateRegion, HeapEnd, RoundUp, End
<1> QED
  BY <1>5, <1>6, <1>7, <1>8 DEF BootInv

\* Every step of the boot keeps the invariant.
LEMMA BootStep == BootInv /\ [Next]_vars => BootInv'
<1> SUFFICES ASSUME BootInv, [Next]_vars PROVE BootInv'
  OBVIOUS
<1>1. CASE FixMultiboot
  BY <1>1, StepFix
<1>2. ASSUME NEW i \in DOMAIN mmap, NEW symtab \in Symtabs, SetupHeap(i, symtab)
      PROVE  BootInv'
  BY <1>2, StepSetup
<1>3. CASE NoHeap \/ SymtabTooLarge
  <2>1. step = "largest" /\ step' = "fault"
        /\ UNCHANGED <<reported, mmap, home, heap, regions, highest, given>>
    BY <1>3 DEF NoHeap, SymtabTooLarge
  <2>2. MapInv' /\ KernelInv'
    BY <2>1, SameMap
  <2>3. TypeOK'
    BY <2>1 DEF BootInv, TypeOK, Steps
  <2>4. HeapInv' /\ RegionsInv' /\ GivenInv' /\ FixInv'
    BY <2>1 DEF BootInv, HeapInv, RegionsInv, GivenInv, FixInv, Booting
  <2> QED
    BY <2>2, <2>3, <2>4 DEF BootInv
<1>4. ASSUME NEW size \in AllocSizes, RegisterSymbol(size) \/ PhysicalInit(size)
      PROVE  BootInv'
  <2>1. PICK to \in {"symbols", "update"} : Kmalloc(size, to)
    BY <1>4 DEF RegisterSymbol, PhysicalInit
  <2>2. /\ step \in {"symbols", "memory"}
        /\ step = "symbols" => step' \in {"symbols", "fault"}
        /\ step = "memory" => step' \in {"update", "fault"}
        /\ UNCHANGED <<reported, mmap, home, regions, highest, given>>
    BY <1>4 DEF RegisterSymbol, PhysicalInit, Kmalloc
  <2>3. size \in Nat
    BY BootMapAssumption
  <2>4. heap' \in [start : Nat, end : Nat, mark : Nat] /\ HeapInv'
    BY <2>1, <2>2, <2>3, KmallocFacts
  <2>5. TypeOK'
    BY <2>2, <2>4 DEF BootInv, TypeOK, Steps
  <2>6. MapInv' /\ KernelInv'
    BY <2>2, SameMap
  <2>7. RegionsInv' /\ GivenInv' /\ FixInv'
    BY <2>2 DEF BootInv, RegionsInv, GivenInv, FixInv
  <2> QED
    BY <2>4, <2>5, <2>6, <2>7 DEF BootInv
<1>5. CASE BuildBootinfo
  <2>1. /\ step = "symbols" /\ Kmalloc(Len(mmap) * NodeSize, "memory")
        /\ step' \in {"memory", "fault"}
        /\ regions' = mmap
        /\ highest' \in {0} \cup {End(mmap[i]) : i \in DOMAIN mmap}
        /\ UNCHANGED <<reported, mmap, home, given>>
    BY <1>5 DEF BuildBootinfo, Kmalloc
  <2>2. mmap \in Seq(Region) /\ \A i \in DOMAIN mmap : mmap[i] \in Region
    BY DEF BootInv, TypeOK
  <2>3. Len(mmap) * NodeSize \in Nat
    BY <2>2, BootMapAssumption
  <2>4. heap' \in [start : Nat, end : Nat, mark : Nat] /\ HeapInv'
    BY <2>1, <2>3, KmallocFacts
  <2>5. highest' \in Nat
    BY <2>1, <2>2 DEF Region, End
  <2>6. TypeOK'
    BY <2>1, <2>4, <2>5 DEF BootInv, TypeOK, Steps
  <2>7. MapInv' /\ KernelInv'
    BY <2>1, SameMap
  <2>8. RegionsInv' /\ GivenInv' /\ FixInv'
    BY <2>1 DEF BootInv, RegionsInv, GivenInv, FixInv
  <2> QED
    BY <2>4, <2>6, <2>7, <2>8 DEF BootInv
<1>6. CASE UpdateMap
  BY <1>6, StepUpdate
<1>7. CASE HandOver
  BY <1>7, StepHandOver
<1>8. CASE UNCHANGED vars
  BY <1>8 DEF vars, BootInv, TypeOK, MapInv, FixInv, KernelInv, KernelInOneRegion, HeapInv,
              RegionsInv, GivenInv, UpdateRegion, HeapEnd, RoundUp, End
<1> QED
  BY <1>1, <1>2, <1>3, <1>4, <1>5, <1>6, <1>7, <1>8 DEF Next

-----------------------------------------------------------------------------
(* What the invariant says of the memory given away.                       *)

\* A region given away comes from one entry of the map.
LEMMA GivenFacts ==
    ASSUME BootInv, NEW g \in given
    PROVE  \E i \in DOMAIN mmap, u \in Region :
             /\ step = "done" /\ mmap[i].avail
             /\ u = UpdateRegion(mmap[i]) /\ g = Rounded(u)
             /\ Piece(u, mmap[i]) /\ Piece(u, reported[i]) /\ reported[i].avail
             /\ mmap[i] \in Region /\ reported[i] \in Region /\ i \in DOMAIN reported
             /\ u.addr >= HeapEnd \/ End(mmap[i]) <= HeapEnd
<1>1. PICK i \in DOMAIN mmap : mmap[i].avail /\ g = Rounded(UpdateRegion(mmap[i]))
  BY DEF BootInv, GivenInv
<1>2. step = "done"
  BY DEF BootInv, GivenInv
<1>3. mmap[i] \in Region /\ heap.mark \in Nat
  BY DEF BootInv, TypeOK
<1>4. i \in DOMAIN reported /\ reported[i] \in Region /\ Piece(mmap[i], reported[i])
  BY MapFacts DEF BootInv, MapInv
<1>5. reported[i].avail
  BY <1>1, <1>4 DEF Piece
<1>6. /\ Piece(UpdateRegion(mmap[i]), mmap[i])
      /\ UpdateRegion(mmap[i]).addr >= HeapEnd \/ End(mmap[i]) <= HeapEnd
  BY <1>1, <1>3, UpdateFacts
<1>7. UpdateRegion(mmap[i]) \in Region
  BY <1>6 DEF Piece
<1>8. Piece(UpdateRegion(mmap[i]), reported[i])
  BY <1>3, <1>4, <1>6, PieceTrans
<1> QED
  BY <1>1, <1>2, <1>3, <1>4, <1>5, <1>6, <1>7, <1>8

\* In a page aligned map every region starts and ends on a page boundary.
LEMMA AlignedMap ==
    ASSUME BootInv, PageAligned, NEW i \in DOMAIN reported
    PROVE  Aligned(reported[i])
<1>1. reported[i] \in Region
  BY MapFacts DEF BootInv
<1>2. reported[i].addr \in Nat /\ reported[i].len \in Nat
  BY <1>1 DEF Region
<1>3. RoundDown(reported[i].addr) = reported[i].addr /\ RoundDown(reported[i].len) = reported[i].len
  BY DEF PageAligned
<1> QED
  BY <1>2, <1>3, RoundDownPage DEF Aligned

\* The invariant keeps the kernel out of what is given away.
LEMMA KernelFromInv == BootInv => KernelKept
<1> SUFFICES ASSUME BootInv, KernelInOneRegion, NEW g \in given
             PROVE  ~Overlap(g, KernelStart, KernelEnd)
  BY DEF KernelKept
<1>1. PICK i \in DOMAIN mmap, u \in Region :
        step = "done" /\ mmap[i].avail /\ g = Rounded(u) /\ Piece(u, mmap[i])
        /\ mmap[i] \in Region
  BY GivenFacts
<1>2. ~Overlap(mmap[i], KernelStart, KernelEnd)
  BY <1>1 DEF BootInv, KernelInv, ClearOfKernel
<1>3. u.addr >= KernelEnd \/ End(u) <= KernelStart
  BY <1>1, <1>2, KernelPages DEF Piece, Overlap, Region, End
<1>4. /\ g \in Region /\ u.addr <= g.addr
      /\ End(u) <= KernelStart => End(g) <= KernelStart
  BY <1>1, KernelPages, RoundedFacts
<1>5. g.addr >= KernelEnd \/ End(g) <= KernelStart
  BY <1>1, <1>3, <1>4, KernelPages DEF Region
<1> QED
  BY <1>4, <1>5, KernelPages DEF Overlap, Region, End

\* The invariant keeps what is given away inside the reported regions.
LEMMA ReportedFromInv == BootInv => OnlyReported
<1> SUFFICES ASSUME BootInv, PageAligned, NEW g \in given
             PROVE  \E j \in DOMAIN reported :
                      /\ reported[j].avail
                      /\ reported[j].addr <= g.addr
                      /\ End(g) <= End(reported[j])
  BY DEF OnlyReported
<1>1. PICK i \in DOMAIN mmap, u \in Region :
        g = Rounded(u) /\ Piece(u, reported[i]) /\ reported[i].avail /\ i \in DOMAIN reported
  BY GivenFacts
<1>2. Aligned(u)
  BY <1>1, AlignedMap DEF Piece
<1>3. g = u
  BY <1>1, <1>2, RoundedFacts
<1> QED
  BY <1>1, <1>3 DEF Piece

\* The invariant keeps the early heap's allocations out of what is given.
LEMMA HeapFromInv == BootInv => HeapKept
<1> SUFFICES ASSUME BootInv, PageAligned, HeapHasRoom, NEW g \in given
             PROVE  ~Overlap(g, heap.start, heap.mark)
  BY DEF HeapKept
<1>1. PICK i \in DOMAIN mmap, u \in Region :
        /\ step = "done" /\ g = Rounded(u) /\ Piece(u, reported[i])
        /\ i \in DOMAIN reported /\ reported[i] \in Region
        /\ u.addr >= HeapEnd \/ End(mmap[i]) <= HeapEnd
  BY GivenFacts
<1>2. Aligned(u)
  BY <1>1, AlignedMap DEF Piece
<1>3. g = u
  BY <1>1, <1>2, RoundedFacts
<1>4. heap.start \in Nat /\ heap.mark \in Nat /\ heap.end \in Nat
  BY DEF BootInv, TypeOK
<1>5. HeapEnd \in Nat /\ heap.mark <= HeapEnd
  BY <1>4, RoundUpPage DEF HeapEnd
<1>6. /\ home \in DOMAIN mmap /\ heap.start = mmap[home].addr /\ heap.end = End(mmap[home])
      /\ heap.mark <= heap.end
  BY <1>1 DEF BootInv, HeapInv, Booting
<1>7. CASE i = home
  BY <1>1, <1>3, <1>4, <1>5, <1>6, <1>7 DEF HeapHasRoom, Overlap, Region
<1>8. CASE i # home
  <2>1. Piece(mmap[home], reported[home]) /\ home \in DOMAIN reported /\ reported[home] \in Region
    BY <1>6, MapFacts DEF BootInv, MapInv
  <2>2. End(reported[i]) <= reported[home].addr \/ End(reported[home]) <= reported[i].addr
    BY <1>1, <1>8, <2>1, MapFacts DEF BootInv
  <2>3. End(u) <= heap.start \/ heap.end <= u.addr
    BY <1>1, <1>6, <2>1, <2>2 DEF Piece, Region, End
  <2> QED
    BY <1>3, <1>4, <1>6, <2>3 DEF Overlap, Region, End
<1> QED
  BY <1>7, <1>8

-----------------------------------------------------------------------------
(* Where the reported bytes go.                                            *)

Inside(a, r) == r.addr <= a /\ a < End(r)

\* Byte a of entry j is the kernel's, or below the early heap in the heap's
\* entry, or still in an available entry.
Accounted(j, a) ==
    \/ KernelStart <= a /\ a < KernelEnd
    \/ j = home /\ a < heap.start
    \/ mmap[j].avail /\ Inside(a, mmap[j])

\* The heap has no entry before it is set up.
NoHomeInv == step \in {"fix", "largest"} => home = 0

\* No reported byte has been dropped from the map on the way.
AccountInv ==
    \A j \in DOMAIN reported : \A a \in Nat :
        reported[j].avail /\ Inside(a, reported[j]) => Accounted(j, a)

\* arch_mm_init leaves no available region out.
AllGivenInv ==
    step = "done" =>
        \A i \in DOMAIN mmap : mmap[i].avail => Rounded(UpdateRegion(mmap[i])) \in given

WasteInv == NoHomeInv /\ AccountInv /\ AllGivenInv

\* What x86_64_fix_multiboot cuts off a region is the kernel's.
LEMMA FixKeeps ==
    ASSUME NEW r \in Region, NEW a \in Nat, r.avail, Inside(a, r)
    PROVE  \/ KernelStart <= a /\ a < KernelEnd
           \/ FixRegion(r).avail /\ Inside(a, FixRegion(r))
<1>1. r.addr \in Nat /\ r.len \in Nat /\ End(r) \in Nat
  BY DEF Region, End
<1> DEFINE c1 == Contains(r) /\ Case1(r)
           c2 == Contains(r) /\ Case2(r)
           c4 == Contains(r) /\ Case4(r) /\ ~Case1(r) /\ ~Case2(r)
<1>2. CASE c1
  <2>1. r.addr <= KernelStart /\ ~c2 /\ ~c4 /\ End(r) <= KernelEnd
    BY <1>1, <1>2, KernelPages DEF Case1, Case2, Contains
  <2>2. FixRegion(r) = [r EXCEPT !.len = KernelStart - r.addr]
    BY <1>2, <2>1 DEF FixRegion
  <2>3. FixRegion(r).avail = r.avail /\ FixRegion(r).addr = r.addr
        /\ FixRegion(r).len = KernelStart - r.addr
    BY <2>2 DEF Region
  <2>4. End(FixRegion(r)) = KernelStart
    BY <1>1, <2>3, KernelPages DEF End
  <2> QED
    BY <1>1, <2>1, <2>3, <2>4, KernelPages DEF Inside
<1>3. CASE c2
  <2>1. KernelStart <= r.addr /\ ~c1 /\ ~c4
    BY <1>1, <1>3, KernelPages DEF Case1, Case2, Contains
  <2>2. FixRegion(r) = [r EXCEPT !.addr = KernelEnd, !.len = End(r) - KernelEnd]
    BY <1>3, <2>1 DEF FixRegion
  <2>3. FixRegion(r).avail = r.avail /\ FixRegion(r).addr = KernelEnd
        /\ FixRegion(r).len = End(r) - KernelEnd
    BY <2>2 DEF Region
  <2>4. End(FixRegion(r)) = End(r)
    BY <1>1, <2>3, KernelPages DEF End
  <2> QED
    BY <1>1, <2>1, <2>3, <2>4, KernelPages DEF Inside
<1>4. CASE c4
  BY <1>1, <1>4, KernelPages DEF Case4, Inside
<1>5. CASE ~c1 /\ ~c2 /\ ~c4
  <2>1. FixRegion(r) = r
    BY <1>5 DEF FixRegion
  <2> QED
    BY <2>1
<1> QED
  BY <1>2, <1>3, <1>4, <1>5

\* Nothing is lost when the map and the heap's start stay as they are.
LEMMA AccountSame ==
    ASSUME AccountInv, UNCHANGED <<reported, mmap, home>>, heap'.start = heap.start
    PROVE  AccountInv'
  BY DEF AccountInv, Accounted, Inside, End

LEMMA InitWaste == Init => WasteInv
  BY DEF Init, WasteInv, NoHomeInv, AccountInv, AllGivenInv, Accounted, Inside

\* Every step of the boot accounts for every byte.
LEMMA WasteStep == BootInv /\ BootInv' /\ WasteInv /\ [Next]_vars => WasteInv'
<1> SUFFICES ASSUME BootInv, WasteInv, [Next]_vars PROVE WasteInv'
  OBVIOUS
<1>1. CASE FixMultiboot
  <2>1. /\ mmap' = [i \in DOMAIN mmap |-> FixRegion(mmap[i])]
        /\ step = "fix" /\ step' \in {"panic", "largest"}
        /\ UNCHANGED <<reported, home, heap, regions, highest, given>>
    BY <1>1 DEF FixMultiboot
  <2>2. mmap = reported /\ DOMAIN mmap = DOMAIN reported
    BY <2>1 DEF BootInv, FixInv
  <2>3. ASSUME NEW j \in DOMAIN reported, NEW a \in Nat,
               reported[j].avail, Inside(a, reported[j])
        PROVE  Accounted(j, a)'
    <3>1. reported[j] \in Region /\ mmap'[j] = FixRegion(reported[j])
      BY <2>1, <2>2, MapFacts DEF BootInv
    <3>2. \/ KernelStart <= a /\ a < KernelEnd
          \/ mmap'[j].avail /\ Inside(a, mmap'[j])
      BY <2>3, <3>1, FixKeeps
    <3> QED
      BY <3>2 DEF Accounted, Inside, End
  <2>4. AccountInv'
    BY <2>1, <2>3 DEF AccountInv, Inside, End
  <2>5. NoHomeInv' /\ AllGivenInv'
    BY <2>1 DEF WasteInv, NoHomeInv, AllGivenInv
  <2> QED
    BY <2>4, <2>5 DEF WasteInv
<1>2. ASSUME NEW i \in DOMAIN mmap, NEW symtab \in Symtabs, SetupHeap(i, symtab)
      PROVE  WasteInv'
  <2> DEFINE entry == [mmap[i] EXCEPT !.addr = @ + RoundUp(symtab), !.len = @ - RoundUp(symtab)]
  <2>1. /\ mmap' = [mmap EXCEPT ![i] = entry] /\ home' = i
        /\ heap' = [start |-> entry.addr, end |-> End(entry), mark |-> entry.addr]
        /\ step = "largest" /\ step' \in {"fault", "symbols"}
        /\ UNCHANGED <<reported, regions, highest, given>>
        /\ mmap[i].avail /\ RoundUp(symtab) <= mmap[i].len
    BY <1>2 DEF SetupHeap, Largest
  <2>2. mmap \in Seq(Region) /\ mmap[i] \in Region /\ symtab \in Nat
        /\ DOMAIN mmap = DOMAIN reported
    BY BootMapAssumption DEF BootInv, TypeOK, MapInv
  <2>3. Piece(entry, mmap[i]) /\ End(entry) = End(mmap[i]) /\ entry.avail
    BY <2>1, <2>2, ProtectFacts
  <2> HIDE DEF entry
  <2>4. heap'.start = entry.addr /\ home' = i /\ mmap'[i] = entry
        /\ \A k \in DOMAIN mmap : k # i => mmap'[k] = mmap[k]
    BY <2>1, <2>2
  <2>5. home = 0 /\ \A k \in DOMAIN reported : k # 0
    BY <2>1, <2>2 DEF WasteInv, NoHomeInv
  <2>6. ASSUME NEW j \in DOMAIN reported, NEW a \in Nat,
               reported[j].avail, Inside(a, reported[j])
        PROVE  Accounted(j, a)'
    <3>1. \/ KernelStart <= a /\ a < KernelEnd
          \/ mmap[j].avail /\ Inside(a, mmap[j])
      BY <2>5, <2>6 DEF WasteInv, AccountInv, Accounted
    <3>2. CASE j = i
      <4>1. entry.addr \in Nat
        BY <2>3 DEF Piece, Region
      <4>2. Inside(a, mmap[j]) => a < entry.addr \/ Inside(a, entry)
        BY <2>3, <3>2, <4>1 DEF Inside
      <4> QED
        BY <2>3, <2>4, <3>1, <3>2, <4>2 DEF Accounted, Inside, End
    <3>3. CASE j # i
      BY <2>2, <2>4, <3>1, <3>3 DEF Accounted, Inside, End
    <3> QED
      BY <3>2, <3>3
  <2>7. AccountInv'
    BY <2>1, <2>6 DEF AccountInv, Inside, End
  <2>8. NoHomeInv' /\ AllGivenInv'
    BY <2>1 DEF NoHomeInv, AllGivenInv
  <2> QED
    BY <2>7, <2>8 DEF WasteInv
<1>3. CASE NoHeap \/ SymtabTooLarge \/ UpdateMap
  <2>1. /\ UNCHANGED <<reported, mmap, home, heap>> /\ step' \in {"fault", "handover"}
    BY <1>3 DEF NoHeap, SymtabTooLarge, UpdateMap
  <2>2. AccountInv'
    BY <2>1, AccountSame DEF WasteInv
  <2> QED
    BY <2>1, <2>2 DEF WasteInv, NoHomeInv, AllGivenInv
<1>4. ASSUME NEW size \in Nat, NEW to \in {"symbols", "memory", "update"},
             Kmalloc(size, to), UNCHANGED <<reported, mmap, home>>
      PROVE  WasteInv'
  <2>1. heap'.start = heap.start /\ step' \in {"symbols", "memory", "update", "fault"}
    BY <1>4 DEF Kmalloc, BootInv, TypeOK
  <2>2. AccountInv'
    BY <1>4, <2>1, AccountSame DEF WasteInv
  <2> QED
    BY <2>1, <2>2 DEF WasteInv, NoHomeInv, AllGivenInv
<1>5. ASSUME NEW size \in AllocSizes, RegisterSymbol(size) \/ PhysicalInit(size)
      PROVE  WasteInv'
  <2>1. size \in Nat
    BY BootMapAssumption
  <2>2. PICK to \in {"symbols", "update"} : Kmalloc(size, to) /\ UNCHANGED <<reported, mmap, home>>
    BY <1>5 DEF RegisterSymbol, PhysicalInit
  <2> QED
    BY <1>4, <2>1, <2>2
<1>6. CASE BuildBootinfo
  <2>1. Kmalloc(Len(mmap) * NodeSize, "memory") /\ UNCHANGED <<reported, mmap, home>>
    BY <1>6 DEF BuildBootinfo
  <2>2. mmap \in Seq(Region)
    BY DEF BootInv, TypeOK
  <2>3. Len(mmap) * NodeSize \in Nat
    BY <2>2, BootMapAssumption
  <2> QED
    BY <1>4, <2>1, <2>3
<1>7. CASE HandOver
  <2>1. /\ step = "handover" /\ step' = "done"
        /\ given' = {Rounded(regions[i]) : i \in {j \in DOMAIN regions : regions[j].avail}}
        /\ UNCHANGED <<reported, mmap, home, heap, highest>>
    BY <1>7 DEF HandOver
  <2>2. AccountInv'
    BY <2>1, AccountSame DEF WasteInv
  <2>3. regions = [i \in DOMAIN mmap |-> UpdateRegion(mmap[i])]
    BY <2>1 DEF BootInv, RegionsInv
  <2>4. \A i \in DOMAIN mmap : UpdateRegion(mmap[i]).avail = mmap[i].avail
    BY UpdateFacts DEF BootInv, TypeOK
  <2>5. \A i \in DOMAIN mmap : mmap[i].avail => Rounded(UpdateRegion(mmap[i])) \in given'
    BY <2>1, <2>3, <2>4
  <2>6. AllGivenInv'
    BY <2>1, <2>5 DEF AllGivenInv, UpdateRegion, HeapEnd, RoundUp, End
  <2> QED
    BY <2>1, <2>2, <2>6 DEF WasteInv, NoHomeInv
<1>8. CASE UNCHANGED vars
  BY <1>8 DEF vars, WasteInv, NoHomeInv, AccountInv, AllGivenInv, Accounted, Inside,
              UpdateRegion, HeapEnd, RoundUp, End
<1> QED
  BY <1>1, <1>2, <1>3, <1>5, <1>6, <1>7, <1>8 DEF Next

\* Cutting the heap off at its end takes no byte of another entry: the end
\* is inside the heap's own.
LEMMA UpdateKeeps ==
    ASSUME BootInv, HeapHasRoom, step = "done", NEW j \in DOMAIN mmap, NEW a \in Nat,
           mmap[j].avail, Inside(a, mmap[j])
    PROVE  (j = home /\ a < HeapEnd) \/ Inside(a, UpdateRegion(mmap[j]))
<1>1. mmap[j] \in Region /\ heap.mark \in Nat /\ heap.start \in Nat /\ heap.end \in Nat
  BY DEF BootInv, TypeOK
<1>2. HeapEnd \in Nat /\ heap.mark <= HeapEnd
  BY <1>1, RoundUpPage DEF HeapEnd
<1>3. mmap[j].addr \in Nat /\ End(mmap[j]) \in Nat
  BY <1>1 DEF Region, End
<1>4. CASE mmap[j].addr < HeapEnd /\ End(mmap[j]) > HeapEnd
  <2>1. UpdateRegion(mmap[j]) = [mmap[j] EXCEPT !.addr = HeapEnd, !.len = End(mmap[j]) - HeapEnd]
    BY <1>4 DEF UpdateRegion
  <2>2. UpdateRegion(mmap[j]).addr = HeapEnd
    BY <1>1, <2>1 DEF Region
  <2>3. End(UpdateRegion(mmap[j])) = End(mmap[j])
    BY <1>1, UpdateFacts
  <2>4. j = home
    <3>1. /\ home \in DOMAIN mmap /\ heap.start = mmap[home].addr /\ heap.end = End(mmap[home])
          /\ heap.start <= heap.mark
      BY DEF BootInv, HeapInv, Booting
    <3>2. /\ Piece(mmap[home], reported[home]) /\ home \in DOMAIN reported
          /\ Piece(mmap[j], reported[j]) /\ j \in DOMAIN reported
          /\ reported[home] \in Region /\ reported[j] \in Region
      BY <3>1, MapFacts DEF BootInv, MapInv
    <3>3. j # home => End(reported[j]) <= reported[home].addr \/ End(reported[home]) <= reported[j].addr
      BY <3>2, MapFacts DEF BootInv
    <3>4. reported[home].addr \in Nat /\ End(reported[home]) \in Nat
          /\ reported[j].addr \in Nat /\ End(reported[j]) \in Nat
      BY <3>2 DEF Region, End
    <3>5. /\ reported[home].addr <= heap.start /\ heap.end <= End(reported[home])
          /\ reported[j].addr <= mmap[j].addr /\ End(mmap[j]) <= End(reported[j])
      BY <3>1, <3>2 DEF Piece
    <3>6. HeapEnd < heap.end
      BY DEF HeapHasRoom
    <3> QED
      BY <1>1, <1>2, <1>3, <1>4, <3>1, <3>3, <3>4, <3>5, <3>6
  <2> QED
    BY <1>2, <2>2, <2>3, <2>4 DEF Inside
<1>5. CASE ~(mmap[j].addr < HeapEnd /\ End(mmap[j]) > HeapEnd)
  <2>1. UpdateRegion(mmap[j]) = mmap[j]
    BY <1>5 DEF UpdateRegion
  <2> QED
    BY <2>1
<1> QED
  BY <1>4, <1>5

\* The accounts are complete when the memory has been handed over.
LEMMA WasteFromInv == BootInv /\ WasteInv => NothingWasted
<1> SUFFICES ASSUME BootInv, WasteInv, step = "done", PageAligned, HeapHasRoom,
                    NEW j \in DOMAIN reported,
                    NEW a \in reported[j].addr .. End(reported[j]) - 1, reported[j].avail
             PROVE  \/ a \in KernelStart .. KernelEnd - 1
                    \/ j = home /\ a < HeapEnd
                    \/ \E g \in given : a \in g.addr .. End(g) - 1
  BY DEF NothingWasted
<1>1. reported[j] \in Region /\ Piece(mmap[j], reported[j]) /\ j \in DOMAIN mmap
      /\ mmap[j] \in Region
  BY MapFacts DEF BootInv, MapInv, TypeOK
<1>2. a \in Nat /\ Inside(a, reported[j])
  BY <1>1 DEF Region, End, Inside
<1>3. Accounted(j, a)
  BY <1>2 DEF WasteInv, AccountInv
<1>4. CASE KernelStart <= a /\ a < KernelEnd
  BY <1>2, <1>4, KernelPages
<1>5. CASE j = home /\ a < heap.start
  <2>1. heap.mark \in Nat /\ heap.start \in Nat /\ heap.start <= heap.mark
    BY DEF BootInv, TypeOK, HeapInv, Booting
  <2>2. HeapEnd \in Nat /\ heap.mark <= HeapEnd
    BY <2>1, RoundUpPage DEF HeapEnd
  <2> QED
    BY <1>2, <1>5, <2>1, <2>2
<1>6. CASE mmap[j].avail /\ Inside(a, mmap[j])
  <2> DEFINE u == UpdateRegion(mmap[j])
  <2>1. Piece(u, mmap[j])
    BY <1>1, UpdateFacts DEF BootInv, TypeOK
  <2>2. Aligned(u) /\ u \in Region
    BY <1>1, <2>1, AlignedMap DEF Piece
  <2>3. u \in given
    <3>1. Rounded(u) \in given
      BY <1>1, <1>6 DEF WasteInv, AllGivenInv
    <3>2. Rounded(u) = u
      BY <2>2, RoundedFacts
    <3> QED
      BY <3>1, <3>2
  <2>4. (j = home /\ a < HeapEnd) \/ Inside(a, u)
    BY <1>1, <1>2, <1>6, UpdateKeeps
  <2> HIDE DEF u
  <2>5. Inside(a, u) => a \in u.addr .. End(u) - 1
    BY <1>2, <2>2 DEF Inside, Region, End
  <2> QED
    BY <2>3, <2>4, <2>5
<1> QED
  BY <1>3, <1>4, <1>5, <1>6 DEF Accounted

-----------------------------------------------------------------------------
(* The theorems.                                                           *)

\* The invariant holds throughout the boot.
THEOREM BootInvariant == Spec => []BootInv
  BY InitBoot, BootStep, PTL DEF Spec

\* The boot code keeps its variables in their types: no length computed by
\* x86_64_fix_multiboot or x86_64_update_map is negative, and the one of
\* x86_64_protect_symtab that may be stops the boot.
THEOREM BootTypes == Spec => []TypeOK
<1>1. BootInv => TypeOK
  BY DEF BootInv
<1> QED
  BY <1>1, BootInvariant, PTL

\* The pages of a kernel reported in one region are never given to
\* physical_free_region, whether or not the map is page aligned.
THEOREM KernelNeverFreed == Spec => []KernelKept
  BY KernelFromInv, BootInvariant, PTL

\* arch_mm_init gives away only memory the boot loader reported available,
\* if it reported page aligned regions.
THEOREM OnlyReportedFreed == Spec => []OnlyReported
  BY ReportedFromInv, BootInvariant, PTL

\* What early_malloc handed out is never given away, if the map is page
\* aligned and x86_64_update_map finds room above the heap.
THEOREM HeapNeverFreed == Spec => []HeapKept
  BY HeapFromInv, BootInvariant, PTL

\* Every byte of a page aligned map that was reported available and is
\* neither the kernel's nor below the end of the early heap in the heap's
\* region reaches physical_free_region: none of the four edits of the map
\* loses memory, whatever the number, order and sizes of the regions.
THEOREM NothingIsWasted == Spec => []NothingWasted
<1>1. Init => BootInv /\ WasteInv
  BY InitBoot, InitWaste
<1>2. BootInv /\ WasteInv /\ [Next]_vars => (BootInv /\ WasteInv)'
  BY BootStep, WasteStep
<1> QED
  BY <1>1, <1>2, WasteFromInv, PTL DEF Spec
=============================================================================
