------------------------------ MODULE BootMap -------------------------------
(***************************************************************************)
(* From the memory map of the boot loader to the memory the physical       *)
(* memory manager is given: x86_64_init (arch/x86_64/boot/x86-64_init.c),  *)
(* the early heap of mm/heap.c, and arch_mm_init (arch/x86_64/mm/init.c).  *)
(*                                                                         *)
(* Boot code runs alone, with interrupts off.  The kernel image, the       *)
(* symbol table and the early heap all lie in memory the boot loader       *)
(* reports as available; each is carved out by a different function.       *)
(***************************************************************************)
EXTENDS Integers, Sequences

CONSTANTS
    Page,           \* PAGE_SIZE
    KernelImage,    \* [start, end): __kernel_start and __kernel_end
    Maps,           \* the memory maps a boot loader may report
    Symtabs,        \* possible sizes of the symbol and string tables
    AllocSizes,     \* sizes asked of the early heap
    NodeSize        \* sizeof(struct mint_memory_region)

Region == [addr : Nat, len : Nat, avail : BOOLEAN]

ASSUME BootMapAssumption ==
    /\ Page \in Nat \ {0}
    /\ KernelImage \in [start : Nat, end : Nat] /\ KernelImage.start <= KernelImage.end
    /\ Maps \subseteq Seq(Region)
    /\ \A m \in Maps : \A i, j \in DOMAIN m :            \* regions do not overlap
         i # j => m[i].addr + m[i].len <= m[j].addr \/ m[j].addr + m[j].len <= m[i].addr
    /\ Symtabs \subseteq Nat /\ AllocSizes \subseteq Nat /\ NodeSize \in Nat

VARIABLES
    step,       \* how far the boot has come
    reported,   \* history: the map as the boot loader left it
    mmap,       \* the multiboot map, edited in place
    home,       \* index of the entry the early heap lives in, 0 before
    heap,       \* the early heap: start, end and watermark, as physical addresses
    regions,    \* bootinfo.memregions
    highest,    \* bootinfo.highest_mem
    given       \* the regions passed to physical_free_region

vars == <<step, reported, mmap, home, heap, regions, highest, given>>

Steps == {"fix", "largest", "symbols", "memory", "update", "handover", "done",
          "panic", "fault"}

RoundDown(x) == (x \div Page) * Page
RoundUp(x)   == ((x + Page - 1) \div Page) * Page

KernelStart == RoundDown(KernelImage.start)
KernelEnd   == RoundUp(KernelImage.end)

End(r) == r.addr + r.len

Init ==
    /\ step = "fix"
    /\ reported \in Maps
    /\ mmap = reported
    /\ home = 0
    /\ heap = [start |-> 0, end |-> 0, mark |-> 0]
    /\ regions = <<>>
    /\ highest = 0
    /\ given = {}

-----------------------------------------------------------------------------
(* x86_64_fix_multiboot.                                                   *)

\* Only a region that contains the whole kernel is looked at.
Contains(r) == r.avail /\ r.addr <= KernelStart /\ End(r) >= KernelEnd

\* The four cases of the comment, in the order of the code.
Case1(r) == r.addr < KernelStart /\ End(r) <= KernelEnd
Case2(r) == r.addr >= KernelStart /\ r.addr <= KernelEnd /\ End(r) > KernelEnd
Case3(r) == r.addr < KernelStart /\ End(r) >= KernelEnd
Case4(r) == r.addr >= KernelStart /\ End(r) <= KernelEnd

Panics(r) == Contains(r) /\ ~Case1(r) /\ ~Case2(r) /\ Case3(r)

\* Mutant: the region's start moves but its length stays.
FixRegion_KeepLength(r) ==
    CASE Contains(r) /\ Case2(r) -> [r EXCEPT !.addr = KernelEnd]
      [] Contains(r) /\ Case4(r) /\ ~Case2(r) -> [r EXCEPT !.avail = FALSE]
      [] OTHER -> r

\* Mutant: a region that is just the kernel stays available.
FixRegion_KeepKernel(r) ==
    CASE Contains(r) /\ Case1(r) -> [r EXCEPT !.len = KernelStart - r.addr]
      [] Contains(r) /\ Case2(r) -> [r EXCEPT !.addr = KernelEnd, !.len = End(r) - KernelEnd]
      [] OTHER -> r

FixRegion(r) ==
    CASE Contains(r) /\ Case1(r) -> [r EXCEPT !.len = KernelStart - r.addr]
      [] Contains(r) /\ Case2(r) -> [r EXCEPT !.addr = KernelEnd, !.len = End(r) - KernelEnd]
      [] Contains(r) /\ Case4(r) /\ ~Case1(r) /\ ~Case2(r) -> [r EXCEPT !.avail = FALSE]
      [] OTHER -> r

\* A panic ends the boot: nothing reads the map again.
FixMultiboot ==
    /\ step = "fix"
    /\ step' = IF \E i \in DOMAIN mmap : Panics(mmap[i]) THEN "panic" ELSE "largest"
    /\ mmap' = [i \in DOMAIN mmap |-> FixRegion(mmap[i])]
    /\ UNCHANGED <<reported, home, heap, regions, highest, given>>

-----------------------------------------------------------------------------
(* The early heap.                                                         *)

\* multiboot_get_largest_available_block: the first of the largest ones.
Largest(i) ==
    /\ mmap[i].avail /\ mmap[i].len > 0
    /\ \A j \in DOMAIN mmap : mmap[j].avail =>
         mmap[j].len < mmap[i].len \/ (mmap[j].len = mmap[i].len /\ i <= j)

\* x86_64_protect_symtab and early_malloc_set_properties.  With nothing left of
\* the block the early heap stays unconfigured, and the first kmalloc returns
\* NULL.
SetupHeap(i, symtab) ==
    LET total == RoundUp(symtab)
        entry == [mmap[i] EXCEPT !.addr = @ + total, !.len = @ - total]
    IN  /\ step = "largest"
        /\ Largest(i)
        /\ total <= mmap[i].len
        /\ mmap' = [mmap EXCEPT ![i] = entry]
        /\ home' = i
        /\ heap' = [start |-> entry.addr, end |-> End(entry), mark |-> entry.addr]
        /\ step' = IF entry.len = 0 THEN "fault" ELSE "symbols"
        /\ UNCHANGED <<reported, regions, highest, given>>

\* With tables larger than the block the length wraps below zero: the early heap
\* ends where the block did, before it starts, and the first kmalloc returns
\* NULL.  Its caller writes through that before the block is looked at again.
SymtabTooLarge ==
    /\ step = "largest"
    /\ \E i \in DOMAIN mmap, symtab \in Symtabs : Largest(i) /\ RoundUp(symtab) > mmap[i].len
    /\ step' = "fault"
    /\ UNCHANGED <<reported, mmap, home, heap, regions, highest, given>>

\* With no available block the entry is NULL and is written through.
NoHeap ==
    /\ step = "largest"
    /\ ~ \E i \in DOMAIN mmap : Largest(i)
    /\ step' = "fault"
    /\ UNCHANGED <<reported, mmap, home, heap, regions, highest, given>>

\* early_malloc's test.
Fits(size) == heap.mark + size <= heap.end

\* kmalloc, whose callers here all write through the result without a test.
\* "fault" is that write through NULL; what it hits is not modelled.
Kmalloc(size, to) ==
    /\ heap' = IF Fits(size) THEN [heap EXCEPT !.mark = @ + size] ELSE heap
    /\ step' = IF Fits(size) THEN to ELSE "fault"

\* ksymbol_register, from multiboot_parse_symbols.
RegisterSymbol(size) ==
    /\ step = "symbols"
    /\ Kmalloc(size, "symbols")
    /\ UNCHANGED <<reported, mmap, home, regions, highest, given>>

-----------------------------------------------------------------------------
(* bootinfo and arch_mm_init.                                              *)

\* Ends of the available entries: highest_mem is their maximum.
IsHighest(h) ==
    /\ \A i \in DOMAIN mmap : mmap[i].avail => End(mmap[i]) <= h
    /\ h = 0 \/ \E i \in DOMAIN mmap : mmap[i].avail /\ End(mmap[i]) = h

\* The rest of x86_64_init: one list node per entry, copied.
BuildBootinfo ==
    /\ step = "symbols"
    /\ Kmalloc(Len(mmap) * NodeSize, "memory")
    /\ regions' = mmap
    /\ \E h \in {0} \cup {End(mmap[i]) : i \in DOMAIN mmap} : IsHighest(h) /\ highest' = h
    /\ UNCHANGED <<reported, mmap, home, given>>

\* physical_init: the structures and bitsets of both allocators.
PhysicalInit(size) ==
    /\ step = "memory"
    /\ Kmalloc(size, "update")
    /\ UNCHANGED <<reported, mmap, home, regions, highest, given>>

\* Where the early heap ends for x86_64_update_map: kmalloc(0), rounded up.
HeapEnd == RoundUp(heap.mark)

\* Mutant: the page the watermark is in is given away.
UpdateRegion_RoundsDown(r) ==
    LET e == RoundDown(heap.mark) IN
    IF r.addr < e /\ End(r) > e /\ r.avail
    THEN [r EXCEPT !.addr = e, !.len = End(r) - e] ELSE r

\* Mutant: a watermark on a page boundary costs a page.
UpdateRegion_NextPage(r) ==
    LET e == RoundDown(heap.mark) + Page IN
    IF r.addr < e /\ End(r) > e /\ r.avail
    THEN [r EXCEPT !.addr = e, !.len = End(r) - e] ELSE r

UpdateRegion(r) ==
    IF r.addr < HeapEnd /\ End(r) > HeapEnd /\ r.avail
    THEN [r EXCEPT !.addr = HeapEnd, !.len = End(r) - HeapEnd]
    ELSE r

\* x86_64_update_map.
UpdateMap ==
    /\ step = "update"
    /\ regions' = [i \in DOMAIN regions |-> UpdateRegion(regions[i])]
    /\ step' = "handover"
    /\ UNCHANGED <<reported, mmap, home, heap, highest, given>>

\* The start is rounded up, the size down, independently of each other.
Rounded(r) == [r EXCEPT !.addr = RoundUp(@), !.len = RoundDown(@)]

\* The loop of arch_mm_init over all regions.
HandOver ==
    /\ step = "handover"
    /\ regions' = [i \in DOMAIN regions |-> Rounded(regions[i])]
    /\ given' = {Rounded(regions[i]) : i \in {j \in DOMAIN regions : regions[j].avail}}
    /\ step' = "done"
    /\ UNCHANGED <<reported, mmap, home, heap, highest>>

Next ==
    \/ FixMultiboot
    \/ \E i \in DOMAIN mmap, symtab \in Symtabs : SetupHeap(i, symtab)
    \/ SymtabTooLarge
    \/ NoHeap
    \/ \E size \in AllocSizes : RegisterSymbol(size) \/ PhysicalInit(size)
    \/ BuildBootinfo \/ UpdateMap \/ HandOver

Spec == Init /\ [][Next]_vars
-----------------------------------------------------------------------------
(* Properties.                                                             *)

\* Types of the variables.
TypeOK ==
    /\ step \in Steps
    /\ reported \in Seq(Region)
    /\ mmap \in Seq(Region)
    /\ home \in Nat
    /\ heap \in [start : Nat, end : Nat, mark : Nat]
    /\ regions \in Seq(Region)
    /\ highest \in Nat
    /\ given \subseteq Region

Overlap(r, from, to) == r.addr < to /\ from < End(r)

\* The maps x86_64_fix_multiboot can deal with: an available region holds
\* all of the kernel or nothing of it.
KernelInOneRegion ==
    \A i \in DOMAIN reported :
        reported[i].avail /\ Overlap(reported[i], KernelStart, KernelEnd) => Contains(reported[i])

PageAligned ==
    \A i \in DOMAIN reported :
        RoundDown(reported[i].addr) = reported[i].addr /\ RoundDown(reported[i].len) = reported[i].len

\* The early heap left at least its region's last page untouched.
HeapHasRoom == HeapEnd < heap.end

\* Memory of the kernel image is never given to the physical memory manager
\* if it was reported as part of one region, whatever the rounding, the
\* symbol table and the early heap do to the regions afterwards.
KernelKept ==
    KernelInOneRegion =>
        \A g \in given : ~Overlap(g, KernelStart, KernelEnd)

\* What early_malloc handed out before the physical memory manager existed
\* stays allocated, as long as the heap has not reached its last page.
HeapKept ==
    PageAligned /\ HeapHasRoom =>
        \A g \in given : ~Overlap(g, heap.start, heap.mark)

\* Every region given lies in one that was reported available, if the
\* boot loader's regions are page aligned.
OnlyReported ==
    PageAligned => \A g \in given : \E j \in DOMAIN reported :
        /\ reported[j].avail
        /\ reported[j].addr <= g.addr
        /\ End(g) <= End(reported[j])

\* Nothing is wasted: available memory that is neither kernel nor below the
\* end of the early heap in the heap's own region is given away.
NothingWasted ==
    step = "done" /\ PageAligned /\ KernelInOneRegion /\ HeapHasRoom =>
        \A j \in DOMAIN reported : \A a \in reported[j].addr .. End(reported[j]) - 1 :
            reported[j].avail =>
                \/ a \in KernelStart .. KernelEnd - 1
                \/ j = home /\ a < HeapEnd
                \/ \E g \in given : a \in g.addr .. End(g) - 1

=============================================================================
