------------------------------- MODULE Paging -------------------------------
(***************************************************************************)
(* Page tables: mm/virtual.c and arch/x86_64/mm (map.c, unmap.c, init.c).  *)
(*                                                                         *)
(* The tables of an address space are edited through its recursive entry:  *)
(* with the entry R of the running PML4 pointing at a PML4, the address    *)
(* entry_to_address(R, R, R, i) is the table its entry i points at, and so *)
(* on.  Here every access to a table is a walk of the tables themselves,   *)
(* from the running PML4 through R, so a wrong R reaches a wrong table.    *)
(* physical_alloc and physical_free map the frame they handle at           *)
(* phys_page_virt (lib/stack.c), which re-enters arch_virtual_map in the   *)
(* middle of an edit.                                                      *)
(*                                                                         *)
(* A frame is a number, an entry the frame it points at or Absent.  Every  *)
(* caller maps with PAGE_PRESENT | PAGE_WRITABLE, so flags are left out,   *)
(* as is the TLB: each access is preceded by the invlpg it needs.  A table *)
(* that is not there has no step: a page fault is a deadlock.              *)
(***************************************************************************)
EXTENDS Integers, FiniteSets

CONSTANTS
    N,              \* entries of a table (512)
    Pool,           \* frames the physical memory manager has to give
    BootPml4, BootPdpt, BootPd, BootPt,     \* the tables of bootstrap32.asm
    FinalPml4,      \* final_pml4
    ProcessPml4,    \* the PML4 of a process's memory_context (tm/process.h)
    KernelPages,    \* pages of the kernel image, from KERNEL_START
    MapStarts,      \* virtual page numbers given to virtual_map and unmap
    MaxPages,       \* most pages in one call
    DataFrames      \* physical addresses given to virtual_map

Absent    == -1
Index     == 0 .. N - 1
Recursive == N - 2                      \* RECURSIVE_ENTRY
VmaBase   == (N - 1) * N * N * N + (N - 2) * N * N
KernelStart == VmaBase + 1              \* KERNEL_START, mapped to KERNEL_PHYS
Window    == KernelStart                \* phys_page_virt, in the kernel's image
VgaPage   == VmaBase                    \* VGA_START, mapped to VGA_PHYS
Tables    == Pool \cup {0, BootPml4, BootPdpt, BootPd, BootPt, FinalPml4, ProcessPml4}

\* The tables that are not taken from the pool.
Fixed == <<BootPml4, BootPdpt, BootPd, BootPt, FinalPml4, ProcessPml4>>

ASSUME PagingAssumption ==
    /\ N \in Nat /\ N >= 4
    /\ KernelPages \in 1 .. N - 2
    /\ Pool \subseteq Nat \ {0} /\ IsFiniteSet(Pool)
    /\ \A i \in 1 .. 6 : Fixed[i] \in Nat \ {0} /\ Fixed[i] \notin Pool
    /\ \A i, j \in 1 .. 6 : i # j => Fixed[i] # Fixed[j]

\* The pages the callers of virtual_map name: the heap, the DMA region and
\* the PCI registers.  HEAP_START, DMA_START and PCI_START of mmap.h lie
\* outside the pages the boot tables map at VMA_BASE and clear of the
\* recursive PML4 entry.
ClientPages == UNION {v .. v + MaxPages - 1 : v \in MapStarts}

ASSUME ClientAssumption ==
    /\ MapStarts \subseteq Nat /\ MaxPages \in Nat /\ DataFrames \subseteq Nat
    /\ \A v \in ClientPages :
          /\ v < N * N * N * N
          /\ v \div (N * N * N) # Recursive
          /\ v \notin VmaBase .. VmaBase + N - 1

VARIABLES
    mem,        \* the contents of the frames used as tables
    free,       \* frames the physical memory manager holds
    kernel,     \* kernel_context.physical_base, also the value in CR3
    stage,      \* progress of arch_mm_init
    call,       \* the call of virtual_map or virtual_unmap in progress
    expected,   \* history: what was mapped where, and not unmapped
    oom,        \* history: physical_alloc has failed
    strayed     \* history: the last early return left another PML4 in R

vars == <<mem, free, kernel, stage, call, expected, oom, strayed>>

EmptyTable == [i \in Index |-> Absent]
Virtual    == ClientPages \cup (VgaPage .. KernelStart + KernelPages - 1)
Idle       == [pc |-> "idle"]

\* The tables of bootstrap32.asm: the first pages of memory, at 0 and VMA_BASE.
\* No caller maps a page for a process: its PML4 has its recursive entry only.
Init ==
    /\ mem = [f \in Tables |->
                CASE f = BootPml4 -> [EmptyTable EXCEPT ![0] = BootPdpt, ![N - 1] = BootPdpt]
                  [] f = BootPdpt -> [EmptyTable EXCEPT ![0] = BootPd, ![N - 2] = BootPd]
                  [] f = BootPd   -> [EmptyTable EXCEPT ![0] = BootPt]
                  [] f = BootPt   -> [i \in Index |-> i]
                  [] f = ProcessPml4 -> [EmptyTable EXCEPT ![Recursive] = ProcessPml4]
                  [] OTHER        -> EmptyTable]
    /\ free = Pool
    /\ kernel = BootPml4
    /\ stage = "boot"
    /\ call = Idle
    /\ expected = [v \in Virtual |-> IF v \in VmaBase .. VmaBase + N - 1 THEN v - VmaBase ELSE Absent]
    /\ oom = FALSE
    /\ strayed = FALSE

-----------------------------------------------------------------------------
(* Walking the tables.                                                     *)

\* PML4_INDEX, PDPT_INDEX, PD_INDEX and PT_INDEX of a page number.
Path(v) == <<(v \div (N * N * N)) % N, (v \div (N * N)) % N, (v \div N) % N, v % N>>

\* entry_to_address for the table that holds the level-k entry of v.
TableAddress(v, k) == [j \in 1 .. 4 |-> IF j + k <= 5 THEN Recursive ELSE Path(v)[j + k - 5]]

Entry(m, f, i) == IF f \in Tables THEN m[f][i] ELSE Absent

\* What the MMU finds at the end of a path.
Walk(m, base, p) == Entry(m, Entry(m, Entry(m, Entry(m, base, p[1]), p[2]), p[3]), p[4])

\* The table with the level-k entry of v, seen through the recursive entry.
Table(m, v, k) == Walk(m, kernel, TableAddress(v, k))

SetEntry(m, f, i, e) == [m EXCEPT ![f][i] = e]

\* stack_map: arch_virtual_map(&kernel_context, &phys_page_virt, f) called
\* inside another edit.  The tables above the window are always present.
MapWindow(m, f) ==
    LET m1 == SetEntry(m, kernel, Recursive, kernel)
        m2 == SetEntry(m1, Table(m1, Window, 4), Path(Window)[4], f)
    IN  SetEntry(m2, kernel, Recursive, m[kernel][Recursive])

-----------------------------------------------------------------------------
(* virtual_map.                                                            *)

Begin(op, ctx, v, phys, n) ==
    [pc |-> op, ctx |-> ctx, v |-> v, phys |-> phys, left |-> n, level |-> 1, saved |-> Absent]

\* The fractal mapping is backed up and turned to the context.
SwitchFractal(op, next) ==
    /\ call.pc = op
    /\ mem' = SetEntry(mem, kernel, Recursive, call.ctx)
    /\ call' = [call EXCEPT !.pc = next, !.level = 1, !.saved = mem[kernel][Recursive]]
    /\ UNCHANGED <<free, kernel, stage, expected, oom, strayed>>

\* __virtual_set_address, when the entry points at a table already.
TablePresent ==
    /\ call.pc = "tables"
    /\ call.level < 4
    /\ Entry(mem, Table(mem, call.v, call.level), Path(call.v)[call.level]) # Absent
    /\ call' = [call EXCEPT !.level = @ + 1]
    /\ UNCHANGED <<mem, free, kernel, stage, expected, oom, strayed>>

\* When it does not: a frame, mapped at the window on its way out of the
\* free list, goes into the entry and is cleared through the next address.
Linked(m, t, v, k, f) ==
    LET m1 == SetEntry(MapWindow(m, f), t, Path(v)[k], f)
    IN  [m1 EXCEPT ![Table(m1, v, k + 1)] = EmptyTable]

TableAllocated ==
    LET t == Table(mem, call.v, call.level)
        f == CHOOSE x \in free : \A y \in free : x <= y
    IN  /\ call.pc = "tables"
        /\ call.level < 4
        /\ t # Absent /\ Entry(mem, t, Path(call.v)[call.level]) = Absent
        /\ free # {}
        /\ free' = free \ {f}
        /\ mem' = Linked(mem, t, call.v, call.level, f)
        /\ call' = [call EXCEPT !.level = @ + 1]
        /\ UNCHANGED <<kernel, stage, expected, oom, strayed>>

\* physical_alloc returns NULL, and frame 0 becomes the table.
TableFailed ==
    LET t == Table(mem, call.v, call.level)
        m == SetEntry(mem, t, Path(call.v)[call.level], 0)
    IN  /\ call.pc = "tables"
        /\ call.level < 4
        /\ t # Absent /\ Entry(mem, t, Path(call.v)[call.level]) = Absent
        /\ free = {}
        /\ mem' = [m EXCEPT ![0] = EmptyTable]
        /\ call' = [call EXCEPT !.level = @ + 1]
        /\ oom' = TRUE
        /\ UNCHANGED <<free, kernel, stage, expected, strayed>>

\* The next page of the range; virtual_map advances, virtual_unmap does not.
NextPage(again, step) ==
    IF call.left = 1 THEN Idle
    ELSE [call EXCEPT !.pc = again, !.v = @ + step, !.phys = @ + step, !.left = @ - 1]

\* Mutant: the leaf goes into the table of the level above.
MapLeaf_WrongLevel ==
    /\ call.pc = "tables" /\ call.level = 4
    /\ Table(mem, call.v, 4) # Absent
    /\ mem' = SetEntry(SetEntry(mem, Table(mem, call.v, 3), Path(call.v)[4], call.phys),
                       kernel, Recursive, call.saved)
    /\ expected' = [expected EXCEPT ![call.v] = call.phys]
    /\ call' = NextPage("map", 1)
    /\ UNCHANGED <<free, kernel, stage, oom, strayed>>

\* Mutant: the fractal mapping is left at the context.
MapLeaf_NoRestore ==
    /\ call.pc = "tables" /\ call.level = 4
    /\ Table(mem, call.v, 4) # Absent
    /\ mem' = SetEntry(mem, Table(mem, call.v, 4), Path(call.v)[4], call.phys)
    /\ expected' = [expected EXCEPT ![call.v] = call.phys]
    /\ call' = NextPage("map", 1)
    /\ UNCHANGED <<free, kernel, stage, oom, strayed>>

\* The page itself; then the fractal mapping is put back.
MapLeaf ==
    /\ call.pc = "tables" /\ call.level = 4
    /\ Table(mem, call.v, 4) # Absent
    /\ mem' = SetEntry(SetEntry(mem, Table(mem, call.v, 4), Path(call.v)[4], call.phys),
                       kernel, Recursive, call.saved)
    /\ expected' = [expected EXCEPT ![call.v] = call.phys]
    /\ call' = NextPage("map", 1)
    /\ UNCHANGED <<free, kernel, stage, oom, strayed>>

-----------------------------------------------------------------------------
(* virtual_unmap.                                                          *)

\* An entry on the way is not present: return, and leave the fractal as is,
\* at the context that was to be edited.
UnmapMissing ==
    /\ call.pc = "unmapping"
    /\ Entry(mem, Table(mem, call.v, 4), Path(call.v)[4]) = Absent
    /\ call' = NextPage("unmap", 0)
    /\ strayed' = (call.ctx # kernel)
    /\ UNCHANGED <<mem, free, kernel, stage, expected, oom>>

UnmapLeaf ==
    /\ call.pc = "unmapping"
    /\ Entry(mem, Table(mem, call.v, 4), Path(call.v)[4]) # Absent
    /\ mem' = SetEntry(mem, Table(mem, call.v, 4), Path(call.v)[4], Absent)
    /\ expected' = [expected EXCEPT ![call.v] = Absent]
    /\ call' = [call EXCEPT !.pc = "release", !.level = 3]
    /\ UNCHANGED <<free, kernel, stage, oom, strayed>>

\* __virtual_table_is_empty
IsEmpty(m, f) == f \in Tables /\ m[f] = EmptyTable

\* Mutant: a table is given back whether or not it is empty.
Releases_Always(child) == child \in Tables

Releases(child) == IsEmpty(mem, child)

\* A table left empty is given back, which maps it at the window, and the
\* entry that points at it is cleared; pt first, then pd, then pdpt.
ReleaseTable ==
    LET k == call.level
        t == Table(mem, call.v, k)
        f == Entry(mem, t, Path(call.v)[k])
    IN  /\ call.pc = "release" /\ k > 0
        /\ IF Releases(Table(mem, call.v, k + 1))
           THEN /\ free' = free \cup {f}
                /\ mem' = SetEntry(MapWindow(mem, f), t, Path(call.v)[k], Absent)
           ELSE UNCHANGED <<free, mem>>
        /\ call' = [call EXCEPT !.level = k - 1]
        /\ UNCHANGED <<kernel, stage, expected, oom, strayed>>

UnmapReturn ==
    /\ call.pc = "release" /\ call.level = 0
    /\ mem' = SetEntry(mem, kernel, Recursive, call.saved)
    /\ call' = NextPage("unmap", 0)
    /\ UNCHANGED <<free, kernel, stage, expected, oom, strayed>>

-----------------------------------------------------------------------------
(* arch_mm_init, and then the clients.                                     *)

\* x86_64_patch_pml4, then the start of x86_64_finalize_paging.
PatchPml4 ==
    /\ stage = "boot"
    /\ mem' = [mem EXCEPT ![BootPml4] = [@ EXCEPT ![Recursive] = BootPml4, ![0] = Absent],
                          ![FinalPml4] = [EmptyTable EXCEPT ![Recursive] = FinalPml4]]
    /\ call' = Begin("map", FinalPml4, KernelStart, 1, KernelPages)
    /\ stage' = "image"
    /\ UNCHANGED <<free, kernel, expected, oom, strayed>>

MapVga ==
    /\ stage = "image" /\ call = Idle
    /\ call' = Begin("map", FinalPml4, VgaPage, 0, 1)
    /\ stage' = "vga"
    /\ UNCHANGED <<mem, free, kernel, expected, oom, strayed>>

\* The kernel context moves to the final tables, and CR3 with it.
FinalizePaging ==
    /\ stage = "vga" /\ call = Idle
    /\ kernel' = FinalPml4
    /\ stage' = "up"
    /\ UNCHANGED <<mem, free, call, expected, oom, strayed>>

VirtualMap(v, phys, n) ==
    /\ stage = "up" /\ call = Idle
    /\ call' = Begin("map", kernel, v, phys, n)
    /\ UNCHANGED <<mem, free, kernel, stage, expected, oom, strayed>>

VirtualUnmap(ctx, v, n) ==
    /\ stage = "up" /\ call = Idle
    /\ call' = Begin("unmap", ctx, v, 0, n)
    /\ UNCHANGED <<mem, free, kernel, stage, expected, oom, strayed>>

Next ==
    \/ SwitchFractal("map", "tables") \/ TablePresent \/ TableAllocated \/ TableFailed
    \/ MapLeaf
    \/ SwitchFractal("unmap", "unmapping") \/ UnmapMissing \/ UnmapLeaf
    \/ ReleaseTable \/ UnmapReturn
    \/ PatchPml4 \/ MapVga \/ FinalizePaging
    \/ \E v \in MapStarts, n \in 1 .. MaxPages :
          \/ \E ctx \in {kernel, ProcessPml4} : VirtualUnmap(ctx, v, n)
          \/ \E phys \in DataFrames : VirtualMap(v, phys, n)

Spec == Init /\ [][Next]_vars
-----------------------------------------------------------------------------
\* The tables reached from the running PML4, and the entries between them.
Below(S) == {mem[f][i] : f \in S, i \in Index} \ {Absent}

Pml4Entries == {i \in Index \ {Recursive} : mem[kernel][i] # Absent}
Pdpts       == {mem[kernel][i] : i \in Pml4Entries}
Pds         == Below(Pdpts)
Pts         == Below(Pds)
Links(S)    == Cardinality({l \in S \X Index : mem[l[1]][l[2]] # Absent})

Quiet == stage = "up" /\ call = Idle /\ ~oom

\* Between calls the recursive entry points at the running PML4, although
\* arch_mm_init edits another one and physical_alloc re-enters the code.  The
\* early returns of arch_virtual_unmap (unmap.c:83-90) are the exception: when
\* a page is unmapped that another context does not map, that context's PML4
\* stays in the entry, and later calls save it and put it back (strayed).
FractalRestored ==
    stage # "boot" /\ call = Idle /\ ~strayed => mem[kernel][Recursive] = kernel

\* Between calls an address leads exactly where the last virtual_map of it
\* said, until virtual_unmap was called with it as first page (later pages
\* of the range stay: mm/virtual.c:64); the kernel's own pages do so at
\* every step, in the middle of every edit and across the change of CR3.
Translates ==
    \A v \in Virtual \ {Window} :
        Quiet \/ v \in VmaBase .. VmaBase + N - 1 =>
            Walk(mem, kernel, Path(v)) = expected[v]

\* Between calls the tables form a tree: no table hangs from two entries,
\* none is free, none is empty, and every frame taken from the pool is in it.
TablesFormATree ==
    Quiet =>
        LET T == Pdpts \cup Pds \cup Pts IN
        /\ T = Pool \ free
        /\ Cardinality(T) = Cardinality(Pml4Entries) + Links(Pdpts) + Links(Pds)
        /\ \A f \in T : mem[f] # EmptyTable

\* Every table an edit is about to touch is there: the ones it reaches
\* through the recursive entry, and the one above the window, which a nested
\* call from physical_alloc or physical_free writes without looking.
NoFault ==
    ~oom /\ call.pc \in {"tables", "release"} =>
        /\ call.pc = "tables" => Table(mem, call.v, call.level) \in Tables
        /\ call.pc = "release" => Table(mem, call.v, call.level + 1) \in Tables
        /\ Table(SetEntry(mem, kernel, Recursive, kernel), Window, 4) \in Tables
=============================================================================
