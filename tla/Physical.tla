------------------------------ MODULE Physical ------------------------------
(***************************************************************************)
(* The physical memory manager: mm/physical.c over two buddy allocators    *)
(* (lib/buddy.c), whose free lists are the stacks of lib/stack.c, threaded *)
(* through the first word of the free pages themselves.                    *)
(*                                                                         *)
(* Addresses and sizes are in abstract units; a page is 2^MinOrder of them.*)
(***************************************************************************)
EXTENDS Integers, Sequences, FiniteSets, SequencesExt

CONSTANTS
    Top,        \* end of physical memory
    Boundary,   \* the DMA boundary, where the normal zone begins
    MinOrder,   \* min_order of both allocators
    MaxOrder,   \* max_order of each allocator
    Regions,    \* the regions setup_arch hands to physical_free_region
    Sizes,      \* the sizes clients ask for
    Junk,       \* what an owner leaves in the first word of its pages
    None,
    Coalescing  \* may clients free a block whose buddy was freed already?

Zones     == {"dma", "normal"}
Orders(z) == MinOrder .. MaxOrder[z]
Addr      == 0 .. Top - 1
Base(z)   == IF z = "dma" THEN 0 ELSE Boundary
Limit(z)  == IF z = "dma" THEN Boundary ELSE Top

ASSUME PhysicalAssumption ==
    /\ Top \in Nat /\ Boundary \in 0 .. Top
    /\ MinOrder \in Nat \ {0}                     \* buddy_init refuses a zero order
    /\ MaxOrder \in [Zones -> Nat] /\ \A z \in Zones : MaxOrder[z] >= MinOrder
    /\ Regions \subseteq [start : Nat, size : Nat]
    /\ \A r \in Regions : r.start + r.size <= Top
    /\ Sizes \subseteq Nat
    /\ Junk \notin Addr
    /\ Coalescing \in BOOLEAN

VARIABLES
    free,      \* free[z][o]: the top and the size of a stack
    clear,     \* clear[z][o]: the indices whose bit is 0 ("OK to coalesce")
    link,      \* the first word of every page
    wild,      \* history: memory that is not the allocator's has been used as its own
    cut,       \* history: a block not aligned to its order has been split
    todo,      \* regions not yet handed over
    given,     \* history: every unit handed over so far
    owned,     \* the blocks clients hold
    lastFreed  \* history: the block freed by the last operation, if it was a free

mem  == <<free, clear, link, wild, cut>>
vars == <<mem, todo, given, owned, lastFreed>>

Units(a, o) == a .. a + 2^o - 1

-----------------------------------------------------------------------------
(* lib/math.h, and the index and address arithmetic of lib/buddy.c.        *)

\* log_2 rounds up.
Log2(x) == CHOOSE k \in 0 .. x : 2^k >= x /\ (k = 0 \/ 2^(k - 1) < x)

\* BUDDY_INDEX: of the absolute address, whatever the allocator's base.
BuddyIndex(a, o) == a \div 2^o

\* BUDDY_ADDRESS: a with bit o flipped.
BuddyAddress(a, o) == IF BuddyIndex(a, o) % 2 = 0 THEN a + 2^o ELSE a - 2^o

-----------------------------------------------------------------------------
(* The allocators, as functions from a state s to a state; the fields of s  *)
(* are the variables of the same names.                                    *)

State == [free |-> free, clear |-> clear, link |-> link, wild |-> wild, cut |-> cut]

\* buddy_init: the bitset of an order has a bit for each of its blocks in a
\* zone of this size, in whole bytes; BUDDY_INDEX counts from address 0.
Beyond(z, a, o) ==
    BuddyIndex(a, o) \div 8 >= ((Limit(z) - Base(z)) \div 2^o + 7) \div 8

\* stack_push: the page's first word takes the old top.
StackPush(s, z, o, a) ==
    [s EXCEPT !.link[a] = s.free[z][o].top,
              !.free[z][o] = [top |-> a, size |-> @.size + 1]]

\* stack_pop: the new top is whatever the page's first word holds.
StackPop(s, z, o) ==
    [s EXCEPT !.free[z][o] = [top |-> s.link[@.top], size |-> @.size - 1]]

\* buddy_free's climb: it stops below the first buddy whose bit is set.
StopOrder(s, z, a, start) ==
    CHOOSE o \in start .. MaxOrder[z] :
        /\ o = MaxOrder[z] \/ BuddyIndex(BuddyAddress(a, o), o) \notin s.clear[z][o]
        /\ \A k \in start .. o - 1 : BuddyIndex(BuddyAddress(a, k), k) \in s.clear[z][k]

\* buddy_free(addr, 2^start): bits are cleared all the way up, and addr,
\* as it is, goes on the list where the climb stops.
BuddyFree(s, z, a, start) ==
    LET stop == StopOrder(s, z, a, start)
        bits == [o \in Orders(z) |->
                   IF o \in start .. stop THEN s.clear[z][o] \cup {BuddyIndex(a, o)}
                   ELSE s.clear[z][o]]
        past == \E o \in start .. stop : Beyond(z, a, o) \/ Beyond(z, BuddyAddress(a, o), o)
    IN  StackPush([s EXCEPT !.clear[z] = bits, !.wild = @ \/ past], z, stop, a)

\* buddy_free_region: chunks of the largest order that fits, from the start
\* of the region, which is not aligned first.
Chunks(z, start, size) ==
    LET max == MaxOrder[z]
        big == [i \in 1 .. size \div 2^max |-> <<start + (i - 1) * 2^max, max>>]
        low == {o \in MinOrder .. max - 1 : (size \div 2^o) % 2 = 1}
        small == [i \in 1 .. Cardinality(low) |->
                    LET o == CHOOSE o \in low : Cardinality({p \in low : p >= o}) = i
                    IN  <<start + (size \div 2^(o + 1)) * 2^(o + 1), o>>]
    IN  big \o small

BuddyFreeRegion(s, z, start, size) ==
    FoldLeft(LAMBDA t, c : BuddyFree(t, z, c[1], c[2]), s, Chunks(z, start, size))

\* buddy_alloc rounds a request up to a whole page.
RequestOrder(size) == IF Log2(size) < MinOrder THEN MinOrder ELSE Log2(size)

\* Mutant: the largest block is split, whatever smaller one is free.
SourceOrder_Largest(s, z, order) ==
    LET full == {o \in order .. MaxOrder[z] : s.free[z][o].size > 0}
    IN  IF full = {} THEN None ELSE CHOOSE o \in full : \A p \in full : p <= o

\* The order it serves the request from, or None: the smallest one, from
\* the request's own up, whose list is not empty.
SourceOrder(s, z, order) ==
    LET full == {o \in order .. MaxOrder[z] : s.free[z][o].size > 0}
    IN  IF full = {} THEN None ELSE CHOOSE o \in full : \A p \in full : o <= p

\* One turn of the splitting loop, from order o to o - 1: both bits of the
\* lower half are set, the upper half is pushed and its bit left alone.
SetBits(s, z, a, o) ==
    [s EXCEPT !.clear[z][o] = @ \ {BuddyIndex(a, o)},
              !.clear[z][o - 1] = @ \ {BuddyIndex(a, o - 1)},
              !.wild = @ \/ Beyond(z, a, o) \/ Beyond(z, a, o - 1),
              !.cut = @ \/ a % 2^o # 0]

\* Mutants: the lower half is pushed instead of the upper one, and the
\* buddy is computed at the order above.
Split_PushesLower(s, z, a, o) == StackPush(SetBits(s, z, a, o), z, o - 1, a)
Split_WrongOrder(s, z, a, o)  == StackPush(SetBits(s, z, a, o), z, o - 1, BuddyAddress(a, o))

Split(s, z, a, o) == StackPush(SetBits(s, z, a, o), z, o - 1, BuddyAddress(a, o - 1))

\* Mutant: the bit of a block taken whole stays clear.
BuddyAlloc_KeepBit(s, z, order, src) ==
    FoldLeft(LAMBDA t, o : Split(t, z, s.free[z][src].top, o), StackPop(s, z, src),
             [i \in 1 .. src - order |-> src - i + 1])

\* buddy_alloc from a list at order src for a request of the given order.
BuddyAlloc(s, z, order, src) ==
    LET a == s.free[z][src].top
        popped == StackPop(s, z, src)
    IN  IF src = order
        THEN [popped EXCEPT !.clear[z][order] = @ \ {BuddyIndex(a, order)},
                            !.wild = @ \/ Beyond(z, a, order)]
        ELSE FoldLeft(LAMBDA t, o : Split(t, z, a, o), popped,
                      [i \in 1 .. src - order |-> src - i + 1])

-----------------------------------------------------------------------------
(* mm/physical.c.                                                          *)

Become(s) ==
    /\ free' = s.free /\ clear' = s.clear /\ link' = s.link
    /\ wild' = s.wild /\ cut' = s.cut

\* physical_init: empty stacks, all bits set.
Init ==
    /\ free = [z \in Zones |-> [o \in Orders(z) |-> [top |-> 0, size |-> 0]]]
    /\ clear = [z \in Zones |-> [o \in Orders(z) |-> {}]]
    /\ link = [a \in Addr |-> Junk]
    /\ wild = FALSE /\ cut = FALSE
    /\ todo = Regions
    /\ given = {}
    /\ owned = {}
    /\ lastFreed = None

\* What follows is undefined, or an allocator that hands out memory it was
\* never given, and is not followed.
Ended == wild \/ cut

\* physical_free_region splits a region that reaches the DMA boundary.
FreeRegion(s, r) ==
    LET dmaSize == Boundary - r.start IN
    CASE r.start < Boundary /\ r.start + r.size >= Boundary ->
           BuddyFreeRegion(BuddyFreeRegion(s, "dma", r.start, dmaSize),
                           "normal", Boundary, r.size - dmaSize)
      [] r.start < Boundary /\ r.start + r.size < Boundary ->
           BuddyFreeRegion(s, "dma", r.start, r.size)
      [] OTHER -> BuddyFreeRegion(s, "normal", r.start, r.size)

PhysicalFreeRegion(r) ==
    /\ r \in todo /\ ~Ended
    /\ Become(FreeRegion(State, r))
    /\ todo' = todo \ {r}
    /\ given' = given \cup r.start .. r.start + r.size - 1
    /\ lastFreed' = None
    /\ UNCHANGED owned

\* What a client that got the block leaves in its pages.
Scribbled(s, a, o) ==
    [s EXCEPT !.link = [p \in Addr |-> IF p \in Units(a, o) THEN Junk ELSE @[p]]]

\* physical_alloc(size, PHYS_DMA or 0) that finds a block.  The address 0 is
\* also what failure returns: the caller takes it for a failure.
PhysicalAlloc(z, size) ==
    LET order == RequestOrder(size)
        src   == SourceOrder(State, z, order)
    IN  /\ todo = {} /\ ~Ended
        /\ order <= MaxOrder[z]
        /\ src # None
        /\ free[z][src].top \in Addr          \* a list led into client data ends here
        /\ LET a == free[z][src].top
           IN  /\ Become(IF a = 0 THEN BuddyAlloc(State, z, order, src)
                         ELSE Scribbled(BuddyAlloc(State, z, order, src), a, order))
               /\ owned' = IF a = 0 THEN owned
                           ELSE owned \cup {[addr |-> a, order |-> order, zone |-> z]}
        /\ lastFreed' = None
        /\ UNCHANGED <<todo, given>>

\* physical_alloc that finds no list to serve it from.  The search ends at the
\* order above max_order, which buddy_init has not set up: if the size found
\* there is zero NULL is returned and nothing changes, if not its top is used.
PhysicalAllocStray(z, size) ==
    /\ todo = {} /\ ~Ended
    /\ RequestOrder(size) <= MaxOrder[z]
    /\ SourceOrder(State, z, RequestOrder(size)) = None
    /\ wild' = TRUE
    /\ lastFreed' = None
    /\ UNCHANGED <<free, clear, link, cut, todo, given, owned>>

\* physical_free(addr, size): the zone is recomputed from the address, and the
\* order from the size the client asked for, this time without rounding it up
\* to a page: below a page it is one that buddy_init has not set up.
PhysicalFree(b, size) ==
    LET z == IF b.addr < Boundary THEN "dma" ELSE "normal"
    IN  /\ b \in owned /\ ~Ended
        /\ RequestOrder(size) = b.order
        /\ b.order <= MaxOrder[z]
        /\ Coalescing \/ StopOrder(State, z, b.addr, b.order) = b.order
        /\ IF Log2(size) < MinOrder
           THEN wild' = TRUE /\ UNCHANGED <<free, clear, link, cut>>
           ELSE Become(BuddyFree(State, z, b.addr, Log2(size)))
        /\ owned' = owned \ {b}
        /\ lastFreed' = b
        /\ UNCHANGED <<todo, given>>

End == Ended /\ UNCHANGED vars

Next ==
    \/ \E r \in Regions : PhysicalFreeRegion(r)
    \/ \E z \in Zones, size \in Sizes : PhysicalAlloc(z, size)
    \/ \E z \in Zones, size \in Sizes : PhysicalAllocStray(z, size)
    \/ \E b \in owned, size \in Sizes : PhysicalFree(b, size)
    \/ End

Spec == Init /\ [][Next]_vars
-----------------------------------------------------------------------------
(* Properties.                                                             *)

\* The blocks on a free list: as many as its size says, each found in the
\* first word of the one before.
Listed(z, o) ==
    LET w[i \in 1 .. free[z][o].size] == IF i = 1 THEN free[z][o].top ELSE link[w[i - 1]]
    IN  {[addr |-> w[i], order |-> o, zone |-> z] : i \in 1 .. free[z][o].size}

FreeBlocks == UNION {UNION {Listed(z, o) : o \in Orders(z)} : z \in Zones}

Covered(blocks) == UNION {Units(b.addr, b.order) : b \in blocks}

\* No two clients are ever given the same memory: what physical_alloc
\* returns overlaps nothing a client still holds.
NeverHandedOutTwice ==
    [][\A z \in Zones, size \in Sizes : PhysicalAlloc(z, size) =>
         LET order == RequestOrder(size)
             a     == free[z][SourceOrder(State, z, order)].top
         IN  Units(a, order) \cap Covered(owned) = {}]_vars

\* The physical memory manager implements the abstract allocator, with a
\* block seen as the set of its units.
Abstract == INSTANCE Allocator WITH
                Unit <- Addr,
                pool <- given,
                held <- {Units(b.addr, b.order) : b \in owned}

\* What the properties below need: the allocator has stayed inside its
\* bitsets and orders (lib/buddy.c:40, 73, 102), and no block has been split
\* that is not aligned to its order, since BUDDY_ADDRESS of such a block is
\* not its upper half (lib/buddy.c:88).  Regions are only page aligned, and
\* the normal zone begins at 2^24 with blocks of up to 2^28, so the first
\* such split comes when the aligned blocks are used up.
Upright == ~wild /\ ~cut

\* Until a crooked block is split, physical_alloc, physical_free and
\* physical_free_region do what a client may expect of an allocator, through
\* all their splitting and stacking.
ImplementsAllocator ==
    /\ Upright => Abstract!AInit
    /\ [][Upright' => Abstract!ANext]_<<given, owned>>

\* Until a crooked block is split, the free lists survive living inside the
\* memory they describe: their blocks and the owned ones partition the memory
\* handed over, so no list runs through a page some client is writing to,
\* nothing is lost, and every block lies in its zone.
FreeListsPartition ==
    Upright =>
    /\ \A b \in FreeBlocks \cup owned :
         Units(b.addr, b.order) \subseteq Base(b.zone) .. Limit(b.zone) - 1
    /\ Covered(FreeBlocks) \cup Covered(owned) = given
    /\ Cardinality(given) =
         FoldSet(LAMBDA b, n : n + 2^b.order, 0, FreeBlocks \cup owned)

\* include/lib/buddy.h:41: a clear bit means the block may be coalesced,
\* that is, a block with that index is, as a whole, on the free list of its
\* order; until a crooked block is split.
BitsTellTheTruth ==
    Upright =>
    \A z \in Zones : \A o \in Orders(z) : \A i \in clear[z][o] :
        \E b \in Listed(z, o) : BuddyIndex(b.addr, o) = i

\* tests/mm/physical.c:44: the block freed last is the next one returned
\* for the same size; until a crooked block is split, after which a page of
\* the normal zone may be given back to the other.
SameAsBefore ==
    [][\A z \in Zones, size \in Sizes :
         Upright /\ PhysicalAlloc(z, size) /\ lastFreed # None
           /\ lastFreed.zone = z /\ lastFreed.order = RequestOrder(size)
         => lastFreed \in owned' \ owned]_vars
=============================================================================
