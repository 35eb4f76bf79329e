-------------------------------- MODULE Heap --------------------------------
(***************************************************************************)
(* The kernel heap once kmalloc_init has run: the liballoc allocator of    *)
(* mm/heap.c.  A major block is a run of pages from map_heap with a header *)
(* at its base; a minor block is one allocation inside it, header first.   *)
(* Both lists are kept by the code as doubly linked lists threaded through *)
(* the headers; here they are sequences in list order.                     *)
(*                                                                         *)
(* liballoc_lock and liballoc_unlock are empty, so malloc and free are     *)
(* only atomic because every client in the tree runs in the boot thread;   *)
(* realloc is nevertheless two steps, its malloc and its free.  Clients    *)
(* free what they hold, once: the magic number test is then always passed. *)
(***************************************************************************)
EXTENDS Integers, FiniteSets, Sequences, SequencesExt

CONSTANTS
    HeapStart,      \* HEAP_START
    Major, Minor,   \* sizes of the two headers
    Alignment,      \* ALIGNMENT
    AlignInfo,      \* ALIGN_INFO
    PageSize,       \* l_pageSize
    PageCount,      \* l_pageCount, the least number of pages of a major
    Sizes,          \* the sizes clients ask for
    HeapLimit,      \* bound on heap_end
    MaxLive         \* bound on the number of pointers held at once

ASSUME HeapAssumption ==
    /\ {HeapStart, Major, Minor, Alignment, AlignInfo, PageSize, PageCount,
        HeapLimit, MaxLive} \subseteq Nat \ {0}
    /\ Sizes \subseteq Nat
    /\ HeapStart % PageSize = 0

VARIABLES
    majors,         \* the list from l_memRoot
    bestBet,        \* l_bestBet: the base of a major, or 0
    heapEnd,        \* heap_end
    allocated,      \* l_allocated
    inuse,          \* l_inuse
    live,           \* the pointers clients hold: [p, req, info]
    moving          \* pointers realloc has copied away and not yet freed

vars == <<majors, bestBet, heapEnd, allocated, inuse, live, moving>>

Init ==
    /\ majors = <<>>
    /\ bestBet = 0
    /\ heapEnd = HeapStart
    /\ allocated = 0 /\ inuse = 0
    /\ live = {} /\ moving = {}

-----------------------------------------------------------------------------
(* Blocks and the gaps between them.                                       *)

\* ALIGN: what is added to a pointer, and stored AlignInfo bytes below it.
AlignDiff(p) ==
    AlignInfo + ((Alignment - ((p + AlignInfo) % Alignment)) % Alignment)

\* UNALIGN, and then back over the header of the minor block.
Header(b) ==
    (IF b.info < Alignment + AlignInfo THEN b.p - b.info ELSE b.p) - Minor

FreeBytes(m) == m.size - m.usage

\* The bytes between the k-th minor of a major (or its header) and the next.
GapStart(m, k) ==
    IF k = 0 THEN m.base + Major ELSE m.minors[k].at + Minor + m.minors[k].size

GapEnd(m, k) ==
    IF k = Len(m.minors) THEN m.base + m.size ELSE m.minors[k + 1].at

\* Mutant: room for the bytes is taken as room for the header too.
Gaps_NoHeader(m, size) ==
    {k \in 0 .. Len(m.minors) : GapEnd(m, k) - GapStart(m, k) >= size}

\* CASES 2, 3, 4.1 and 4.2 of malloc: where a block of this size would go.
Gaps(m, size) ==
    {k \in 0 .. Len(m.minors) : GapEnd(m, k) - GapStart(m, k) >= size + Minor}

\* CASE 1 looks at the total of the free bytes first.
Fits(m, size) == FreeBytes(m) >= size + Minor /\ Gaps(m, size) # {}

\* allocate_new_page: the major that map_heap(st) puts at heap_end.
Pages(size) ==
    LET st   == size + Major + Minor
        need == (st \div PageSize) + (IF st % PageSize = 0 THEN 0 ELSE 1)
    IN  IF need < PageCount THEN PageCount ELSE need

NewMajor(size) ==
    [base |-> heapEnd, size |-> Pages(size) * PageSize, usage |-> Major, minors |-> <<>>]

FirstGap(m, size) == CHOOSE i \in Gaps(m, size) : \A j \in Gaps(m, size) : i <= j

\* The major m with a block of this size in its first gap.
WithMinor(m, size, req) ==
    LET k == FirstGap(m, size)
    IN  [m EXCEPT !.usage = @ + size + Minor,
                  !.minors = InsertAt(@, k + 1,
                                [at |-> GapStart(m, k), size |-> size, req |-> req])]

-----------------------------------------------------------------------------
(* malloc.                                                                 *)

Index(base) == CHOOSE i \in DOMAIN majors : majors[i].base = base

BestFree == IF bestBet = 0 THEN 0 ELSE FreeBytes(majors[Index(bestBet)])

\* Mutant: a search that starts at the best bet never comes back.
VisitOrder_NoWrap(size) ==
    [i \in 1 .. Len(majors) - (IF bestBet # 0 /\ BestFree > size + Minor
                               THEN Index(bestBet) - 1 ELSE 0)
        |-> i + (IF bestBet # 0 /\ BestFree > size + Minor
                 THEN Index(bestBet) - 1 ELSE 0)]

\* The order in which the loop visits the majors: from the best bet to the
\* end and then all over from the root, or just from the root.
VisitOrder(size) ==
    LET n    == Len(majors)
        skip == Index(bestBet) - 1
        all  == [i \in 1 .. n |-> i]
    IN  IF bestBet # 0 /\ BestFree > size + Minor
        THEN [i \in 1 .. n - skip |-> i + skip] \o all
        ELSE all

\* The best bet after the loop has looked at these majors in turn.
Remember(ms) ==
    LET Better(i) == /\ FreeBytes(ms[i]) > BestFree
                     /\ \A j \in DOMAIN ms :
                          /\ FreeBytes(ms[j]) <= FreeBytes(ms[i])
                          /\ j < i => FreeBytes(ms[j]) < FreeBytes(ms[i])
    IN  IF \E i \in DOMAIN ms : Better(i)
        THEN ms[CHOOSE i \in DOMAIN ms : Better(i)].base
        ELSE bestBet

\* The caller's view of a block placed at `at'.
Pointer(at, req) ==
    [p |-> at + Minor + AlignDiff(at + Minor), req |-> req,
     info |-> AlignDiff(at + Minor)]

\* The block goes into the first visited major with a gap for it.
MallocExisting(req, size) ==
    LET order == VisitOrder(size)
        Fit   == {v \in DOMAIN order : Fits(majors[order[v]], size)}
        v     == CHOOSE x \in Fit : \A y \in Fit : x <= y
        m     == majors[order[v]]
    IN  /\ Fit # {}
        /\ majors' = [majors EXCEPT ![order[v]] = WithMinor(m, size, req)]
        /\ bestBet' = Remember([x \in 1 .. v |-> majors[order[x]]])
        /\ live' = live \cup {Pointer(GapStart(m, FirstGap(m, size)), req)}
        /\ UNCHANGED <<heapEnd, allocated>>

\* No visited major has one: a new major at the end of the list.  The loop
\* compares it with the best bet unless it got here through CASE 1.
MallocNew(req, size) ==
    LET order == VisitOrder(size)
        new   == NewMajor(size)
        seen  == [x \in DOMAIN order |-> majors[order[x]]]
        case1 == majors # <<>> /\ FreeBytes(Last(majors)) < size + Minor
    IN  /\ \A v \in DOMAIN order : ~Fits(majors[order[v]], size)
        /\ heapEnd + new.size <= HeapLimit
        /\ majors' = Append(majors, WithMinor(new, size, req))
        /\ bestBet' = Remember(IF case1 THEN seen ELSE Append(seen, new))
        /\ live' = live \cup {Pointer(GapStart(new, FirstGap(new, size)), req)}
        /\ heapEnd' = heapEnd + new.size
        /\ allocated' = allocated + new.size

Malloc(req) ==
    LET size == req + Alignment + AlignInfo
    IN  /\ Cardinality(live) < MaxLive
        /\ MallocExisting(req, size) \/ MallocNew(req, size)
        /\ inuse' = inuse + size

Kmalloc(req) == Malloc(req) /\ UNCHANGED moving

-----------------------------------------------------------------------------
(* free.                                                                   *)

\* Mutant: the best bet survives its major.
FreeMajor_KeepBet(i, m) ==
    /\ majors' = RemoveAt(majors, i)
    /\ bestBet' = bestBet
    /\ allocated' = allocated - m.size

\* The last minor of a major: the major is unlinked and unmapped.
FreeMajor(i, m) ==
    /\ majors' = RemoveAt(majors, i)
    /\ bestBet' = IF bestBet = m.base THEN 0 ELSE bestBet
    /\ allocated' = allocated - m.size

\* The major m without its k-th minor.
WithoutMinor(m, k) ==
    [m EXCEPT !.usage = @ - (m.minors[k].size + Minor), !.minors = RemoveAt(@, k)]

\* Otherwise the minor is unlinked, and the major may be the new best bet.
\* l_bestBet may be this very major: its free bytes are then read after.
FreeMinor(i, k, m) ==
    LET left == WithoutMinor(m, k)
        best == IF bestBet = m.base THEN FreeBytes(left) ELSE BestFree
    IN  /\ majors' = [majors EXCEPT ![i] = left]
        /\ bestBet' = IF bestBet # 0 /\ FreeBytes(left) > best THEN m.base ELSE bestBet
        /\ UNCHANGED allocated

\* min->block: the major whose minor starts at the header.
Free(b) ==
    \E i \in DOMAIN majors : \E k \in DOMAIN majors[i].minors :
        /\ majors[i].minors[k].at = Header(b)
        /\ inuse' = inuse - majors[i].minors[k].size
        /\ IF Len(majors[i].minors) = 1
           THEN FreeMajor(i, majors[i])
           ELSE FreeMinor(i, k, majors[i])
        /\ heapEnd' = heapEnd

Kfree(b) ==
    /\ b \in live
    /\ Free(b)
    /\ live' = live \ {b}
    /\ UNCHANGED moving

-----------------------------------------------------------------------------
(* realloc of a pointer that is not NULL to a size that is not zero; the   *)
(* other two cases are free and malloc.                                    *)

\* min->req_size of the minor at this address, in its major.
SetReq(n, at, req) == IF n.at = at THEN [n EXCEPT !.req = req] ELSE n

WithReq(m, at, req) ==
    [m EXCEPT !.minors = [k \in DOMAIN @ |-> SetReq(@[k], at, req)]]

\* The block is large enough: only the recorded request changes.
ReallocInPlace(b, req) ==
    /\ b \in live
    /\ req \in 1 .. b.req
    /\ majors' = [i \in DOMAIN majors |-> WithReq(majors[i], Header(b), req)]
    /\ live' = (live \ {b}) \cup {[b EXCEPT !.req = req]}
    /\ UNCHANGED <<bestBet, heapEnd, allocated, inuse, moving>>

\* malloc of the larger block and the copy; the old one is still in use.
ReallocGrow(b, req) ==
    /\ moving = {}
    /\ b \in live
    /\ req > b.req
    /\ Malloc(req)
    /\ moving' = moving \cup {b}

ReallocFree(b) ==
    /\ b \in moving
    /\ Free(b)
    /\ live' = live \ {b}
    /\ moving' = moving \ {b}

Next ==
    \/ \E req \in Sizes : Kmalloc(req)
    \/ \E b \in live \ moving : Kfree(b)
    \/ \E b \in live \ moving, req \in Sizes :
          ReallocInPlace(b, req) \/ ReallocGrow(b, req)
    \/ \E b \in moving : ReallocFree(b)

Spec == Init /\ [][Next]_vars
-----------------------------------------------------------------------------
Bytes(from, size) == from .. from + size - 1

MinorsOf(m) == {m.minors[k] : k \in DOMAIN m.minors}

Minors == UNION {MinorsOf(majors[i]) : i \in DOMAIN majors}

\* The bytes of a major that its header and its minors take up.
Taken(m) ==
    Bytes(m.base, Major) \cup UNION {Bytes(n.at, Minor + n.size) : n \in MinorsOf(m)}

Mapped == UNION {Bytes(majors[i].base, majors[i].size) : i \in DOMAIN majors}

\* The bytes each minor holds for its client.
Payloads == {Bytes(n.at + Minor, n.size) : n \in Minors}

\* Each major is page aligned, starts after the end of an older one and
\* has at least one minor; its minors follow each other in address order
\* without overlap, inside it.
ListsSound ==
    /\ \A i \in DOMAIN majors :
         LET m == majors[i] IN
         /\ m.base >= HeapStart /\ m.base + m.size <= heapEnd
         /\ m.minors # <<>>
         /\ \A k \in 0 .. Len(m.minors) : GapStart(m, k) <= GapEnd(m, k)
    /\ \A i, j \in DOMAIN majors :
         i < j => majors[i].base + majors[i].size <= majors[j].base

\* The counters that malloc trusts instead of walking the lists: the usage
\* of a major, l_allocated and l_inuse each count bytes, and count each once.
CountersExact ==
    /\ \A i \in DOMAIN majors : majors[i].usage = Cardinality(Taken(majors[i]))
    /\ allocated = Cardinality(Mapped)
    /\ inuse = Cardinality(UNION Payloads)

\* Every pointer a client holds is aligned, leads back to the header of a
\* block of its own, and the bytes asked for end inside that block; and
\* every block has such a client.
PointersFit ==
    /\ \A b \in live :
         /\ b.p % Alignment = 0
         /\ \E n \in Minors :
              /\ n.at = Header(b) /\ n.req = b.req
              /\ n.at + Minor <= b.p - AlignInfo
              /\ b.p + b.req <= n.at + Minor + n.size
    /\ {n.at : n \in Minors} = {Header(b) : b \in live}

\* malloc dereferences l_bestBet: it is never a major that was unmapped.
BestBetLive == bestBet = 0 \/ \E i \in DOMAIN majors : majors[i].base = bestBet

\* What malloc and free rely on in every structure they walk, after any
\* sequence of calls (mm/heap.c, the invariants behind CASES 1 to 5).
HeapSound == ListsSound /\ CountersExact /\ PointersFit /\ BestBetLive

\* malloc asks for new pages only if no major has a gap for the block,
\* although it starts its search in the middle of the list.
NoNeedlessMajor ==
    [][ \A req \in Sizes :
          (heapEnd' # heapEnd /\ \E b \in live' \ live : b.req = req)
             => \A i \in DOMAIN majors : ~Fits(majors[i], req + Alignment + AlignInfo)
      ]_vars

\* The heap seen by its clients: pieces of the address space below
\* heap_end, handed out and given back.
Abstract == INSTANCE Allocator WITH
    Unit <- HeapStart .. HeapLimit - 1,
    pool <- HeapStart .. heapEnd - 1,
    held <- Payloads

\* malloc, free and realloc never hand out bytes that are still held.
ImplementsAllocator == Abstract!ASpec
=============================================================================
