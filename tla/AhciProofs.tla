----------------------------- MODULE AhciProofs -----------------------------
(***************************************************************************)
(* Proofs about Ahci, for any buses, ports, number of slots, blocks, sizes *)
(* of reads and sizes of the DMA window: what a read returns, and that the *)
(* command tables the controller may be reading are left alone.            *)
(***************************************************************************)
EXTENDS Ahci, SequenceTheorems, WellFoundedInduction, TLAPS

\* A set of natural numbers has a least one.
LEMMA LeastExists ==
    ASSUME NEW T, T \subseteq Nat, T # {}
    PROVE  \E x \in T : \A y \in T : x <= y
<1>1. \E x \in T : \A y \in T : <<y, x>> \notin OpToRel(<, Nat)
  BY NatLessThanWellFounded, WFMin
<1>2. \A x, y \in Nat : <<y, x>> \notin OpToRel(<, Nat) => x <= y
  BY DEF OpToRel
<1> QED
  BY <1>1, <1>2

-----------------------------------------------------------------------------
(* The inductive invariant.                                                *)

PCs == {"pci", "nodevice", "handoff", "ports", "stopping", "identify", "polling",
        "ready", "await", "busy", "spinning", "astray"}

\* Where the boot thread has a port in hand.
Working == {"stopping", "identify", "polling", "await", "busy"}

Reading == pc \in {"await", "busy"}

DriverInv ==
    /\ pc \in PCs
    /\ todo \subseteq Ports
    /\ node \in Ports \cup {None}
    /\ pc \in Working => cur \in Ports
    /\ gotInterrupt \in BOOLEAN
    /\ disturbed \in BOOLEAN

PortType == [st : BOOLEAN, cr : BOOLEAN, ci : SUBSET Slots, busy : Slots \cup {None},
             ie : BOOLEAN]

\* A drive executes only what has been issued to it and not completed.
PortInv ==
    /\ port \in [Ports -> PortType]
    /\ \A p \in Ports : port[p].busy # None => port[p].busy \in port[p].ci

TableInv ==
    /\ DOMAIN table = Ports
    /\ \A p \in Ports : DOMAIN table[p] = Slots

DmaInv ==
    /\ window \in Nat /\ frames \in Nat
    /\ DOMAIN vmap = 0 .. LowPages + WindowPages - 1
    /\ DOMAIN memory = 0 .. MaxFrames - 1

\* While a read is under way its virtual pages lead to the frames that were
\* put in the command.
BufferInv ==
    Reading =>
        /\ req.lba \in Lbas /\ req.size \in Sizes
        /\ req.dma.virt \in Nat /\ req.dma.phys \in Nat
        /\ req.dma.phys + PagesOf(req.size) <= MaxFrames
        /\ \A k \in 1 .. PagesOf(req.size) :
             vmap[req.dma.virt + k - 1] = req.dma.phys + k - 1

\* The command of the read is the only one issued, and nothing has been
\* signalled since.
Outstanding ==
    /\ pc = "await" /\ ~gotInterrupt /\ his = {}
    /\ \A q \in Ports : q # cur => port[q].ci = {}
    /\ \E s \in Slots :
         /\ port[cur].ci = {s}
         /\ table[cur][s] = Command(cur, FALSE, req.lba, req.size, req.dma.phys)

\* The data is in the frames, and no drive can write to them any more.
Landed ==
    /\ \A q \in Ports : port[q].ci = {}
    /\ Addressable(cur, req.lba, req.size) =>
         \A k \in 1 .. PagesOf(req.size) :
             memory[req.dma.phys + k - 1] = req.lba + (k - 1) * BlocksPerPage

WakeInv == Reading /\ ~disturbed => Outstanding \/ Landed

AhciInv == DriverInv /\ PortInv /\ TableInv /\ DmaInv /\ BufferInv /\ WakeInv

-----------------------------------------------------------------------------
(* Arithmetic: pages, blocks and bytes of block numbers.                   *)

\* The slots are numbered from zero, and there is at least one.
LEMMA SlotFacts ==
    /\ NSlots \in Nat \ {0} /\ WindowPages \in Nat \ {0} /\ MaxFrames \in Nat \ {0}
    /\ Slots \subseteq Nat /\ 0 \in Slots /\ None \notin Slots
<1>1. NSlots \in Nat \ {0} /\ WindowPages \in Nat \ {0} /\ MaxFrames \in Nat \ {0}
  BY AhciAssumption
<1> QED
  BY <1>1 DEF Slots, None

\* The pages and blocks of a size: a page holds eight blocks, and the PRDT
\* has one entry per page.
LEMMA SizeFacts ==
    ASSUME NEW size \in Nat \ {0}
    PROVE  /\ PagesOf(size) \in Nat \ {0} /\ BlocksOf(size) \in Nat \ {0}
           /\ PagesOf(size) = ((size - 1) \div PageBytes) + 1
           /\ BlocksOf(size) <= 8 * PagesOf(size)
           /\ BlocksPerPage = 8
           /\ \A k \in 1 .. PagesOf(size) : (k - 1) * 8 < BlocksOf(size)
<1>1. PagesOf(size) = (size + 4095) \div 4096 /\ BlocksOf(size) = (size + 511) \div 512
  BY SMT DEF PagesOf, BlocksOf, PageBytes, BlockSize
<1>2. (size + 4095) \div 4096 \in Nat \ {0} /\ (size + 511) \div 512 \in Nat \ {0}
  BY SMT
<1>3. (size + 4095) \div 4096 = ((size - 1) \div 4096) + 1
  BY SMT
<1>4. (size + 511) \div 512 <= 8 * ((size + 4095) \div 4096)
  BY SMT
<1>5. \A k \in Nat \ {0} : k <= (size + 4095) \div 4096 => (k - 1) * 8 < (size + 511) \div 512
  BY SMT
<1>6. BlocksPerPage = 8 /\ PageBytes = 4096
  BY SMT DEF BlocksPerPage, PageBytes, BlockSize
<1>7. \A k \in 1 .. PagesOf(size) : k \in Nat \ {0} /\ k <= PagesOf(size)
  BY <1>1, <1>2, SMT
<1> QED
  BY <1>1, <1>2, <1>3, <1>4, <1>5, <1>6, <1>7, SMT

\* LowPages is the largest buffer there is.
LEMMA LowFacts ==
    /\ LowPages \in Nat \ {0}
    /\ \A size \in Sizes : size \in Nat \ {0} /\ PagesOf(size) <= LowPages
                           /\ PagesOf(size) <= MaxPrdt
<1>1. \A size \in Sizes : /\ size \in Nat \ {0} /\ PagesOf(size) \in Nat \ {0}
                          /\ PagesOf(size) <= MaxPrdt
  BY AhciAssumption, SizeFacts
<1> DEFINE P == {PagesOf(size) : size \in Sizes}
           T == {MaxPrdt - n : n \in P}
<1>2. T \subseteq Nat /\ T # {}
  <2>1. \A n \in P : n \in Nat /\ n <= MaxPrdt
    BY <1>1
  <2>2. \A n \in Nat : n <= MaxPrdt => MaxPrdt - n \in Nat
    BY DEF MaxPrdt
  <2>3. P # {}
    BY AhciAssumption
  <2> HIDE DEF P
  <2> QED
    BY <2>1, <2>2, <2>3
<1>3. PICK t \in T : \A u \in T : t <= u
  BY <1>2, LeastExists
<1>4. PICK n \in P : t = MaxPrdt - n
  OBVIOUS
<1>5. \A size \in Sizes : PagesOf(size) <= n
  <2> SUFFICES ASSUME NEW size \in Sizes PROVE PagesOf(size) <= n
    OBVIOUS
  <2>1. MaxPrdt - n <= MaxPrdt - PagesOf(size)
    BY <1>3, <1>4
  <2>2. n \in Nat /\ PagesOf(size) \in Nat /\ MaxPrdt \in Nat
    BY <1>1 DEF MaxPrdt
  <2> QED
    BY <2>1, <2>2
<1>6. LowPages \in P /\ \A size \in Sizes : PagesOf(size) <= LowPages
  BY <1>4, <1>5 DEF LowPages
<1> QED
  BY <1>1, <1>6

\* Shifts and masks by a byte.
LEMMA Shifts ==
    /\ \A n \in Nat : n \div 1 = n
    /\ \A n \in Nat : n \div 256 \in Nat /\ n % 256 \in Nat /\ n = 256 * (n \div 256) + (n % 256)
    /\ \A n \in Nat : (n \div 256) \div 256 = n \div 65536
    /\ \A n \in Nat : (n \div 65536) \div 256 = n \div 16777216
    /\ \A n \in Nat : n <= 1073741824 => n \div 16777216 < 256
    /\ \A n \in Nat : n < 16777216 => n \div 16777216 = 0
    /\ \A n \in Nat : n < 256 => n % 256 = n
<1>1. \A n \in Nat : n \div 1 = n
  BY SMT
<1>2. \A n \in Nat : n \div 256 \in Nat /\ n % 256 \in Nat
  BY SMT
<1>3. \A n \in Nat : n = 256 * (n \div 256) + (n % 256)
  BY SMT
<1>4. \A n \in Nat : (n \div 256) \div 256 = n \div 65536
  BY SMT
<1>5. \A n \in Nat : (n \div 65536) \div 256 = n \div 16777216
  BY SMT
<1>6. \A n \in Nat : n <= 1073741824 => n \div 16777216 < 256
  BY SMT
<1>7. \A n \in Nat : n < 16777216 => n \div 16777216 = 0
  BY SMT
<1>8. \A n \in Nat : n < 256 => n % 256 = n
  BY SMT
<1> QED
  BY <1>1, <1>2, <1>3, <1>4, <1>5, <1>6, <1>7, <1>8, SMT

\* The four bytes of a block number, weighed, are the number.
LEMMA BytesOfBlock ==
    ASSUME NEW n \in Nat, n <= MaxLba
    PROVE  /\ n = Byte(n, 1) + 256 * Byte(n, 256) + 65536 * Byte(n, 65536) + 16777216 * Byte(n, 16777216)
           /\ n < 16777216 => Byte(n, 16777216) = 0
<1>1. n \in Nat /\ n <= 1073741824
  BY SMT DEF MaxLba
<1>2. PICK q1 \in Nat, r0 \in Nat :
        q1 = n \div 256 /\ r0 = n % 256 /\ n = 256 * q1 + r0
  BY <1>1, Shifts, SMT
<1>3. PICK q2 \in Nat, r1 \in Nat :
        q2 = n \div 65536 /\ r1 = q1 % 256 /\ q1 = 256 * q2 + r1
  BY <1>1, <1>2, Shifts, SMT
<1>4. PICK q3 \in Nat, r2 \in Nat :
        q3 = n \div 16777216 /\ r2 = q2 % 256 /\ q2 = 256 * q3 + r2
  BY <1>1, <1>3, Shifts, SMT
<1>5. q3 % 256 = q3 /\ (n < 16777216 => q3 = 0)
  BY <1>1, <1>4, Shifts, SMT
<1>6. Byte(n, 1) = r0
  BY <1>1, <1>2, Shifts, SMT DEF Byte
<1>7. Byte(n, 256) = r1 /\ Byte(n, 65536) = r2 /\ Byte(n, 16777216) = q3
  BY <1>2, <1>3, <1>4, <1>5, SMT DEF Byte
<1>8. \A a, b, c, d, x, y, z \in Nat :
        a = 256 * b + x /\ b = 256 * c + y /\ c = 256 * d + z
          => a = x + 256 * y + 65536 * z + 16777216 * d
  BY SMT
<1>9. n = r0 + 256 * r1 + 65536 * r2 + 16777216 * q3
  BY <1>1, <1>2, <1>3, <1>4, <1>8, SMT
<1>10. n = Byte(n, 1) + 256 * Byte(n, 256) + 65536 * Byte(n, 65536) + 16777216 * Byte(n, 16777216)
  BY <1>6, <1>7, <1>9, SMT
<1>11. n < 16777216 => Byte(n, 16777216) = 0
  BY <1>5, <1>7, SMT
<1> QED
  BY <1>10, <1>11, SMT

\* The drive addresses the block the caller asked for.
LEMMA FisAddresses ==
    ASSUME NEW p, NEW lba \in Lbas, NEW size \in Sizes, Addressable(p, lba, size)
    PROVE  /\ BlockOf(Fis(p, lba, size)) = lba
           /\ Fis(p, lba, size).count = BlocksOf(size)
<1>1. lba \in Nat /\ lba <= MaxLba
  BY AhciAssumption
<1>3. BlocksOf(size) \in Nat /\ BlocksOf(size) < 65536
  <2>1. BlocksOf(size) \in Nat /\ BlocksOf(size) <= 8 * PagesOf(size) /\ PagesOf(size) <= 248
        /\ PagesOf(size) \in Nat
    BY LowFacts, SizeFacts, SMT DEF MaxPrdt
  <2> QED
    BY <2>1, SMT
<1>4. \A b \in Nat : (b < 256 => b % 256 = b) /\ (b < 65536 => b % 65536 = b)
  BY SMT
<1>5. CASE p \in lba48
  <2>1. /\ Fis(p, lba, size).lba0 = Byte(lba, 1) /\ Fis(p, lba, size).lba1 = Byte(lba, 256)
        /\ Fis(p, lba, size).lba2 = Byte(lba, 65536) /\ Fis(p, lba, size).lba3 = Byte(lba, 16777216)
        /\ Fis(p, lba, size).count = BlocksOf(size) % 65536
    BY <1>5, SMT DEF Fis
  <2>2. BlocksOf(size) % 65536 = BlocksOf(size)
    BY <1>3, <1>4, SMT
  <2> QED
    BY <1>1, <2>1, <2>2, BytesOfBlock, SMT DEF BlockOf
<1>6. CASE p \notin lba48
  <2>1. /\ Fis(p, lba, size).lba0 = Byte(lba, 1) /\ Fis(p, lba, size).lba1 = Byte(lba, 256)
        /\ Fis(p, lba, size).lba2 = Byte(lba, 65536) /\ Fis(p, lba, size).lba3 = 0
        /\ Fis(p, lba, size).count = BlocksOf(size) % 256
    BY <1>6, SMT DEF Fis
  <2>2. lba < 16777216 /\ BlocksOf(size) < 256
    BY <1>6, SMT DEF Addressable
  <2>3. BlocksOf(size) % 256 = BlocksOf(size)
    BY <1>3, <1>4, <2>2, SMT
  <2>4. Byte(lba, 16777216) = 0
    BY <1>1, <2>2, BytesOfBlock, SMT
  <2> QED
    BY <1>1, <2>1, <2>3, <2>4, BytesOfBlock, SMT DEF BlockOf
<1> QED
  BY <1>5, <1>6

\* What the drive puts in the frames of a read that it can address.
LEMMA ReceivedFacts ==
    ASSUME DmaInv, NEW p, NEW lba \in Lbas, NEW size \in Sizes, NEW phys \in Nat,
           Addressable(p, lba, size), phys + PagesOf(size) <= MaxFrames,
           NEW k \in 1 .. PagesOf(size)
    PROVE  Received(Command(p, FALSE, lba, size, phys))[phys + k - 1]
             = lba + (k - 1) * BlocksPerPage
<1> DEFINE cmd == Command(p, FALSE, lba, size, phys)
           f == phys + k - 1
<1>1. size \in Nat \ {0} /\ PagesOf(size) \in Nat \ {0} /\ BlocksPerPage = 8
      /\ PagesOf(size) = ((size - 1) \div PageBytes) + 1
      /\ \A j \in 1 .. PagesOf(size) : (j - 1) * 8 < BlocksOf(size)
  BY LowFacts, SizeFacts
<1>2. /\ cmd.prdt = [j \in 1 .. PagesOf(size) |-> phys + j - 1]
      /\ cmd.identify = FALSE /\ cmd.fis = Fis(p, lba, size)
  BY <1>1 DEF Command, Prdt
<1>3. cmd.fis.count = BlocksOf(size) /\ BlockOf(cmd.fis) = lba
  <2>1. /\ BlockOf(Fis(p, lba, size)) = lba
        /\ Fis(p, lba, size).count = BlocksOf(size)
    BY FisAddresses
  <2> HIDE DEF cmd
  <2> QED
    BY <1>2, <2>1
<1> HIDE DEF cmd
<1>4. DOMAIN cmd.prdt = 1 .. PagesOf(size) /\ \A j \in 1 .. PagesOf(size) : cmd.prdt[j] = phys + j - 1
  BY <1>2
<1>5. Filled(cmd) = 1 .. PagesOf(size)
  BY <1>1, <1>3, <1>4 DEF Filled
<1>6. f \in DOMAIN memory
  BY <1>1, SlotFacts DEF DmaInv
<1>7. \A j \in Filled(cmd) : cmd.prdt[j] = f <=> j = k
  BY <1>1, <1>4, <1>5
<1>8. k \in Filled(cmd)
  BY <1>5
<1>9. (CHOOSE j \in Filled(cmd) : cmd.prdt[j] = f) = k
  BY <1>7, <1>8
<1>10. Received(cmd)[f] = Transfer(cmd, k)
  BY <1>6, <1>7, <1>8, <1>9 DEF Received
<1>11. Transfer(cmd, k) = lba + (k - 1) * BlocksPerPage
  BY <1>1, <1>2, <1>3 DEF Transfer
<1> QED
  BY <1>10, <1>11 DEF cmd

-----------------------------------------------------------------------------
(* What the pieces of a step do.                                           *)

\* ahci_get_command_slot returns a slot that is free.
LEMMA FirstFreeIsFree ==
    ASSUME NEW p, FreeSlots(p) # {}
    PROVE  FirstFree(p) \in FreeSlots(p) /\ FirstFree(p) \in Slots
<1>1. FreeSlots(p) \subseteq Nat /\ FreeSlots(p) \subseteq Slots
  BY SlotFacts DEF FreeSlots
<1>2. \E x \in FreeSlots(p) : \A y \in FreeSlots(p) : x <= y
  BY <1>1, LeastExists
<1>3. FirstFree(p) \in FreeSlots(p)
  BY <1>2 DEF FirstFree
<1> QED
  BY <1>1, <1>3

\* ahci_send_command issues one command in a free slot, or does nothing.
LEMMA SendFacts ==
    ASSUME PortInv, TableInv, NEW p \in Ports, NEW id, NEW lba, NEW size, NEW phys,
           SendCommand(p, id, lba, size, phys)
    PROVE  /\ PortInv' /\ TableInv'
           /\ \A q \in Ports : \A s \in port[q].ci : table'[q][s] = table[q][s]
           /\ \A q \in Ports : q # p => port'[q] = port[q]
           /\ port[p].ci = {} => \E s \in Slots : /\ port'[p].ci = {s}
                                                  /\ table'[p][s] = Command(p, id, lba, size, phys)
<1> DEFINE c == Command(p, id, lba, size, phys)
<1>1. CASE FreeSlots(p) = {}
  <2>1. UNCHANGED <<port, table>>
    BY <1>1 DEF SendCommand
  <2>2. port[p].ci # {}
    BY <1>1, SlotFacts DEF FreeSlots
  <2> QED
    BY <2>1, <2>2 DEF PortInv, TableInv
<1>2. CASE FreeSlots(p) # {}
  <2> DEFINE s == FirstFree(p)
  <2>1. s \in Slots /\ s \notin port[p].ci
    BY <1>2, FirstFreeIsFree DEF FreeSlots
  <2>2. /\ table' = [table EXCEPT ![p][s] = c]
        /\ port' = [port EXCEPT ![p].ci = @ \cup {s}]
    BY <1>2 DEF SendCommand
  <2> HIDE DEF s, c
  <2>3. port \in [Ports -> PortType] /\ port[p] \in PortType
    BY DEF PortInv
  <2>4. /\ \A q \in Ports : q # p => port'[q] = port[q]
        /\ port'[p] = [port[p] EXCEPT !.ci = @ \cup {s}]
    BY <2>2, <2>3
  <2>5. /\ port'[p] \in PortType /\ port'[p].ci = port[p].ci \cup {s}
        /\ port'[p].busy = port[p].busy
    BY <2>1, <2>3, <2>4 DEF PortType
  <2>6. PortInv'
    <3>1. port' \in [Ports -> PortType]
      BY <2>2, <2>3, <2>4, <2>5
    <3> QED
      BY <2>4, <2>5, <3>1 DEF PortInv
  <2>7. /\ DOMAIN table' = Ports
        /\ \A q \in Ports : q # p => table'[q] = table[q]
        /\ table'[p] = [table[p] EXCEPT ![s] = c]
    BY <2>2 DEF TableInv
  <2>8. /\ DOMAIN table'[p] = Slots /\ table'[p][s] = c
        /\ \A x \in Slots : x # s => table'[p][x] = table[p][x]
    BY <2>1, <2>7 DEF TableInv
  <2>9. TableInv'
    BY <2>7, <2>8 DEF TableInv
  <2>10. \A q \in Ports : \A x \in port[q].ci : table'[q][x] = table[q][x]
    BY <2>1, <2>3, <2>7, <2>8 DEF PortInv, PortType
  <2>11. port[p].ci = {} => port'[p].ci = {s}
    BY <2>5
  <2> QED
    BY <2>1, <2>4, <2>6, <2>8, <2>9, <2>10, <2>11 DEF c
<1> QED
  BY <1>1, <1>2

\* dma_alloc keeps the types of the DMA state.
LEMMA DmaKept ==
    ASSUME DmaInv, NEW n \in Nat, NEW r, DmaAlloc(r, n)
    PROVE  DmaInv'
<1>1. window' \in Nat /\ frames' \in Nat
  BY DEF DmaInv, DmaAlloc
<1>2. DOMAIN vmap' = DOMAIN vmap /\ DOMAIN memory' = DOMAIN memory
  BY DEF DmaAlloc
<1> QED
  BY <1>1, <1>2 DEF DmaInv

\* A buffer's virtual pages lead to its frames one by one, whether or not
\* there is room for it in the window.
LEMMA DmaMaps ==
    ASSUME DmaInv, NEW n \in Nat \ {0}, n <= LowPages, DmaAlloc(Region(n), n)
    PROVE  /\ Region(n).virt \in Nat /\ Region(n).phys \in Nat
           /\ Region(n).phys + n <= MaxFrames
           /\ \A k \in 1 .. n : vmap'[Region(n).virt + k - 1] = Region(n).phys + k - 1
<1> DEFINE v == Region(n).virt
           f == Region(n).phys
<1>1. f = frames /\ v = IF window + n <= WindowPages THEN LowPages + window ELSE 0
  BY DEF Region
<1>2. window \in Nat /\ frames \in Nat /\ LowPages \in Nat /\ WindowPages \in Nat
  BY LowFacts, SlotFacts DEF DmaInv
<1>3. /\ frames + n <= MaxFrames
      /\ vmap' = [x \in DOMAIN vmap |-> IF x \in v .. v + n - 1 THEN f + (x - v) ELSE vmap[x]]
  BY DEF DmaAlloc
<1> HIDE DEF v, f
<1>4. v \in Nat /\ f \in Nat /\ v + n <= LowPages + WindowPages
  BY <1>1, <1>2
<1>5. ASSUME NEW k \in 1 .. n
      PROVE  vmap'[v + k - 1] = f + k - 1
  <2>1. v + k - 1 \in 0 .. LowPages + WindowPages - 1 /\ v + k - 1 \in v .. v + n - 1
    BY <1>2, <1>4
  <2>2. vmap'[v + k - 1] = f + ((v + k - 1) - v)
    BY <1>3, <2>1 DEF DmaInv
  <2> QED
    BY <1>4, <2>2
<1>6. f + n <= MaxFrames
  BY <1>1, <1>3
<1> QED
  BY <1>4, <1>5, <1>6 DEF v, f

\* Where no read is under way nothing is claimed of one.
LEMMA NotReading ==
    ASSUME pc' \notin {"await", "busy"}
    PROVE  BufferInv' /\ WakeInv'
  BY DEF BufferInv, WakeInv, Reading

\* Nothing is claimed about a read that may be woken early.
LEMMA Disturbed ==
    ASSUME disturbed'
    PROVE  WakeInv'
  BY DEF WakeInv

\* The initial state.
LEMMA AhciInit == Init => AhciInv
<1> SUFFICES ASSUME Init PROVE AhciInv
  OBVIOUS
<1>1. DriverInv
  BY DEF Init, DriverInv, PCs, Working
<1>2. PortInv
  <2>1. port \in [Ports -> [st : {FALSE}, cr : BOOLEAN, ci : {{}}, busy : {None}, ie : {FALSE}]]
    BY DEF Init
  <2>2. \A p \in Ports : port[p] \in PortType /\ port[p].busy = None
    BY <2>1 DEF PortType
  <2>3. port \in [Ports -> PortType]
    BY <2>1, <2>2
  <2> QED
    BY <2>2, <2>3 DEF PortInv
<1>3. TableInv /\ DmaInv
  BY DEF Init, TableInv, DmaInv
<1>4. BufferInv /\ WakeInv
  BY DEF Init, BufferInv, WakeInv, Reading
<1> QED
  BY <1>1, <1>2, <1>3, <1>4 DEF AhciInv

-----------------------------------------------------------------------------
(* Every step keeps the invariant.                                         *)

\* Bringing the controller up.
LEMMA StepBringUp ==
    ASSUME AhciInv, Detect \/ PciDriverRegister \/ AhciProbe \/ PortsDone \/ BiosReleases
    PROVE  AhciInv'
<1>1. /\ pc' \in {"pci", "nodevice", "handoff", "ports", "ready"}
      /\ UNCHANGED <<cur, todo, node, port, table, window, frames, vmap, memory,
                     gotInterrupt, disturbed>>
  BY DEF Detect, PciDriverRegister, AhciProbe, PortsDone, BiosReleases, drvVars, dmaVars, hbaVars
<1>2. DriverInv'
  BY <1>1 DEF AhciInv, DriverInv, PCs, Working
<1>3. PortInv' /\ TableInv' /\ DmaInv'
  BY <1>1 DEF AhciInv, PortInv, TableInv, DmaInv
<1> QED
  BY <1>1, <1>2, <1>3, NotReading DEF AhciInv

\* A step that changes flags of one port and leaves its commands alone.
LEMMA FlagsKept ==
    ASSUME PortInv, NEW p \in Ports, port' \in [Ports -> PortType],
           port'[p].ci = port[p].ci, port'[p].busy = port[p].busy,
           \A q \in Ports : q # p => port'[q] = port[q]
    PROVE  PortInv'
  BY DEF PortInv

\* ahci_detect_ports turns to a port.
LEMMA StepNextPort == AhciInv /\ NextPort => AhciInv'
<1> SUFFICES ASSUME AhciInv, NextPort PROVE AhciInv'
  OBVIOUS
<1>1. /\ pc' = "stopping" /\ todo # {} /\ todo' = todo \ {cur'}
      /\ cur' = CHOOSE p \in todo : \A q \in todo : p <= q
      /\ port' = [port EXCEPT ![cur'].st = FALSE]
      /\ UNCHANGED <<node, table, window, frames, vmap, memory, gotInterrupt, disturbed>>
  BY DEF NextPort, dmaVars
<1>2. todo \subseteq Ports /\ todo \subseteq Nat
  BY AhciAssumption DEF AhciInv, DriverInv
<1>3. cur' \in todo
  <2>1. \E p \in todo : \A q \in todo : p <= q
    BY <1>1, <1>2, LeastExists
  <2> QED
    BY <1>1, <2>1
<1>4. PICK p \in Ports : p = cur'
  BY <1>2, <1>3
<1>5. DriverInv'
  BY <1>1, <1>2, <1>4 DEF AhciInv, DriverInv, PCs, Working
<1>6. PortInv'
  <2>1. port \in [Ports -> PortType] /\ port[p] \in PortType
    BY DEF AhciInv, PortInv
  <2>2. port' = [port EXCEPT ![p].st = FALSE]
    BY <1>1, <1>4
  <2>3. /\ port'[p] = [port[p] EXCEPT !.st = FALSE]
        /\ \A q \in Ports : q # p => port'[q] = port[q]
    BY <2>1, <2>2
  <2>4. port'[p] \in PortType /\ port'[p].ci = port[p].ci /\ port'[p].busy = port[p].busy
    BY <2>1, <2>3 DEF PortType
  <2>5. port' \in [Ports -> PortType]
    BY <2>1, <2>2, <2>3, <2>4
  <2> QED
    BY <2>3, <2>4, <2>5, FlagsKept DEF AhciInv
<1>7. TableInv' /\ DmaInv'
  BY <1>1 DEF AhciInv, TableInv, DmaInv
<1> QED
  BY <1>1, <1>5, <1>6, <1>7, NotReading DEF AhciInv

\* ahci_initialize_port.
LEMMA StepInitializePort == AhciInv /\ InitializePort => AhciInv'
<1> SUFFICES ASSUME AhciInv, InitializePort PROVE AhciInv'
  OBVIOUS
<1>1. /\ pc = "stopping" /\ pc' = "identify"
      /\ DmaAlloc(Region(3 + NSlots), 3 + NSlots)
      /\ port' = [port EXCEPT ![cur].st = TRUE, ![cur].ie = TRUE]
      /\ UNCHANGED <<cur, todo, node, table, gotInterrupt, disturbed>>
  BY DEF InitializePort, drvVars
<1>2. cur \in Ports
  BY <1>1 DEF AhciInv, DriverInv, Working
<1>3. DriverInv'
  BY <1>1, <1>2 DEF AhciInv, DriverInv, PCs
<1>4. PortInv'
  <2>1. port \in [Ports -> PortType] /\ port[cur] \in PortType
    BY <1>2 DEF AhciInv, PortInv
  <2>2. /\ port'[cur] = [port[cur] EXCEPT !.st = TRUE, !.ie = TRUE]
        /\ \A q \in Ports : q # cur => port'[q] = port[q]
    BY <1>1, <1>2, <2>1
  <2>3. port'[cur] \in PortType /\ port'[cur].ci = port[cur].ci /\ port'[cur].busy = port[cur].busy
    BY <2>1, <2>2 DEF PortType
  <2>4. port' \in [Ports -> PortType]
    BY <1>1, <2>1, <2>2, <2>3
  <2> QED
    BY <1>2, <2>2, <2>3, <2>4 DEF AhciInv, PortInv
<1>5. DmaInv'
  <2>1. 3 + NSlots \in Nat
    BY SlotFacts
  <2> QED
    BY <1>1, <2>1, DmaKept DEF AhciInv
<1>6. TableInv'
  BY <1>1 DEF AhciInv, TableInv
<1> QED
  BY <1>1, <1>3, <1>4, <1>5, <1>6, NotReading DEF AhciInv

\* IDENTIFY is sent.
LEMMA StepIdentify == AhciInv /\ Identify => AhciInv'
<1> SUFFICES ASSUME AhciInv, Identify PROVE AhciInv'
  OBVIOUS
<1>1. /\ pc = "identify" /\ pc' = "polling"
      /\ DmaAlloc(Region(1), 1)
      /\ SendCommand(cur, TRUE, 0, BlockSize, Region(1).phys)
      /\ UNCHANGED <<cur, todo, node, gotInterrupt, disturbed>>
  BY DEF Identify
<1>2. cur \in Ports
  BY <1>1 DEF AhciInv, DriverInv, Working
<1>3. DriverInv'
  BY <1>1, <1>2 DEF AhciInv, DriverInv, PCs
<1>4. PortInv' /\ TableInv'
  BY <1>1, <1>2, SendFacts DEF AhciInv
<1>5. DmaInv'
  BY <1>1, DmaKept DEF AhciInv
<1> QED
  BY <1>1, <1>3, <1>4, <1>5, NotReading DEF AhciInv

\* The end of IDENTIFY and the end of a read.
LEMMA StepDone ==
    ASSUME AhciInv, IdentifyDone \/ AwaitDrive
    PROVE  AhciInv'
<1>1. /\ pc' \in {"ports", "ready"} /\ cur' = None
      /\ (pc = "polling" /\ node' = cur) \/ node' = node
      /\ gotInterrupt' \in {gotInterrupt, FALSE} /\ disturbed' \in {disturbed, FALSE}
      /\ UNCHANGED <<todo, port, table, window, frames, vmap, memory>>
  BY DEF IdentifyDone, AwaitDrive, dmaVars, hbaVars
<1>2. DriverInv'
  BY <1>1 DEF AhciInv, DriverInv, PCs, Working
<1>3. PortInv' /\ TableInv' /\ DmaInv'
  BY <1>1 DEF AhciInv, PortInv, TableInv, DmaInv
<1> QED
  BY <1>1, <1>2, <1>3, NotReading DEF AhciInv

\* ahci_read sends its command.
LEMMA StepRead ==
    ASSUME AhciInv, NEW lba \in Lbas, NEW rest \in Rests, NEW size \in Sizes,
           AhciRead(lba, rest, size)
    PROVE  AhciInv'
<1> DEFINE n == PagesOf(size)
           r == Region(n)
<1>1. /\ pc = "ready" /\ pc' = "await" /\ node # None /\ cur' = node
      /\ DmaAlloc(r, n)
      /\ SendCommand(node, FALSE, lba, size, r.phys)
      /\ req' = [lba |-> lba, rest |-> rest, size |-> size, dma |-> r]
      /\ disturbed' = (gotInterrupt \/ InFlight \/ his # {})
      /\ UNCHANGED <<todo, node, lba48, his, gotInterrupt>>
  BY DEF AhciRead
<1>2. n \in Nat \ {0} /\ n <= LowPages
  BY LowFacts, SizeFacts
<1>3. node \in Ports
  BY <1>1 DEF AhciInv, DriverInv
<1> HIDE DEF n
<1>4. DriverInv'
  BY <1>1, <1>3 DEF AhciInv, DriverInv, PCs, Working
<1>5. /\ PortInv' /\ TableInv'
      /\ \A q \in Ports : q # node => port'[q] = port[q]
      /\ port[node].ci = {} =>
           \E s \in Slots : /\ port'[node].ci = {s}
                            /\ table'[node][s] = Command(node, FALSE, lba, size, r.phys)
  BY <1>1, <1>3, SendFacts DEF AhciInv
<1>6. DmaInv'
  BY <1>1, <1>2, DmaKept DEF AhciInv
<1>7. /\ r.virt \in Nat /\ r.phys \in Nat /\ r.phys + n <= MaxFrames
      /\ \A k \in 1 .. n : vmap'[r.virt + k - 1] = r.phys + k - 1
  BY <1>1, <1>2, DmaMaps DEF AhciInv
<1> HIDE DEF r
<1>8. req'.lba = lba /\ req'.size = size /\ req'.dma = r
  BY <1>1
<1>9. BufferInv'
  BY <1>7, <1>8 DEF BufferInv, n, PagesOf
<1>10. WakeInv'
  <2> SUFFICES ASSUME ~disturbed' PROVE Outstanding'
    BY DEF WakeInv
  <2>1. ~gotInterrupt /\ his = {} /\ \A q \in Ports : port[q].ci = {}
    BY <1>1 DEF InFlight
  <2>2. \A q \in Ports : q # cur' => port'[q].ci = {}
    BY <1>1, <1>5, <2>1
  <2>3. PICK s \in Slots : /\ port'[node].ci = {s}
                           /\ table'[node][s] = Command(node, FALSE, lba, size, r.phys)
    BY <1>3, <1>5, <2>1
  <2>4. Command(cur, FALSE, req.lba, req.size, req.dma.phys)'
          = Command(node, FALSE, lba, size, r.phys)
    BY <1>1, <1>8, SMT DEF Command, Fis, Prdt, Byte, BlocksOf
  <2>5. ~gotInterrupt' /\ his' = {} /\ pc' = "await"
    BY <1>1, <2>1
  <2>6. \E x \in Slots :
          /\ port'[cur'].ci = {x}
          /\ table'[cur'][x] = Command(cur, FALSE, req.lba, req.size, req.dma.phys)'
    BY <1>1, <2>3, <2>4
  <2> QED
    BY <2>2, <2>5, <2>6 DEF Outstanding
<1> QED
  BY <1>4, <1>5, <1>6, <1>9, <1>10 DEF AhciInv

\* file_pread ends in memory that is not a device.
LEMMA StepAstray ==
    ASSUME AhciInv, NEW size \in Sizes, FilePread(size)
    PROVE  AhciInv'
<1>1. /\ pc' = "astray" /\ DmaAlloc(Region(PagesOf(size)), PagesOf(size))
      /\ UNCHANGED <<cur, todo, node, port, table, gotInterrupt, disturbed>>
  BY DEF FilePread, drvVars, hbaVars
<1>2. PagesOf(size) \in Nat \ {0}
  <2>1. size \in Nat \ {0}
    BY AhciAssumption
  <2> QED
    BY <2>1, SizeFacts
<1>3. DriverInv'
  BY <1>1 DEF AhciInv, DriverInv, PCs, Working
<1>4. PortInv' /\ TableInv'
  BY <1>1 DEF AhciInv, PortInv, TableInv
<1>5. DmaInv'
  BY <1>1, <1>2, DmaKept DEF AhciInv
<1> QED
  BY <1>1, <1>3, <1>4, <1>5, NotReading DEF AhciInv

\* A read's buffer stays where it is until the read returns.
LEMMA BufferKept ==
    ASSUME BufferInv, UNCHANGED <<req, vmap>>, Reading' => Reading
    PROVE  BufferInv'
  BY DEF BufferInv, PagesOf

\* Data that has arrived stays, with no command left that could overwrite it.
LEMMA LandedKept ==
    ASSUME Landed, UNCHANGED <<req, cur, lba48, memory>>,
           \A q \in Ports : port'[q].ci = port[q].ci
    PROVE  Landed'
  BY SMT DEF Landed, Addressable, PagesOf, BlocksOf, BlocksPerPage

\* A command that is still outstanding.
LEMMA OutstandingKept ==
    ASSUME Outstanding, UNCHANGED <<pc, gotInterrupt, his, req, cur, lba48, table>>, cur \in Ports,
           \A q \in Ports : port'[q].ci = port[q].ci
    PROVE  Outstanding'
<1>1. PICK s \in Slots :
        /\ port[cur].ci = {s}
        /\ table[cur][s] = Command(cur, FALSE, req.lba, req.size, req.dma.phys)
  BY DEF Outstanding
<1>2. Command(cur, FALSE, req.lba, req.size, req.dma.phys)'
        = Command(cur, FALSE, req.lba, req.size, req.dma.phys)
  BY SMT DEF Command, Fis, Prdt, Byte, BlocksOf
<1>3. \E x \in Slots :
        /\ port'[cur'].ci = {x}
        /\ table'[cur'][x] = Command(cur, FALSE, req.lba, req.size, req.dma.phys)'
  BY <1>1, <1>2
<1>4. pc' = "await" /\ ~gotInterrupt' /\ his' = {} /\ \A q \in Ports : q # cur' => port'[q].ci = {}
  BY DEF Outstanding
<1> QED
  BY <1>3, <1>4 DEF Outstanding

\* The wait for got_interrupt ends; an undisturbed read has its data then.
LEMMA StepAwait == AhciInv /\ AwaitInterrupt => AhciInv'
<1> SUFFICES ASSUME AhciInv, AwaitInterrupt PROVE AhciInv'
  OBVIOUS
<1>1. /\ pc = "await"
      /\ (gotInterrupt /\ pc' = "busy") \/ pc' = "spinning"
      /\ UNCHANGED <<cur, todo, node, lba48, req, window, frames, vmap, memory, port, table,
                     gotInterrupt, disturbed>>
  BY DEF AwaitInterrupt, drvVars, dmaVars, hbaVars
<1>2. DriverInv'
  BY <1>1 DEF AhciInv, DriverInv, PCs, Working
<1>3. PortInv' /\ TableInv' /\ DmaInv'
  BY <1>1 DEF AhciInv, PortInv, TableInv, DmaInv
<1>4. BufferInv'
  BY <1>1, BufferKept DEF AhciInv, Reading
<1>5. WakeInv'
  <2>1. CASE pc' = "spinning"
    BY <2>1, NotReading
  <2>2. CASE gotInterrupt /\ pc' = "busy"
    <3> SUFFICES ASSUME ~disturbed' PROVE Landed'
      BY DEF WakeInv
    <3>1. Landed
      BY <1>1, <2>2 DEF AhciInv, WakeInv, Reading, Outstanding
    <3> QED
      BY <1>1, <3>1, LandedKept
  <2> QED
    BY <1>1, <2>1, <2>2
<1> QED
  BY <1>2, <1>3, <1>4, <1>5 DEF AhciInv

\* The handler runs.  With the command still outstanding it can only have
\* been called for something else.
LEMMA StepInterrupt ==
    ASSUME AhciInv, AhciInterrupt \/ SharedInterrupt
    PROVE  AhciInv'
<1>1. /\ UNCHANGED <<pc, cur, todo, node, lba48, req, window, frames, vmap, memory, port, table>>
      /\ gotInterrupt' = TRUE
  BY DEF AhciInterrupt, SharedInterrupt, drvVars, dmaVars, hbaVars
<1>2. \/ his # {} /\ disturbed' = disturbed
      \/ disturbed' = (pc \in {"await", "busy"})
  BY DEF AhciInterrupt, SharedInterrupt
<1>3. disturbed' \in BOOLEAN
  <2>1. disturbed \in BOOLEAN
    BY DEF AhciInv, DriverInv
  <2>2. CASE his # {} /\ disturbed' = disturbed
    BY <2>1, <2>2
  <2>3. CASE disturbed' = (pc \in {"await", "busy"})
    <3>1. (pc \in {"await", "busy"}) = (pc = "await" \/ pc = "busy")
      OBVIOUS
    <3> QED
      BY <2>3, <3>1
  <2> QED
    BY <1>2, <2>2, <2>3
<1>4. DriverInv'
  BY <1>1, <1>3 DEF AhciInv, DriverInv
<1>5. PortInv' /\ TableInv' /\ DmaInv'
  BY <1>1 DEF AhciInv, PortInv, TableInv, DmaInv
<1>6. BufferInv'
  BY <1>1, BufferKept DEF AhciInv, Reading
<1>7. WakeInv'
  <2> SUFFICES ASSUME Reading', ~disturbed' PROVE Landed'
    BY DEF WakeInv
  <2>1. Reading
    BY <1>1 DEF Reading
  <2>2. his # {} /\ ~disturbed
    <3>1. CASE his # {} /\ disturbed' = disturbed
      BY <3>1
    <3>2. CASE disturbed' = (pc \in {"await", "busy"})
      <4>1. disturbed'
        BY <2>1, <3>2, Zenon DEF Reading
      <4> QED
        BY <4>1
    <3> QED
      BY <1>2, <3>1, <3>2
  <2>3. Landed
    BY <2>1, <2>2 DEF AhciInv, WakeInv, Outstanding
  <2> QED
    BY <1>1, <2>3, LandedKept
<1> QED
  BY <1>4, <1>5, <1>6, <1>7 DEF AhciInv

\* CR follows ST, and a drive fetches a command.
LEMMA StepPort ==
    ASSUME AhciInv, NEW p \in Ports, PortFollows(p) \/ DriveFetches(p)
    PROVE  AhciInv'
<1>1. UNCHANGED <<pc, cur, todo, node, lba48, req, window, frames, vmap, memory, table, his,
                  gotInterrupt, disturbed>>
  BY DEF PortFollows, DriveFetches, drvVars, dmaVars
<1>2. port \in [Ports -> PortType] /\ port[p] \in PortType
  BY DEF AhciInv, PortInv
<1>3. PortInv' /\ \A q \in Ports : port'[q].ci = port[q].ci
  <2>1. CASE PortFollows(p)
    <3>1. port' = [port EXCEPT ![p].cr = port[p].st]
      BY <2>1 DEF PortFollows
    <3>2. /\ port'[p] = [port[p] EXCEPT !.cr = port[p].st]
          /\ \A q \in Ports : q # p => port'[q] = port[q]
      BY <1>2, <3>1
    <3>3. port'[p] \in PortType /\ port'[p].ci = port[p].ci /\ port'[p].busy = port[p].busy
      BY <1>2, <3>2 DEF PortType
    <3>4. port' \in [Ports -> PortType]
      BY <1>2, <3>1, <3>2, <3>3
    <3> QED
      BY <3>2, <3>3, <3>4, FlagsKept DEF AhciInv
  <2>2. CASE DriveFetches(p)
    <3>1. PICK s \in port[p].ci : port' = [port EXCEPT ![p].busy = s]
      BY <2>2 DEF DriveFetches
    <3>2. s \in Slots
      BY <1>2, <3>1 DEF PortType
    <3>3. /\ port'[p] = [port[p] EXCEPT !.busy = s]
          /\ \A q \in Ports : q # p => port'[q] = port[q]
      BY <1>2, <3>1
    <3>4. port'[p] \in PortType /\ port'[p].ci = port[p].ci /\ port'[p].busy = s
      BY <1>2, <3>2, <3>3 DEF PortType
    <3>5. port' \in [Ports -> PortType]
      BY <1>2, <3>1, <3>3, <3>4
    <3>6. \A q \in Ports : port'[q].busy # None => port'[q].busy \in port'[q].ci
      BY <3>1, <3>3, <3>4 DEF AhciInv, PortInv
    <3> QED
      BY <3>3, <3>4, <3>5, <3>6 DEF PortInv
  <2> QED
    BY <2>1, <2>2
<1>4. DriverInv' /\ TableInv' /\ DmaInv'
  BY <1>1 DEF AhciInv, DriverInv, TableInv, DmaInv
<1>5. BufferInv'
  BY <1>1, BufferKept DEF AhciInv, Reading
<1>6. WakeInv'
  <2> SUFFICES ASSUME Reading', ~disturbed' PROVE Outstanding' \/ Landed'
    BY DEF WakeInv
  <2>1. cur \in Ports /\ (Outstanding \/ Landed)
    BY <1>1 DEF AhciInv, WakeInv, Reading, DriverInv, Working
  <2>2. CASE Outstanding
    BY <1>1, <1>3, <2>1, <2>2, OutstandingKept
  <2>3. CASE Landed
    BY <1>1, <1>3, <2>3, LandedKept
  <2> QED
    BY <2>1, <2>2, <2>3
<1> QED
  BY <1>3, <1>4, <1>5, <1>6 DEF AhciInv

\* A drive completes a command: of an undisturbed read it is the read's own,
\* and the data is then in place.
LEMMA StepComplete ==
    ASSUME AhciInv, NEW p \in Ports, DriveCompletes(p)
    PROVE  AhciInv'
<1> DEFINE s == port[p].busy
<1>1. /\ s # None
      /\ memory' = Received(table[p][s])
      /\ port' = [port EXCEPT ![p].ci = @ \ {s}, ![p].busy = None]
      /\ UNCHANGED <<pc, cur, todo, node, lba48, req, window, frames, vmap, table,
                     gotInterrupt, disturbed>>
  BY DEF DriveCompletes, drvVars
<1>2. port \in [Ports -> PortType] /\ port[p] \in PortType /\ s \in port[p].ci
  BY <1>1 DEF AhciInv, PortInv
<1> HIDE DEF s
<1>3. /\ port'[p] = [port[p] EXCEPT !.ci = @ \ {s}, !.busy = None]
      /\ \A q \in Ports : q # p => port'[q] = port[q]
  BY <1>1, <1>2
<1>4. port'[p] \in PortType /\ port'[p].ci = port[p].ci \ {s} /\ port'[p].busy = None
  BY <1>2, <1>3 DEF PortType
<1>5. PortInv'
  <2>1. port' \in [Ports -> PortType]
    BY <1>1, <1>2, <1>3, <1>4
  <2> QED
    BY <1>3, <1>4, <2>1 DEF AhciInv, PortInv
<1>6. DriverInv' /\ TableInv'
  BY <1>1 DEF AhciInv, DriverInv, TableInv
<1>7. DmaInv'
  <2>1. DOMAIN memory' = DOMAIN memory
    BY <1>1 DEF Received
  <2> QED
    BY <1>1, <2>1 DEF AhciInv, DmaInv
<1>8. BufferInv'
  BY <1>1, BufferKept DEF AhciInv, Reading
<1>9. WakeInv'
  <2> SUFFICES ASSUME Reading', ~disturbed' PROVE Landed'
    BY DEF WakeInv
  <2>1. Reading /\ ~disturbed /\ cur \in Ports
    BY <1>1 DEF Reading, AhciInv, DriverInv, Working
  <2>2. Outstanding
    BY <1>2, <2>1 DEF AhciInv, WakeInv, Landed
  <2>3. PICK x \in Slots :
          /\ port[cur].ci = {x}
          /\ table[cur][x] = Command(cur, FALSE, req.lba, req.size, req.dma.phys)
    BY <2>2 DEF Outstanding
  <2>4. p = cur /\ x = s
    BY <1>2, <2>2, <2>3 DEF Outstanding
  <2>5. \A q \in Ports : port'[q].ci = {}
    BY <1>3, <1>4, <2>2, <2>3, <2>4 DEF Outstanding
  <2>6. /\ req.lba \in Lbas /\ req.size \in Sizes /\ req.dma.phys \in Nat
        /\ req.dma.phys + PagesOf(req.size) <= MaxFrames
    BY <2>1 DEF AhciInv, BufferInv
  <2>7. ASSUME Addressable(cur, req.lba, req.size), NEW k \in 1 .. PagesOf(req.size)
        PROVE  memory'[req.dma.phys + k - 1] = req.lba + (k - 1) * BlocksPerPage
    <3>1. PICK lba \in Lbas, size \in Sizes, phys \in Nat :
            lba = req.lba /\ size = req.size /\ phys = req.dma.phys
      BY <2>6
    <3>2. phys + PagesOf(size) <= MaxFrames /\ k \in 1 .. PagesOf(size)
      BY <2>6, <2>7, <3>1
    <3>3. Addressable(cur, lba, size)
      BY <2>7, <3>1
    <3>4. Received(Command(cur, FALSE, lba, size, phys))[phys + k - 1]
            = lba + (k - 1) * BlocksPerPage
      BY <3>2, <3>3, ReceivedFacts DEF AhciInv
    <3> QED
      BY <1>1, <2>3, <2>4, <3>1, <3>4
  <2>8. Addressable(cur, req.lba, req.size)' <=> Addressable(cur, req.lba, req.size)
    BY <1>1, SMT DEF Addressable, BlocksOf
  <2>9. Addressable(cur, req.lba, req.size)' =>
          \A k \in 1 .. PagesOf(req'.size) :
            memory'[req'.dma.phys + k - 1] = req'.lba + (k - 1) * BlocksPerPage
    BY <1>1, <2>7, <2>8
  <2> QED
    BY <2>5, <2>9 DEF Landed, PagesOf, BlocksPerPage
<1> QED
  BY <1>5, <1>6, <1>7, <1>8, <1>9 DEF AhciInv

\* Every step keeps the invariant.
LEMMA AhciStep == AhciInv /\ [Next]_vars => AhciInv'
<1> SUFFICES ASSUME AhciInv, [Next]_vars PROVE AhciInv'
  OBVIOUS
<1>1. CASE Driver
  BY <1>1, StepBringUp, StepNextPort, StepInitializePort, StepIdentify, StepDone, StepAwait
     DEF Driver
<1>2. CASE Controller
  BY <1>2, StepBringUp, StepPort, StepComplete DEF Controller
<1>3. CASE AhciInterrupt \/ SharedInterrupt
  BY <1>3, StepInterrupt
<1>4. ASSUME NEW lba \in Lbas, NEW rest \in Rests, NEW size \in Sizes, AhciRead(lba, rest, size)
      PROVE  AhciInv'
  BY <1>4, StepRead
<1>6. ASSUME NEW size \in Sizes, FilePread(size)
      PROVE  AhciInv'
  BY <1>6, StepAstray
<1>5. CASE UNCHANGED vars
  <2>1. UNCHANGED <<pc, cur, todo, node, lba48, req, window, frames, vmap, memory, port, table,
                    his, gotInterrupt, disturbed>>
    BY <1>5 DEF vars, drvVars, dmaVars, hbaVars
  <2>2. DriverInv' /\ PortInv' /\ TableInv' /\ DmaInv'
    BY <2>1 DEF AhciInv, DriverInv, PortInv, TableInv, DmaInv
  <2>3. BufferInv'
    BY <2>1, BufferKept DEF AhciInv, Reading
  <2>4. WakeInv'
    BY <2>1, OutstandingKept, LandedKept DEF AhciInv, WakeInv, Reading, DriverInv, Working
  <2> QED
    BY <2>2, <2>3, <2>4 DEF AhciInv
<1> QED
  BY <1>1, <1>2, <1>3, <1>4, <1>5, <1>6 DEF Next

-----------------------------------------------------------------------------
(* The theorems.                                                           *)

\* The invariant holds in every state.
THEOREM AhciInvariant == Spec => []AhciInv
  BY AhciInit, AhciStep, PTL DEF Spec

\* A read of ahci_read's own struct block_device that is not disturbed and
\* starts at a block copies the blocks it asked for: the data is
\* in its own frames, behind its own virtual pages, from the blocks whose
\* number was taken apart into the bytes of the FIS, for any blocks, sizes,
\* ports, slots and state of the DMA window (ahci_read, ahci_send_command,
\* ahci_await_completion, dma_alloc).
THEOREM ReadsRight == Spec => ReadRight
<1>1. ASSUME AhciInv, [Next]_vars, pc = "busy", ~disturbed,
             Addressable(cur, req.lba, req.size)
      PROVE  Copied = [k \in 1 .. PagesOf(req.size) |-> req.lba + (k - 1) * BlocksPerPage]
  <2>1. Landed
    BY <1>1 DEF AhciInv, WakeInv, Reading, Outstanding
  <2>2. \A k \in 1 .. PagesOf(req.size) :
          memory[vmap[req.dma.virt + k - 1]] = req.lba + (k - 1) * BlocksPerPage
    BY <1>1, <2>1 DEF AhciInv, BufferInv, Reading, Landed
  <2> QED
    BY <2>2 DEF Copied
<1>2. AhciInv /\ [Next]_vars =>
        [ pc = "busy" /\ pc' = "ready" /\ ~disturbed /\ req.rest = 0
            /\ Addressable(cur, req.lba, req.size)
            => Copied = [k \in 1 .. PagesOf(req.size) |->
                            req.lba + (k - 1) * BlocksPerPage] ]_vars
  BY <1>1
<1> QED
  BY <1>2, AhciInvariant, PTL DEF Spec, ReadRight

\* ahci_send_command never touches the table of a command that the
\* controller has yet to complete.
THEOREM TablesKept == Spec => TablesStable
<1>1. ASSUME AhciInv, [Next]_vars
      PROVE  \A p \in Ports : \A s \in port[p].ci : table'[p][s] = table[p][s]
  <2>1. CASE Identify
    <3>1. cur \in Ports /\ SendCommand(cur, TRUE, 0, BlockSize, Region(1).phys)
      BY <1>1, <2>1 DEF Identify, AhciInv, DriverInv, Working
    <3> QED
      BY <1>1, <3>1, SendFacts DEF AhciInv
  <2>2. ASSUME NEW lba \in Lbas, NEW rest \in Rests, NEW size \in Sizes, AhciRead(lba, rest, size)
        PROVE  \A p \in Ports : \A s \in port[p].ci : table'[p][s] = table[p][s]
    <3>1. node \in Ports /\ SendCommand(node, FALSE, lba, size, Region(PagesOf(size)).phys)
      BY <1>1, <2>2 DEF AhciRead, AhciInv, DriverInv
    <3> QED
      BY <1>1, <3>1, SendFacts DEF AhciInv
  <2>3. CASE UNCHANGED table
    BY <2>3
  <2>4. \/ Identify \/ UNCHANGED table
        \/ \E lba \in Lbas, rest \in Rests, size \in Sizes : AhciRead(lba, rest, size)
    BY <1>1 DEF Next, FilePread, Driver, Controller, Detect, PciDriverRegister, AhciProbe, NextPort,
       InitializePort, IdentifyDone, PortsDone, AwaitInterrupt, AwaitDrive, AhciInterrupt,
       SharedInterrupt, BiosReleases, PortFollows, DriveFetches, DriveCompletes, vars, hbaVars
  <2> QED
    BY <2>1, <2>2, <2>3, <2>4
<1>2. AhciInv /\ [Next]_vars =>
        [ \A p \in Ports : \A s \in port[p].ci :
            s \in port'[p].ci => table'[p][s] = table[p][s] ]_vars
  BY <1>1
<1> QED
  BY <1>2, AhciInvariant, PTL DEF Spec, TablesStable
=============================================================================
