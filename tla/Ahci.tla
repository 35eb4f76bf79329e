-------------------------------- MODULE Ahci --------------------------------
(***************************************************************************)
(* The AHCI disk driver, drivers/ata/ahci/ahci.c, with the DMA regions of  *)
(* mm/dma.c and mm/valloc.c it reads into, and the controller it talks to. *)
(*                                                                         *)
(* The boot thread is the only caller; the controller runs concurrently    *)
(* and its interrupt arrives at any time after GHC_IE is set.  Memory is   *)
(* kept by the page; a page of data is the number of its first block.      *)
(***************************************************************************)
EXTENDS Pci, FiniteSets

CONSTANTS
    Ports,          \* implemented ports
    NSlots,         \* command slots of a port (32)
    Lbas, Rests,    \* offsets of reads: a block, and bytes into it
    Sizes,          \* sizes of a read in bytes
    WindowPages,    \* pages of the DMA window, (DMA_END - DMA_START) / 4096 = 256
    MaxFrames       \* bound: pages taken from the DMA zone (which has 4096)

BlockSize == 512    \* AHCI_BLOCK_SIZE
PageBytes == 4096   \* AHCI_PRDT_MAX_MEMORY, PAGE_SIZE
Slots     == 0 .. NSlots - 1
None      == -1
Zeroed    == -2     \* a page dma_alloc has cleared
Identity  == -3     \* a page that starts with IDENTIFY data
MaxPrdt   == 248    \* entries of 16 bytes in a table's page, after 0x80 bytes
PagesOf(size)  == (size + PageBytes - 1) \div PageBytes
BlocksOf(size) == (size + BlockSize - 1) \div BlockSize

MaxLba    == 1073741824    \* 2^30

\* Pages of the virtual addresses from 0 (where regions go once the window
\* is used up), then those of the window.
LowPages == CHOOSE n \in {PagesOf(size) : size \in Sizes} :
              \A size \in Sizes : PagesOf(size) <= n

ASSUME AhciAssumption ==
    /\ Ports \subseteq Nat /\ IsFiniteSet(Ports)
    /\ {NSlots, WindowPages, MaxFrames} \subseteq Nat \ {0}
    /\ Lbas \subseteq Nat /\ \A lba \in Lbas : lba <= MaxLba
    /\ Rests \subseteq 0 .. BlockSize - 1
    /\ Sizes \subseteq Nat \ {0} /\ Sizes # {}
    \* a larger read runs past its command table (drivers/ata/ahci/ahci.c:139)
    /\ \A size \in Sizes : PagesOf(size) <= MaxPrdt
    \* the window holds what the ports need (for 32 slots: seven drives)
    /\ Cardinality(Ports) * (4 + NSlots) <= WindowPages

VARIABLES
    \* the driver
    pc,             \* where the boot thread is
    cur,            \* the port it works on
    todo,           \* ports with a SATA drive (ahci_check_type) still to be set up
    node,           \* the port whose block device is on /dev/sda
    lba48,          \* ports whose IDENTIFY data shows 48-bit addresses
    gotInterrupt,   \* got_interrupt
    req,            \* the command it waits for: [lba, rest, size, dma]
    hoisted,        \* the compiler made one load of the wait for got_interrupt
    \* DMA regions
    window,         \* dma_region->current, in pages from the base
    frames,         \* pages taken from the DMA zone
    vmap,           \* the frame behind each virtual page
    memory,         \* what a frame holds
    \* the controller
    bios,           \* BOHC.BOS: firmware owns the controller
    ghc,            \* GHC_AE and GHC_IE are set
    port,           \* per port: ST, CR, command_issue, the slot it executes, interrupts on
    table,          \* per port and slot: the command table
    his,            \* interrupt_status of the controller
    disturbed       \* history: an interrupt of something else may wake this read

drvVars == <<cur, todo, node, lba48, req>>
dmaVars == <<window, frames, vmap, memory>>
hbaVars == <<bios, ghc, port, table, his>>
vars    == <<pciVars, hoisted, pc, drvVars, dmaVars, hbaVars, gotInterrupt, disturbed>>

AhciFilter == [vendor |-> 0, device |-> 0, class |-> 1, subclass |-> 6]

Init ==
    /\ PciInit
    /\ pc = "pci"
    /\ cur = None /\ node = None /\ lba48 = {} /\ gotInterrupt = FALSE
    /\ todo \in SUBSET Ports /\ hoisted \in BOOLEAN
    /\ req = NoHeader
    /\ window = 0 /\ frames = 0
    /\ vmap = [v \in 0 .. LowPages + WindowPages - 1 |-> None]
    /\ memory = [f \in 0 .. MaxFrames - 1 |-> Zeroed]
    /\ bios \in BOOLEAN /\ ghc = FALSE
    /\ port \in [Ports -> [st : {FALSE}, cr : BOOLEAN, ci : {{}}, busy : {None}, ie : {FALSE}]]
    /\ table = [p \in Ports |-> [s \in Slots |-> NoHeader]]
    /\ his = {}
    /\ disturbed = FALSE

-----------------------------------------------------------------------------
(* dma_alloc.                                                              *)

\* physical_alloc(size, PHYS_DMA) and valloc_alloc, which is 0 from the
\* moment the window is used up.  (The zone outlasts the window.)
Region(n) ==
    [virt |-> IF window + n <= WindowPages THEN LowPages + window ELSE 0, phys |-> frames]

\* The region r of n pages is mapped and cleared; dma_alloc uses an address
\* of 0 like any other.  Neither kind of page is ever given back.
DmaAlloc(r, n) ==
    /\ frames + n <= MaxFrames
    /\ window' = IF r.virt = 0 THEN window ELSE window + n
    /\ frames' = frames + n
    /\ vmap' = [v \in DOMAIN vmap |-> IF v \in r.virt .. r.virt + n - 1
                                      THEN r.phys + (v - r.virt) ELSE vmap[v]]
    /\ memory' = [f \in DOMAIN memory |-> IF f \in r.phys .. r.phys + n - 1
                                          THEN Zeroed ELSE memory[f]]

-----------------------------------------------------------------------------
(* ahci_send_command.                                                      *)

\* (n >> 8k) & 0xFF, for the weight w = 2^8k of byte k.
Byte(n, w) == (n \div w) % 256

\* The register FIS.  Without 48-bit capacity bits 24 to 27 go to the device
\* register and the count keeps one byte.  (Blocks are below 2^31, so lba4 and
\* lba5 are zero.)
Fis(p, lba, size) ==
    [lba0 |-> Byte(lba, 1), lba1 |-> Byte(lba, 256), lba2 |-> Byte(lba, 65536),
     lba3 |-> IF p \in lba48 THEN Byte(lba, 16777216) ELSE 0,
     device |-> IF p \in lba48 THEN 0 ELSE Byte(lba, 16777216) % 16,
     count |-> BlocksOf(size) % (IF p \in lba48 THEN 65536 ELSE 256)]

\* The frames of the PRDT, one for AHCI_PRDT_MAX_MEMORY bytes of the buffer.
Prdt(size, phys) == [k \in 1 .. ((size - 1) \div PageBytes) + 1 |-> phys + k - 1]

\* What is written to the command table.
Command(p, identify, lba, size, phys) ==
    [identify |-> identify, fis |-> Fis(p, lba, size), prdt |-> Prdt(size, phys)]

\* Mutant: always the first slot.
FreeSlots_First(p) == {0}

\* ahci_get_command_slot: those with their command_issue bit clear.
FreeSlots(p) == Slots \ port[p].ci

\* The loop over the bits returns the first of them.
FirstFree(p) == CHOOSE x \in FreeSlots(p) : \A y \in FreeSlots(p) : x <= y

\* Nothing is sent if every slot is in use; the caller is not told.
SendCommand(p, identify, lba, size, phys) ==
    IF FreeSlots(p) = {}
    THEN UNCHANGED <<port, table>>
    ELSE LET s == FirstFree(p)
         IN  /\ table' = [table EXCEPT ![p][s] = Command(p, identify, lba, size, phys)]
             /\ port' = [port EXCEPT ![p].ci = @ \cup {s}]

-----------------------------------------------------------------------------
(* Bringing the controller up.                                             *)

Detect ==
    /\ pc = "pci"
    /\ PciDetect
    /\ UNCHANGED <<hoisted, pc, drvVars, dmaVars, hbaVars, gotInterrupt, disturbed>>

\* init_ahci: pci_driver_register, and ahci_probe if a device matches.
\* "Enabling bus mastering" only writes the copy of the header in memory.
PciDriverRegister ==
    /\ pc = "pci" /\ Detected
    /\ pc' = IF MatchDevice(AhciFilter) = NoHeader THEN "nodevice" ELSE "handoff"
    /\ UNCHANGED <<pciVars, hoisted, drvVars, dmaVars, hbaVars, gotInterrupt, disturbed>>

\* ahci_probe waits for firmware to give up the controller, registers its
\* interrupt handler and switches the controller on.
AhciProbe ==
    /\ pc = "handoff" /\ ~bios
    /\ ghc' = TRUE
    /\ pc' = "ports"
    /\ UNCHANGED <<pciVars, hoisted, drvVars, dmaVars, bios, port, table, his, gotInterrupt, disturbed>>

\* ahci_detect_ports turns to the next port; ahci_stop_command clears ST.
NextPort ==
    /\ pc = "ports" /\ todo # {}
    /\ cur' = CHOOSE p \in todo : \A q \in todo : p <= q
    /\ todo' = todo \ {cur'}
    /\ port' = [port EXCEPT ![cur'].st = FALSE]
    /\ pc' = "stopping"
    /\ UNCHANGED <<pciVars, hoisted, node, lba48, req, dmaVars, bios, ghc, table, his,
                   gotInterrupt, disturbed>>

\* The rest of ahci_initialize_port, once the port has stopped: pages for
\* the command list, the received FIS and a table per slot.
InitializePort ==
    /\ pc = "stopping" /\ ~port[cur].cr
    /\ DmaAlloc(Region(3 + NSlots), 3 + NSlots)
    /\ port' = [port EXCEPT ![cur].st = TRUE, ![cur].ie = TRUE]
    /\ pc' = "identify"
    /\ UNCHANGED <<pciVars, hoisted, drvVars, bios, ghc, table, his, gotInterrupt, disturbed>>

\* IDENTIFY into a buffer of its own.
Identify ==
    /\ pc = "identify"
    /\ DmaAlloc(Region(1), 1)
    /\ SendCommand(cur, TRUE, 0, BlockSize, Region(1).phys)
    /\ req' = [lba |-> 0, rest |-> 0, size |-> BlockSize, dma |-> Region(1)]
    /\ pc' = "polling"
    /\ UNCHANGED <<pciVars, hoisted, cur, todo, node, lba48, bios, ghc, his, gotInterrupt, disturbed>>

\* The poll of bit 0 of command_issue ends when it is clear or after a
\* million rounds; the buffer is used either way.  ahci_create_fs_node then
\* makes the device node: ahci_last_letter stays 'a', so each drive takes
\* /dev/sda over from the one before.
IdentifyDone ==
    /\ pc = "polling"
    /\ lba48' = IF memory[vmap[req.dma.virt]] = Identity THEN lba48 \cup {cur} ELSE lba48
    /\ node' = cur
    /\ req' = NoHeader /\ cur' = None
    /\ pc' = "ports"
    /\ UNCHANGED <<pciVars, hoisted, todo, dmaVars, hbaVars, gotInterrupt, disturbed>>

PortsDone ==
    /\ pc = "ports" /\ todo = {}
    /\ pc' = "ready"
    /\ UNCHANGED <<pciVars, hoisted, drvVars, dmaVars, hbaVars, gotInterrupt, disturbed>>

-----------------------------------------------------------------------------
(* ahci_read.                                                              *)

InFlight == \E p \in Ports : port[p].ci # {}

\* ahci_read of size bytes at offset lba * BlockSize + rest, called with the
\* struct block_device that block.h declares.  The offset is divided by the
\* size of a block; the rest is dropped.
AhciRead(lba, rest, size) ==
    LET r == Region(PagesOf(size))
    IN  /\ pc = "ready" /\ node # None
        /\ DmaAlloc(r, PagesOf(size))
        /\ SendCommand(node, FALSE, lba, size, r.phys)
        /\ req' = [lba |-> lba, rest |-> rest, size |-> size, dma |-> r]
        /\ cur' = node
        /\ disturbed' = (gotInterrupt \/ InFlight \/ his # {})
        /\ pc' = "await"
        /\ UNCHANGED <<pciVars, hoisted, todo, node, lba48, bios, ghc, his, gotInterrupt>>

\* file_pread on /dev/sda, the one caller in the tree, passes block->b_data: the
\* struct ahci_device.  ahci_read takes its first word, port_no, for the device,
\* and ahci_send_command goes on from what is behind such an address in the
\* first page: nothing, and a panic, unless a DMA region was mapped there.
FilePread(size) ==
    /\ pc = "ready" /\ node # None
    /\ DmaAlloc(Region(PagesOf(size)), PagesOf(size))
    /\ pc' = "astray"
    /\ UNCHANGED <<pciVars, hoisted, drvVars, hbaVars, gotInterrupt, disturbed>>

\* Mutant: the flag is not waited for.
AwaitInterrupt_Skipped ==
    /\ pc = "await"
    /\ pc' = "busy"
    /\ UNCHANGED <<pciVars, hoisted, drvVars, dmaVars, hbaVars, gotInterrupt, disturbed>>

\* ahci_await_completion: first the flag, then the drive.  The flag is a plain
\* int, so at -O3 one load may do for the whole loop: then it ends at once or
\* never.
AwaitInterrupt ==
    /\ pc = "await" /\ (gotInterrupt \/ hoisted)
    /\ pc' = IF gotInterrupt THEN "busy" ELSE "spinning"
    /\ UNCHANGED <<pciVars, hoisted, drvVars, dmaVars, hbaVars, gotInterrupt, disturbed>>

\* What memcpy finds in the buffer, through its mapping.
Copied == [k \in 1 .. PagesOf(req.size) |-> memory[vmap[req.dma.virt + k - 1]]]

\* The flag is cleared, the buffer copied and ahci_read returns: 0, since
\* size has been subtracted from itself when it is added to the total.
AwaitDrive ==
    /\ pc = "busy" /\ port[cur].busy = None
    /\ gotInterrupt' = FALSE
    /\ disturbed' = FALSE
    /\ req' = NoHeader /\ cur' = None
    /\ pc' = "ready"
    /\ UNCHANGED <<pciVars, hoisted, todo, node, lba48, dmaVars, hbaVars>>

\* Mutant: the handler only acknowledges.
AhciInterrupt_NoFlag ==
    /\ ghc /\ his # {}
    /\ his' = {}
    /\ UNCHANGED <<pciVars, hoisted, pc, drvVars, dmaVars, bios, ghc, port, table, gotInterrupt, disturbed>>

\* ahci_interrupt acknowledges every port and sets the flag.
AhciInterrupt ==
    /\ ghc /\ his # {}
    /\ his' = {}
    /\ gotInterrupt' = TRUE
    /\ UNCHANGED <<pciVars, hoisted, pc, drvVars, dmaVars, bios, ghc, port, table, disturbed>>

\* Another device on the same interrupt line: the flag is set all the same.
SharedInterrupt ==
    /\ ghc
    /\ gotInterrupt' = TRUE
    /\ disturbed' = (pc \in {"await", "busy"})
    /\ UNCHANGED <<pciVars, hoisted, pc, drvVars, dmaVars, hbaVars>>

-----------------------------------------------------------------------------
(* The controller and its drives (external).                               *)

BiosReleases ==
    /\ pc = "handoff" /\ bios
    /\ bios' = FALSE
    /\ UNCHANGED <<pciVars, hoisted, pc, drvVars, dmaVars, ghc, port, table, his, gotInterrupt, disturbed>>

\* CR follows ST.
PortFollows(p) ==
    /\ port[p].cr # port[p].st
    /\ port' = [port EXCEPT ![p].cr = port[p].st]
    /\ UNCHANGED <<pciVars, hoisted, pc, drvVars, dmaVars, bios, ghc, table, his, gotInterrupt, disturbed>>

DriveFetches(p) ==
    /\ port[p].cr /\ port[p].busy = None
    /\ \E s \in port[p].ci : port' = [port EXCEPT ![p].busy = s]
    /\ UNCHANGED <<pciVars, hoisted, pc, drvVars, dmaVars, bios, ghc, table, his, gotInterrupt, disturbed>>

\* What the drive makes of the FIS of an EXT command.
BlockOf(fis) == fis.lba0 + 256 * fis.lba1 + 65536 * fis.lba2 + 16777216 * fis.lba3

BlocksPerPage == PageBytes \div BlockSize

\* The data goes to the frames of the PRDT, as many blocks as were asked
\* for; BUSY and the issue bit clear.
Transfer(cmd, k) ==
    IF cmd.identify THEN Identity ELSE BlockOf(cmd.fis) + BlocksPerPage * (k - 1)

Filled(cmd) == {k \in DOMAIN cmd.prdt : (k - 1) * BlocksPerPage < cmd.fis.count}

Received(cmd) ==
    [f \in DOMAIN memory |->
        IF \E k \in Filled(cmd) : cmd.prdt[k] = f
        THEN Transfer(cmd, CHOOSE k \in Filled(cmd) : cmd.prdt[k] = f)
        ELSE memory[f]]

DriveCompletes(p) ==
    LET s == port[p].busy
    IN  /\ s # None
        /\ memory' = Received(table[p][s])
        /\ port' = [port EXCEPT ![p].ci = @ \ {s}, ![p].busy = None]
        /\ his' = IF port[p].ie THEN his \cup {p} ELSE his
        /\ UNCHANGED <<pciVars, hoisted, pc, drvVars, window, frames, vmap, bios, ghc, table,
                       gotInterrupt, disturbed>>

Driver ==
    \/ Detect \/ PciDriverRegister \/ AhciProbe \/ NextPort \/ InitializePort
    \/ Identify \/ IdentifyDone \/ PortsDone \/ AwaitInterrupt \/ AwaitDrive

Controller ==
    \/ BiosReleases
    \/ \E p \in Ports : PortFollows(p) \/ DriveFetches(p) \/ DriveCompletes(p)

Next ==
    \/ Driver \/ Controller \/ AhciInterrupt \/ SharedInterrupt
    \/ \E size \in Sizes :
         FilePread(size) \/ \E lba \in Lbas, rest \in Rests : AhciRead(lba, rest, size)

\* The thread runs, the controller answers, and interrupts are delivered.
Fairness ==
    /\ WF_vars(Driver) /\ WF_vars(AhciInterrupt)
    /\ WF_vars(BiosReleases)
    /\ \A p \in Ports : WF_vars(PortFollows(p)) /\ WF_vars(DriveFetches(p))
                        /\ WF_vars(DriveCompletes(p))

Spec == Init /\ [][Next]_vars /\ Fairness
-----------------------------------------------------------------------------
(* Properties.  The first three are about ahci_read as block.h declares    *)
(* it; what file_pread makes of it is the last one's.                      *)

\* A read that starts at a block, with got_interrupt clear and nothing in
\* flight, and is not woken by another device on its line, copies the blocks
\* that were asked for, whatever the state of the DMA window; on a drive whose
\* IDENTIFY timed out only below block 2^24 and fewer than 256 of them
\* (drivers/ata/ahci/ahci.c:170).
Addressable(p, lba, size) == p \in lba48 \/ (lba < 16777216 /\ BlocksOf(size) < 256)

ReadRight ==
    [][ pc = "busy" /\ pc' = "ready" /\ ~disturbed /\ req.rest = 0
          /\ Addressable(cur, req.lba, req.size)
          => Copied = [k \in 1 .. PagesOf(req.size) |->
                          req.lba + (k - 1) * BlocksPerPage] ]_vars

\* A command table is never rewritten while its command is outstanding,
\* not even that of an IDENTIFY that timed out or of a read that returned
\* too early.
TablesStable ==
    [][ \A p \in Ports : \A s \in port[p].ci :
          s \in port'[p].ci => table'[p][s] = table[p][s] ]_vars

\* If the compiler loads got_interrupt in every round of the wait, every read
\* returns: the completion of a command, or of the ones that fill all slots,
\* ends the wait.
ReadReturns == pc = "await" /\ ~hoisted ~> pc = "ready"

\* A controller among the functions of the bus is found and brought up,
\* however long firmware, ports and drives take.
DiskComesUp ==
    pc = "pci" /\ (\E x \in DOMAIN bus : Accepts(AhciFilter, bus[x])) ~> pc = "ready"
=============================================================================
