-------------------------------- MODULE Pci ---------------------------------
(***************************************************************************)
(* The PCI bus of drivers/pci/pci.c: detection of the functions that       *)
(* answer, and the choice of the one device a driver is given.             *)
(***************************************************************************)
EXTENDS Integers, Sequences

CONSTANTS
    Buses,      \* what may be plugged in: functions from <<dev, func>> to a header
    NoHeader    \* the all-ones answer of an absent function

VARIABLES
    bus,        \* the configuration space
    cursor,     \* the next <<dev, func>> pci_detect looks at
    devices     \* pci_device_list, first element first

pciVars == <<bus, cursor, devices>>

Functions == 8
DevsOf(b) == {p[1] : p \in DOMAIN b}
LastDev   == CHOOSE d \in DevsOf(bus) : \A e \in DevsOf(bus) : e <= d

\* pci_probe: the header, or NULL.
Probe(dev, func) == IF <<dev, func>> \in DOMAIN bus THEN bus[<<dev, func>>] ELSE NoHeader

PciInit ==
    /\ bus \in Buses
    /\ cursor = <<0, 0>>
    /\ devices = <<>>

\* Mutant: the other functions of a device are looked at only if the last
\* one that answered says there are some.
NextFunction_LastSays(dev, func) ==
    IF func < Functions - 1 /\ Probe(dev, func) # NoHeader /\ Probe(dev, func).multi
    THEN <<dev, func + 1>> ELSE <<dev + 1, 0>>

\* The loops of pci_detect: functions 1 to 7 only if function 0 is there
\* and bit 7 of its header type is set.
NextFunction(dev, func) ==
    IF func < Functions - 1 /\ Probe(dev, 0) # NoHeader /\ Probe(dev, 0).multi
    THEN <<dev, func + 1>> ELSE <<dev + 1, 0>>

\* One iteration: a function that answers goes to the head of the list.
PciDetect ==
    LET h == Probe(cursor[1], cursor[2])
    IN  /\ cursor[1] <= LastDev
        /\ devices' = IF h = NoHeader THEN devices ELSE <<h>> \o devices
        /\ cursor' = NextFunction(cursor[1], cursor[2])
        /\ bus' = bus

Detected == cursor[1] > LastDev

\* pci_driver_match_device, for a filter that may leave out the ids or the
\* class (0) but not one of a pair.
Accepts(filter, h) ==
    LET ids   == filter.vendor # 0 /\ filter.device # 0
        kind  == filter.class # 0 /\ filter.subclass # 0
        noids == filter.vendor = 0 /\ filter.device = 0
        nokind == filter.class = 0 /\ filter.subclass = 0
        SameIds  == h.vendor = filter.vendor /\ h.device = filter.device
        SameKind == h.class = filter.class /\ h.subclass = filter.subclass
    IN  \/ ids /\ nokind /\ SameIds
        \/ noids /\ kind /\ SameKind
        \/ ids /\ kind /\ SameIds /\ SameKind

\* The first device of the list that the filter accepts, or NULL.
MatchDevice(filter) ==
    LET hits == {i \in DOMAIN devices : Accepts(filter, devices[i])}
    IN  IF hits = {} THEN NoHeader
        ELSE devices[CHOOSE i \in hits : \A j \in hits : i <= j]
=============================================================================
