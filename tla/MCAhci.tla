------------------------------- MODULE MCAhci -------------------------------
(* Instances of Ahci for TLC: a bus without a controller, one with it as   *)
(* the third function of a device with a hole, one with two controllers.   *)
EXTENDS Ahci, TLC

Header(class, subclass, multi) ==
    [vendor |-> 32902, device |-> 10530, class |-> class, subclass |-> subclass, multi |-> multi]

Bridge == Header(6, 1, TRUE)
Disk   == Header(1, 6, FALSE)
Net    == Header(2, 0, FALSE)
Absent == Header(0, 0, FALSE)

ThreeBuses == {
    (<<0, 0>> :> Net),
    (<<0, 0>> :> Net) @@ (<<2, 0>> :> Bridge) @@ (<<2, 2>> :> Disk),
    (<<0, 0>> :> Disk) @@ (<<1, 0>> :> Disk)}

LowAndHigh == {70000, 16777221}
StartOrMiddle == {0, 100}
OneOrTwoPages == {512, 8192}
=============================================================================
