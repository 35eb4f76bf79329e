SPECIFICATION Spec
CONSTANTS
    Buses <- ThreeBuses
    NoHeader <- Absent
    Ports = {0}
    NSlots = 2
    Lbas <- LowAndHigh
    Rests <- StartOrMiddle
    Sizes <- OneOrTwoPages
    WindowPages = 7
    MaxFrames = 10
CHECK_DEADLOCK FALSE
PROPERTIES ReadRight TablesStable ReadReturns DiskComesUp
