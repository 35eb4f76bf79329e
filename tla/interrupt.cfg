SPECIFICATION Spec
CONSTANTS
    t0 = t0
    t1 = t1
    timer = timer
    ahci = ahci
    other = other
    Null = Null
    Threads <- TwoThreads
    Boot <- t0
    Timer <- timer
    Others <- TwoOthers
    LineOf <- Wiring
    MaxHeld = 2
CHECK_DEADLOCK FALSE
INVARIANTS SectionsMasked AllAcknowledged
PROPERTIES DispatchComplete
