\* Two threads make two calls between them; one may panic.
CONSTANTS
    t1 = t1
    t2 = t2
    Threads <- TwoThreads
    Nobody = Nobody
    Calls <- FewCalls
    Panics <- OnePanic
    Times <- OneTime
    SecWidth = 1
    NsecWidth = 1
    PrintkMax = 16
    Width = 4
    Height = 2
    MaxPrints = 2
    IntBits = 4
    LongBits = 8
    Strays <- OneStray
SPECIFICATION Spec
INVARIANTS NumbersRight 
SYMMETRY Symmetry
CHECK_DEADLOCK FALSE
