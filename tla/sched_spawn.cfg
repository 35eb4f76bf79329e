\* kinit creates three threads with interrupts on; nobody exits.
CONSTANTS
    w1 = w1
    w2 = w2
    w3 = w3
    Kinit = Kinit
    Idle = Idle
    Head = Head
    Null = Null
    Workers <- Workers3
    Creators <- KinitOnly
    Exiters <- NoThreads
    Masked = FALSE
SPECIFICATION HFairSpec
INVARIANT QueueSound
PROPERTIES NoDoubleTurn EveryThreadRuns
