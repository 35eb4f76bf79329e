\* kinit creates three threads under interrupt_disable; one worker exits, preempted anywhere.
CONSTANTS
    w1 = w1
    w2 = w2
    w3 = w3
    Kinit = Kinit
    Idle = Idle
    Head = Head
    Null = Null
    Workers <- Workers3
    Creators <- KinitOnly
    Exiters <- OneWorker
    Masked = TRUE
SPECIFICATION Spec
INVARIANTS QueueSound ContextIntegrity
