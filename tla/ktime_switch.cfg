\* Two threads read the time while one of them installs a better clock
\* source, under ticks; the words are small enough to wrap.
CONSTANTS
    t1 = t1
    t2 = t2
    Tsc = Tsc
    Jiffy = Jiffy
    Irq = Irq
    None = None
    Threads <- TwoThreads
    Switchers <- T1Only
    Clocks <- TwoClocks
    Freq <- FreqOf
    Rating <- RatingOf
    NSEC = 4
    Word = 32
    MaxCount = 2
SPECIFICATION FairSpec
INVARIANTS HolderHasCPU Normalised TornWithinASecond TicksCountedOnce
PROPERTIES StuckForEver TickReturns TimeMonotonic
CHECK_DEADLOCK FALSE
