CONSTANTS
    N = 4
    Pool <- EightFrames
    BootPml4 = 4
    BootPdpt = 5
    BootPd = 6
    BootPt = 7
    FinalPml4 = 8
    ProcessPml4 = 9
    KernelPages = 2
    MapStarts <- HeapAndDma
    MaxPages = 2
    DataFrames <- TwoTargets
SPECIFICATION Spec
INVARIANTS FractalRestored Translates TablesFormATree
