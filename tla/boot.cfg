\* Every map of two regions over eight pages, aligned or not.
CONSTANTS
    Page = 2
    KernelImage <- Image
    Maps <- AllMaps
    Symtabs <- TwoSymtabs
    AllocSizes <- FewSizes
    NodeSize = 1
    Top = 16
SPECIFICATION Spec
INVARIANTS KernelKept HeapKept OnlyReported NothingWasted
CHECK_DEADLOCK FALSE
