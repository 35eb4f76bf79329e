\* One region across the DMA boundary; clients that never give back both
\* halves of a split block.
CONSTANTS
    Top = 72
    Boundary = 16
    MinOrder = 1
    MaxOrder <- MaxOrders
    Regions <- Crossing
    Sizes <- AnySize
    Junk = 99
    None = None
    Coalescing = FALSE
SPECIFICATION Spec
INVARIANTS FreeListsPartition BitsTellTheTruth
PROPERTIES SameAsBefore ImplementsAllocator
