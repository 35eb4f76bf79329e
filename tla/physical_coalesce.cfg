\* Clients may free both halves of a split block.
CONSTANTS
    Top = 72
    Boundary = 16
    MinOrder = 1
    MaxOrder <- MaxOrders
    Regions <- OneBlock
    Sizes <- OnePage
    Junk = 99
    None = None
    Coalescing = TRUE
SPECIFICATION Spec
PROPERTY NeverHandedOutTwice
