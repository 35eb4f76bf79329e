CONSTANTS
    HeapStart = 16
    Major = 4
    Minor = 4
    Alignment = 4
    AlignInfo = 4
    PageSize = 16
    PageCount = 4
    Sizes <- SmallAndLarge
    HeapLimit = 288
    MaxLive = 3
SPECIFICATION Spec
INVARIANT HeapSound
PROPERTIES NoNeedlessMajor ImplementsAllocator
CHECK_DEADLOCK FALSE
