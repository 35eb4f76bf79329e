\* Opens, creates, device nodes and a mount over six paths, two with a
\* name that does not fit; files are read
\* anywhere and written at the end.
CONSTANTS
    x = x
    dev = dev
    Dev <- DevName
    Slash = Slash
    Nul = Nul
    Stray = Stray
    sb0 = sb0
    sb1 = sb1
    RootSb = sb0
    a = a
    b = b
    Junk = Junk
    None = None
    Names <- TwoNames
    Supers <- TwoSbs
    Bytes <- TwoBytes
    Paths <- FewPaths
    Writes <- SmallWrites
    Reads <- OneOrTwo
    MaxInodes = 4
    NameMax = 3
    Overwrites = FALSE
    MaxFiles = 2
    MaxBytes = 2
SYMMETRY SwapBytes
SPECIFICATION Spec
INVARIANTS OneObjectPerInode CreatedIsFound ContentsKept ReadRight
PROPERTY PathsStable
CHECK_DEADLOCK FALSE
