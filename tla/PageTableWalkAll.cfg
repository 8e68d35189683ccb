SPECIFICATION Spec
CONSTANTS
    NPAGES = 5
    ENTRIES = 2
    Span <- MCSpan
    WORD = 64
    REF_LIM = 32
    kernel_pml4 = 0
    PickFree <- MCPickFree
    InsertAddrs = {12}
    Ranges <- MCRanges
    ProgramHeaders <- MCProgramHeaders
    KERNEL_VMA = 32
    KernelRegion <- MCKernelRegion
    StackRegion <- MCStackRegion
    PagesRegion <- MCPagesRegion
    BootMaps <- MCBootMaps
    DumpMasks = {{"HUGE"}}
    Leftovers <- MCNoLeftovers
    PageData = {}
    GoesOn = FALSE
    NULL = NULL
PROPERTIES
    WalkAllEnds
CHECK_DEADLOCK FALSE
