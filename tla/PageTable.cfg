SPECIFICATION Spec
CONSTANTS
    NPAGES = 7
    ENTRIES = 2
    Span <- MCSpan
    WORD = 64
    REF_LIM = 32
    kernel_pml4 = 0
    PickFree <- MCPickFree
    InsertAddrs = {2, 12, 24}
    Ranges <- MCRanges
    ProgramHeaders <- MCProgramHeaders
    KERNEL_VMA = 32
    KernelRegion <- MCKernelRegion
    StackRegion <- MCStackRegion
    PagesRegion <- MCPagesRegion
    BootMaps <- MCBootMaps
    DumpMasks = {{"HUGE"}}
    Leftovers <- MCLeftovers
    PageData <- MCPageData
    GoesOn = FALSE
    NULL = NULL
INVARIANTS
    TypeOK
    MappedKept
    RemoveUnmaps
    LookupFinds
    DumpShows
PROPERTIES
    WalkEnds
CHECK_DEADLOCK FALSE
