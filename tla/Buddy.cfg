SPECIFICATION Spec
CONSTANTS
    NPages = 8
    BUDDY_MAX_ORDER = 3
    Size <- MCSize
    BootPages <- MCBootAllButZero
    ReqOrders = {0, 2}
    MaxRef = 1
    BONUS_LAB1 = FALSE
    NULL = NULL
    NONE = NONE
INVARIANTS
    TypeOK
    FreeFlagsMatchLists
    BlocksDisjoint
    NoPageLost
    FullyCoalesced
    ListIndexInBounds
PROPERTIES
    LoanUntouched
    CallsReturn
    ImplementsPageAllocator
CHECK_DEADLOCK FALSE
