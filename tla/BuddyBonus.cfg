SPECIFICATION Spec
CONSTANTS
    NPages = 8
    BUDDY_MAX_ORDER = 3
    Size <- MCSize
    BootPages <- MCBootWithHole
    ReqOrders = {0, 2}
    MaxRef = 2
    BONUS_LAB1 = TRUE
    NULL = NULL
    NONE = NONE
INVARIANTS
    BuddyInv
    ValidFreeAccepted
PROPERTIES
    ImplementsPageAllocator
CHECK_DEADLOCK FALSE
