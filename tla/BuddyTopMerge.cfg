SPECIFICATION Spec
CONSTANTS
    NPages = 8
    BUDDY_MAX_ORDER = 2
    Size <- MCSize
    BootPages <- MCBootAllButZero
    ReqOrders = {0, 1}
    MaxRef = 1
    BONUS_LAB1 = FALSE
    NULL = NULL
    NONE = NONE
INVARIANTS
    ListIndexInBounds
CHECK_DEADLOCK FALSE
