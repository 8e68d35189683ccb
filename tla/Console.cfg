SPECIFICATION Spec
CONSTANTS
    CONSBUFSIZE = 3
    BUFLEN = 3
    key = key
    Printable <- MCPrintable
    DEL = DEL
    BACKSPACE = BACKSPACE
    NEWLINE = NEWLINE
    CONTROL = CONTROL
    NO = NO
    PtdumpLines <- MCPtdumpLines
    TypeAhead = 2
INVARIANTS
    TypeOK
    LineOK
PROPERTIES
    ImplementsInputQueue
    TypedIsRead
CHECK_DEADLOCK FALSE
