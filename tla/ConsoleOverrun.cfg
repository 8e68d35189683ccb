SPECIFICATION Spec
CONSTANTS
    CONSBUFSIZE = 3
    BUFLEN = 3
    key = key
    Printable <- MCPrintable
    DEL = DEL
    BACKSPACE = BACKSPACE
    NEWLINE = NEWLINE
    CONTROL = CONTROL
    NO = NO
    PtdumpLines <- MCPtdumpLines
    TypeAhead = 3
PROPERTIES
    ImplementsInputQueue
CHECK_DEADLOCK FALSE
