SPECIFICATION Spec
CONSTANTS
    Modifiers <- MCModifiers
    Others <- MCOthers
    WireLen = 0
    NO = NO
    SPACE = SPACE
    NEWLINE = NEWLINE
    RETURN = RETURN
    BACKSPACE = BACKSPACE
    TAB = TAB
    CONTROL = CONTROL
    KEY_DEL = KEY_DEL
    CRT_COLS = 2
    CRT_ROWS = 4
    BUFLEN = 6
    MAXARGS = 3
    Prompt <- MCPrompt
    Commands <- MCCommands
    Unknown <- MCUnknown
    TooMany <- MCTooMany
    NUL = NUL
INVARIANTS
    TypeOK
    ModifiersHeld
    LineShown
    ArgumentsAreWords
CHECK_DEADLOCK FALSE
