----------------------------- MODULE Terminal -----------------------------
(***************************************************************************)
(* The user at the kernel monitor: keyboard, readline() of lib/readline.c  *)
(* with its echo, the screen, and runcmd() of kernel/monitor.c.  Between   *)
(* the keyboard and readline() is the queue cons_getc() promises; that the *)
(* ring is one is the matter of module Console.                            *)
(***************************************************************************)
EXTENDS Keyboard, Screen

CONSTANTS
    BUFLEN,      \* size of readline()'s buffer
    MAXARGS,     \* room for arguments in runcmd()
    Prompt,      \* "K> "
    Commands,    \* what the commands of the monitor print, by their names
    Unknown,     \* the message for any other name
    TooMany      \* the message for too many arguments

ASSUME TerminalAssumption ==
    /\ BUFLEN \in Nat \ {0} /\ MAXARGS \in Nat \ {0, 1}
    \* Messages are strings; the prompt has no control characters.
    /\ \A s \in {Prompt, Unknown, TooMany} : s \in Seq(ToSet(s))
    /\ \A name \in DOMAIN Commands : Commands[name] \in Seq(ToSet(Commands[name]))
    /\ ToSet(Prompt) \cap {BACKSPACE, NEWLINE, RETURN, TAB} = {}
    \* The longest line fits the screen after it has scrolled.
    /\ Len(Prompt) + BUFLEN - 1 <= CRT_SIZE - CRT_COLS

VARIABLES
    queue,    \* characters polled and not yet read
    text,     \* readline()'s buffer up to i
    argv,     \* runcmd()'s arguments
    pc        \* "read", "run", "call" or "reboot"

vars == <<keyboard, crt, queue, text, argv, pc>>

Init ==
    /\ KeyboardInit
    /\ \E s \in [buf : {[i \in Cells |-> SPACE]}, pos : Cells] :
           crt = PutString(s, Prompt)
    /\ queue = <<>> /\ text = <<>> /\ argv = <<>> /\ pc = "read"

-----------------------------------------------------------------------------
(* The user *)

User ==
    /\ pc # "reboot" /\ queue = <<>>
    /\ \/ \E k \in Modifiers : Press(k) \/ Release(k)
       \/ \E k \in Others : Hit(k)
    /\ UNCHANGED <<crt, queue, text, argv, pc>>

\* strchr(WHITESPACE, c), of the characters a line holds.
White(c) == c = SPACE

-----------------------------------------------------------------------------
(* Faults a programmer could have made, one per operator: no action uses     *)
(* them, they take the place of the definition their name begins with.       *)

\* Arguments not separated by zeros.
ParsedJoined(p, i) ==
    IF White(text[i]) THEN p
    ELSE IF i > 1 /\ text[i - 1] # SPACE THEN p
    ELSE [p EXCEPT !.starts = Append(@, i)]

-----------------------------------------------------------------------------
(* The kernel *)

\* An iteration of cons_intr(kbd_proc_data).
PollKbd ==
    /\ pc = "read" /\ wire # <<>>
    /\ wire' = Tail(wire)
    /\ shift' = ShiftAfter(Head(wire))
    /\ LET c == CharOf(Head(wire))
       IN  queue' = IF c = NO THEN queue ELSE Append(queue, c)
    /\ pc' = IF Reboots(Head(wire)) THEN "reboot" ELSE pc
    /\ UNCHANGED <<held, crt, text, argv>>

Show(str) == crt' = PutString(crt, str)

Fits == Len(text) < BUFLEN - 1

\* readline(), with a character getchar() returned.
ReadChar ==
    /\ pc = "read" /\ wire = <<>> /\ queue # <<>>
    /\ queue' = Tail(queue)
    /\ LET c == Head(queue)
       IN  \/ /\ c = BACKSPACE /\ text # <<>>
              /\ text' = Front(text) /\ Show(<<c>>) /\ UNCHANGED pc
           \/ /\ c \in Printable /\ Fits
              /\ text' = Append(text, c) /\ Show(<<c>>) /\ UNCHANGED pc
           \/ /\ c = NEWLINE
              /\ pc' = "run" /\ Show(<<c>>) /\ UNCHANGED text
           \/ /\ \/ c = BACKSPACE /\ text = <<>>
                 \/ c \in Printable /\ ~ Fits
                 \/ c = CONTROL
              /\ UNCHANGED <<text, crt, pc>>
    /\ UNCHANGED <<keyboard, argv>>

\* runcmd()'s parsing at the i-th character of the line: white space becomes
\* zero, the first character of a word is where an argument starts.
Parsed(p, i) ==
    IF White(text[i]) THEN [p EXCEPT !.buf[i] = NUL]
    ELSE IF i > 1 /\ p.buf[i - 1] # NUL THEN p
    ELSE [p EXCEPT !.starts = Append(@, i)]

ParsedLine ==
    LET parsed[i \in 0 .. Len(text)] ==
            IF i = 0 THEN [buf |-> Append(text, NUL), starts |-> <<>>]
            ELSE Parsed(parsed[i - 1], i)
    IN  parsed[Len(text)]

\* The string that starts at a place of the buffer and ends before a zero.
StringAt(b, i) ==
    LET n == CHOOSE j \in i .. Len(b) :
                 b[j] = NUL /\ \A k \in i .. j - 1 : b[k] # NUL
    IN  SubSeq(b, i, n - 1)

\* runcmd()'s argv: none if there are more than it has room for.
Parse ==
    /\ pc = "run"
    /\ LET p    == ParsedLine
           args == [n \in DOMAIN p.starts |-> StringAt(p.buf, p.starts[n])]
       IN  IF Len(args) > MAXARGS - 1
           THEN argv' = <<>> /\ Show(TooMany \o Prompt)
                /\ text' = <<>> /\ pc' = "read"
           ELSE argv' = args /\ pc' = "call" /\ UNCHANGED <<text, crt>>
    /\ UNCHANGED <<keyboard, queue>>

Output ==
    IF argv = <<>> THEN <<>>
    ELSE IF argv[1] \in DOMAIN Commands THEN Commands[argv[1]]
    ELSE Unknown \o argv[1] \o <<NEWLINE>>

\* The call of a command that returns (ptdump is Console's matter), and readline()'s
\* prompt for the next line.
RunCmd ==
    /\ pc = "call"
    /\ Show(Output \o Prompt)
    /\ argv' = <<>> /\ text' = <<>> /\ pc' = "read"
    /\ UNCHANGED <<keyboard, queue>>

Next == User \/ PollKbd \/ ReadChar \/ Parse \/ RunCmd

Spec == Init /\ [][Next]_vars

-----------------------------------------------------------------------------
(* Properties *)

TypeOK ==
    /\ KeyboardTypeOK /\ ScreenTypeOK
    /\ queue \in Seq(Printable \cup {NEWLINE, BACKSPACE, CONTROL})
    /\ text \in Seq(Printable) /\ Len(text) < BUFLEN
    /\ pc \in {"read", "run", "call", "reboot"}

\* What the user sees before the cursor is the prompt and the line as it will
\* be executed, through erases, line wraps and scrolling.
LineShown == pc = "read" => ShowsBeforeCursor(Prompt \o text)

\* The words of a line, by definition: the longest stretches without white
\* space, in order.
WordStarts(line) ==
    {i \in DOMAIN line : line[i] # SPACE /\ (i = 1 \/ line[i - 1] = SPACE)}
WordEnd(line, i) ==
    CHOOSE j \in i .. Len(line) :
        /\ \A k \in i .. j : line[k] # SPACE
        /\ j = Len(line) \/ line[j + 1] = SPACE
NthWord(line, n) ==
    LET i == CHOOSE x \in WordStarts(line) :
                 Cardinality({y \in WordStarts(line) : y <= x}) = n
    IN  SubSeq(line, i, WordEnd(line, i))

\* A command gets the words of the line typed as its arguments, and is called
\* only if there is room for them and the NULL behind them.
ArgumentsAreWords ==
    pc = "call" =>
        /\ Len(argv) < MAXARGS
        /\ argv = [n \in 1 .. Cardinality(WordStarts(text)) |-> NthWord(text, n)]
=============================================================================
