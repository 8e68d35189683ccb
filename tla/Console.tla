------------------------------ MODULE Console ------------------------------
(***************************************************************************)
(* Console input: the ring of kernel/console.c, filled from the serial     *)
(* port and the keyboard, and readline() of lib/readline.c, which the      *)
(* kernel monitor reads its commands with.                                 *)
(*                                                                         *)
(* Interrupts are off, so the ring is filled only by the polls cons_getc() *)
(* begins with; the devices receive at any time, also between two of the   *)
(* CPU's steps.  A device is the sequence of what it has received: for the *)
(* keyboard that is what kbd_proc_data() makes of each scan code, NO for   *)
(* the many that make no character.                                        *)
(***************************************************************************)
EXTENDS Naturals, Sequences, SequencesExt

CONSTANTS
    CONSBUFSIZE,             \* size of the ring
    BUFLEN,                  \* size of readline()'s buffer
    Printable,               \* characters from ' ' on, but for DEL
    DEL, BACKSPACE, NEWLINE, \* erase, erase, end of line ('\n' and '\r')
    CONTROL,                 \* a character below ' ' readline() ignores
    NO,                      \* 0: no character
    PtdumpLines,             \* lines whose first word is ptdump
    TypeAhead                \* how much the user may type before it is read

Chars == Printable \cup {DEL, BACKSPACE, NEWLINE, CONTROL}

ASSUME ConsoleAssumption ==
    /\ CONSBUFSIZE \in Nat \ {0} /\ BUFLEN \in Nat \ {0} /\ TypeAhead \in Nat
    /\ NO \notin Chars /\ PtdumpLines \subseteq Seq(Chars)
    /\ {DEL, BACKSPACE, NEWLINE, CONTROL} \cap Printable = {}

VARIABLES
    serial, kbd,        \* received by the devices and not yet polled
    buf, rpos, wpos,    \* struct cons
    pc,                 \* where the CPU is
    c,                  \* what cons_getc() returned
    text                \* readline()'s buffer up to i

vars == <<serial, kbd, buf, rpos, wpos, pc, c, text>>

Init ==
    /\ serial = <<>> /\ kbd = <<>>
    /\ buf = [i \in 0 .. CONSBUFSIZE - 1 |-> NO] /\ rpos = 0 /\ wpos = 0
    /\ pc = "serial" /\ c = NO /\ text = <<>>

\* n modulo CONSBUFSIZE, for an n below twice CONSBUFSIZE.
Wrap(n) == IF n < CONSBUFSIZE THEN n ELSE n - CONSBUFSIZE

\* The characters between rpos and wpos, oldest first.
Waiting ==
    [i \in 1 .. Wrap(wpos + CONSBUFSIZE - rpos) |-> buf[Wrap(rpos + i - 1)]]

-----------------------------------------------------------------------------
(* The devices: the user is at most TypeAhead characters and keys ahead.     *)

MayArrive == Len(serial) + Len(kbd) + Len(Waiting) < TypeAhead

SerialReceives(x) ==
    /\ MayArrive
    /\ serial' = Append(serial, x)
    /\ UNCHANGED <<kbd, buf, rpos, wpos, pc, c, text>>

KbdReceives(x) ==
    /\ MayArrive
    /\ kbd' = Append(kbd, x)
    /\ UNCHANGED <<serial, buf, rpos, wpos, pc, c, text>>

Arrive == \E x \in Chars \cup {NO} : SerialReceives(x) \/ KbdReceives(x)

-----------------------------------------------------------------------------
(* Faults a programmer could have made, one per operator: no action uses     *)
(* them, they take the place of the definition their name begins with.       *)

\* An index that does not go back to the beginning of the ring.
AdvanceUnwrapped(pos) == pos + 1

\* The character stored behind wpos, not at it.
StoreBehind(x) ==
    IF x = NO THEN UNCHANGED <<buf, wpos>>
    ELSE /\ wpos' = Wrap(wpos + 1)
         /\ buf' = [buf EXCEPT ![wpos'] = x]

\* The serial port asked only when the keyboard has nothing.
PollSerialSometimes ==
    /\ pc = "serial"
    /\ pc' = "kbd"
    /\ UNCHANGED <<serial, kbd, buf, rpos, wpos, c, text>>

\* No room kept for the zero at the end of the line.
FitsExactly == Len(text) < BUFLEN

-----------------------------------------------------------------------------
(* cons_getc(): drain the serial port, drain the keyboard, take a character  *)

Advance(pos) == IF pos + 1 = CONSBUFSIZE THEN 0 ELSE pos + 1

\* The body of cons_intr()'s loop.  It does not look at rpos.
Store(x) ==
    IF x = NO THEN UNCHANGED <<buf, wpos>>
    ELSE buf' = [buf EXCEPT ![wpos] = x] /\ wpos' = Advance(wpos)

PollSerial ==
    /\ pc = "serial"
    /\ IF serial = <<>>
       THEN pc' = "kbd" /\ UNCHANGED <<serial, buf, wpos>>
       ELSE Store(Head(serial)) /\ serial' = Tail(serial) /\ UNCHANGED pc
    /\ UNCHANGED <<kbd, rpos, c, text>>

PollKbd ==
    /\ pc = "kbd"
    /\ IF kbd = <<>>
       THEN pc' = "take" /\ UNCHANGED <<kbd, buf, wpos>>
       ELSE Store(Head(kbd)) /\ kbd' = Tail(kbd) /\ UNCHANGED pc
    /\ UNCHANGED <<serial, rpos, c, text>>

\* getchar() calls cons_getc() until it returns a character.
Take ==
    /\ pc = "take"
    /\ IF rpos # wpos
       THEN c' = buf[rpos] /\ rpos' = Advance(rpos) /\ pc' = "edit"
       ELSE c' = NO /\ pc' = "serial" /\ UNCHANGED rpos
    /\ UNCHANGED <<serial, kbd, buf, wpos, text>>

-----------------------------------------------------------------------------
(* readline() and monitor()                                                  *)

Fits == Len(text) < BUFLEN - 1

\* The branches of readline() in their order: an erase at the beginning of the
\* line is no erase, and DEL then passes for a printable character.
Edit ==
    /\ pc = "edit"
    /\ IF c \in {BACKSPACE, DEL} /\ text # <<>>
       THEN text' = Front(text) /\ pc' = "serial"
       ELSE IF c \in Printable \cup {DEL} /\ Fits
       THEN text' = Append(text, c) /\ pc' = "serial"
       ELSE pc' = (IF c = NEWLINE THEN "run" ELSE "serial") /\ UNCHANGED text
    /\ UNCHANGED <<serial, kbd, buf, rpos, wpos, c>>

\* mon_ptdump() walks all pages and never returns.  After any other command, and
\* after the panic mon_pageinfo() may end in, which calls monitor() once more,
\* readline() is called again.
RunCmd ==
    /\ pc = "run"
    /\ IF text \in PtdumpLines
       THEN pc' = "ptdump" /\ UNCHANGED text
       ELSE pc' = "serial" /\ text' = <<>>
    /\ UNCHANGED <<serial, kbd, buf, rpos, wpos, c>>

Cpu == PollSerial \/ PollKbd \/ Take \/ Edit \/ RunCmd

Next == Cpu \/ Arrive

\* Nothing stops the CPU; while it waits for input it polls.
Spec == Init /\ [][Next]_vars /\ WF_vars(Cpu)

-----------------------------------------------------------------------------
(* Properties *)

TypeOK ==
    /\ serial \in Seq(Chars \cup {NO}) /\ kbd \in Seq(Chars \cup {NO})
    /\ buf \in [0 .. CONSBUFSIZE - 1 -> Chars \cup {NO}]
    /\ rpos \in 0 .. CONSBUFSIZE - 1 /\ wpos \in 0 .. CONSBUFSIZE - 1
    /\ pc \in {"serial", "kbd", "take", "edit", "run", "ptdump"}
    /\ c \in Chars \cup {NO}
    /\ text \in Seq(Chars)

\* A line fits its buffer with the zero behind it, and no character that ends
\* or erases a line is part of one, but for a DEL at its beginning.
LineOK ==
    /\ Len(text) < BUFLEN
    /\ \A i \in DOMAIN text : text[i] \in Printable \/ (text[i] = DEL /\ i = 1)

\* Nobody is further ahead than assumed.
Ahead == Len(serial) + Len(kbd) + Len(Waiting) <= TypeAhead

\* The ring is a queue while the user is less than a ring ahead: no character
\* is lost, read twice or overtaken, and getchar() spins only without input.
Queue == INSTANCE InputQueue WITH queue <- Waiting
ImplementsInputQueue == Queue!QueueSpec

\* Once the user stops typing everything typed is read, unless it is behind a
\* line that asks for a dump of the page tables.
TypedIsRead ==
    <>[][~ Arrive]_vars =>
        \/ <>[](serial = <<>> /\ kbd = <<>> /\ Waiting = <<>>)
        \/ <>(pc = "ptdump" /\ text \in PtdumpLines)
=============================================================================
