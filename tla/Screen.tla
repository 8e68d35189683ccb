------------------------------ MODULE Screen ------------------------------
(***************************************************************************)
(* The text screen: cga_putc() of kernel/console.c with the memmove() of   *)
(* lib/string.c it scrolls with.  A cell holds a character; attributes are *)
(* left out.                                                               *)
(***************************************************************************)
EXTENDS Characters, Naturals, Sequences, SequencesExt

CONSTANTS CRT_COLS, CRT_ROWS

CRT_SIZE == CRT_COLS * CRT_ROWS
Cells    == 0 .. CRT_SIZE - 1

ASSUME ScreenAssumption == CRT_COLS \in Nat \ {0} /\ CRT_ROWS \in Nat \ {0}

VARIABLE crt   \* crt.buf, the cells, and crt.pos, where the cursor is

\* cga_init() takes the cursor from where the firmware left it.
ScreenInit ==
    crt \in [buf : {[i \in Cells |-> SPACE]}, pos : Cells]

-----------------------------------------------------------------------------
(* Faults a programmer could have made, one per operator: no action uses     *)
(* them, they take the place of the definition their name begins with.       *)

\* Copying from the end, whatever the two areas are.
memmoveBackward(b, dst, src, n) ==
    LET copy[k \in 0 .. n] ==
            IF k = 0 THEN b
            ELSE [copy[k - 1] EXCEPT ![dst + n - k] = copy[k - 1][src + n - k]]
    IN  copy[n]

\* One cell too late.
ScrollLate(s) ==
    IF s.pos <= CRT_SIZE THEN s ELSE [s EXCEPT !.pos = @ - CRT_COLS]

-----------------------------------------------------------------------------
(* memmove() and cga_putc() *)

\* From the end if the destination begins inside the source.
memmove(b, dst, src, n) ==
    LET up   == src < dst /\ src + n > dst
        at(k) == IF up THEN n - k ELSE k - 1
        copy[k \in 0 .. n] ==
            IF k = 0 THEN b
            ELSE [copy[k - 1] EXCEPT ![dst + at(k)] = copy[k - 1][src + at(k)]]
    IN  copy[n]

Scroll(s) ==
    IF s.pos < CRT_SIZE THEN s
    ELSE LET moved == memmove(s.buf, 0, CRT_COLS, CRT_SIZE - CRT_COLS)
         IN  [buf |-> [i \in Cells |->
                          IF i < CRT_SIZE - CRT_COLS THEN moved[i] ELSE SPACE],
              pos |-> s.pos - CRT_COLS]

LineStart(n) == n - (n % CRT_COLS)

PutChar(s, c) ==
    Scroll(CASE c = BACKSPACE -> IF s.pos = 0 THEN s
                                 ELSE [buf |-> [s.buf EXCEPT ![s.pos - 1] = SPACE],
                                       pos |-> s.pos - 1]
             [] c = NEWLINE   -> [s EXCEPT !.pos = LineStart(@ + CRT_COLS)]
             [] c = RETURN    -> [s EXCEPT !.pos = LineStart(@)]
             [] OTHER         -> [buf |-> [s.buf EXCEPT ![s.pos] = c],
                                  pos |-> s.pos + 1])

PutSpace(s) == PutChar(s, SPACE)

\* cga_putc(): a tab is five spaces.
cga_putc(s, c) ==
    IF c = TAB THEN PutSpace(PutSpace(PutSpace(PutSpace(PutSpace(s)))))
    ELSE PutChar(s, c)

\* What cprintf() and cputchar() make of the screen, character by character.
PutString(s, str) ==
    LET put[n \in 0 .. Len(str)] ==
            IF n = 0 THEN s ELSE cga_putc(put[n - 1], str[n])
    IN  put[Len(str)]

-----------------------------------------------------------------------------
(* Properties *)

ScreenTypeOK ==
    /\ crt.pos \in Cells
    /\ DOMAIN crt.buf = Cells

\* The cells before the cursor.
ShowsBeforeCursor(str) ==
    /\ Len(str) <= crt.pos
    /\ \A i \in 1 .. Len(str) : crt.buf[crt.pos - Len(str) + i - 1] = str[i]
=============================================================================
