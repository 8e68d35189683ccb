----------------------------- MODULE Keyboard -----------------------------
(***************************************************************************)
(* The keyboard and kbd_proc_data() of kernel/console.c: scan codes, the   *)
(* modifiers they set and the character each makes.  Of the tables it has  *)
(* the codes of the keys modelled.                                         *)
(***************************************************************************)
EXTENDS Characters, Naturals, Sequences, FiniteSets

CONSTANTS
    Modifiers,    \* keys held down and let go: [code, ext]
    Others,       \* keys struck, that is pressed and released: [code, ext]
    WireLen       \* no key is moved while more codes wait to be polled

Keys == Modifiers \cup Others

E0 == 224

\* The release of no key looks like the prefix of extended keys.
ASSUME KeyboardAssumption ==
    /\ \A k \in Keys : k.code \in 1 .. 127 /\ k.code + 128 # E0 /\ k.ext \in BOOLEAN
    /\ WireLen \in Nat

VARIABLES
    held,    \* the modifiers that are down
    wire,    \* scan codes sent and not yet polled
    shift    \* kbd_proc_data()'s static variable, as a set of flags

keyboard == <<held, wire, shift>>

KeyboardInit == held = {} /\ wire = <<>> /\ shift = {}

-----------------------------------------------------------------------------
(* The hardware: extended keys send E0 before the code, a release sends the  *)
(* code with the top bit; a key held down repeats its code.                  *)

Prefix(k) == IF k.ext THEN <<E0>> ELSE <<>>
Make(k)   == Prefix(k) \o <<k.code>>
Break(k)  == Prefix(k) \o <<k.code + 128>>

LeftShift == [code |-> 42, ext |-> FALSE]

\* Around extended keys the keyboard pretends that shift is up.
FakeUp   == <<E0, 42 + 128>>
FakeDown == <<E0, 42>>

Strike(k) ==
    IF k.ext /\ LeftShift \in held
    THEN FakeUp \o Make(k) \o Break(k) \o FakeDown
    ELSE Make(k) \o Break(k)

Press(k) ==
    /\ Len(wire) <= WireLen
    /\ held' = held \cup {k} /\ wire' = wire \o Make(k)
    /\ UNCHANGED shift

Release(k) ==
    /\ Len(wire) <= WireLen
    /\ k \in held
    /\ held' = held \ {k} /\ wire' = wire \o Break(k)
    /\ UNCHANGED shift

Hit(k) ==
    /\ Len(wire) <= WireLen
    /\ wire' = wire \o Strike(k)
    /\ UNCHANGED <<held, shift>>

-----------------------------------------------------------------------------
(* kbd_proc_data() *)

shiftcode(data) ==
    CASE data \in {29, 157} -> {"CTL"}
      [] data \in {42, 54}  -> {"SHIFT"}
      [] data \in {56, 184} -> {"ALT"}
      [] OTHER              -> {}

togglecode(data) ==
    CASE data = 58 -> {"CAPSLOCK"}
      [] data = 69 -> {"NUMLOCK"}
      [] data = 70 -> {"SCROLLLOCK"}
      [] OTHER     -> {}

normalmap ==
    [d \in {14, 28, 30, 57, 156, 211} |->
        CASE d = 14         -> BACKSPACE
          [] d \in {28, 156} -> NEWLINE
          [] d = 30         -> "a"
          [] d = 57         -> SPACE
          [] d = 211        -> KEY_DEL]
shiftmap == [normalmap EXCEPT ![30] = "A"]

\* '\r' and '\n' end a line alike.
ctlmap ==
    [d \in {28, 30, 211} |->
        CASE d = 28 -> NEWLINE [] d = 30 -> CONTROL [] d = 211 -> KEY_DEL]

charcode(s) ==
    IF "CTL" \in s THEN ctlmap ELSE IF "SHIFT" \in s THEN shiftmap ELSE normalmap

SwapCase(c) == IF c = "a" THEN "A" ELSE IF c = "A" THEN "a" ELSE c

Toggle(s, t) == (s \ t) \cup (t \ s)

\* A fault: the release looked up with its top bit set.
ShiftAfterUnmasked(data) ==
    LET esc == "E0ESC" \in shift
    IN  IF data = E0 THEN shift \cup {"E0ESC"}
        ELSE IF data >= 128
        THEN shift \ (shiftcode(data) \cup {"E0ESC"})
        ELSE LET d == IF esc THEN data + 128 ELSE data
             IN  Toggle((shift \ {"E0ESC"}) \cup shiftcode(d), togglecode(d))

\* The flags after a code ...
ShiftAfter(data) ==
    LET esc == "E0ESC" \in shift
    IN  IF data = E0 THEN shift \cup {"E0ESC"}
        ELSE IF data >= 128
        THEN shift \ (shiftcode(IF esc THEN data ELSE data - 128) \cup {"E0ESC"})
        ELSE LET d == IF esc THEN data + 128 ELSE data
             IN  Toggle((shift \ {"E0ESC"}) \cup shiftcode(d), togglecode(d))

\* ... and the character it makes.
CharOf(data) ==
    LET d == IF "E0ESC" \in shift THEN data + 128 ELSE data
        s == ShiftAfter(data)
        c == IF d \in DOMAIN charcode(s) THEN charcode(s)[d] ELSE NO
    IN  IF data >= 128 THEN NO
        ELSE IF "CAPSLOCK" \in s THEN SwapCase(c) ELSE c

\* Ctrl-Alt-Del.
Reboots(data) ==
    {"CTL", "ALT"} \subseteq ShiftAfter(data) /\ CharOf(data) = KEY_DEL

-----------------------------------------------------------------------------
(* Properties *)

KeyboardTypeOK ==
    /\ held \subseteq Modifiers
    /\ wire \in Seq(0 .. 255)
    /\ shift \subseteq {"SHIFT", "CTL", "ALT", "CAPSLOCK", "NUMLOCK",
                        "SCROLLLOCK", "E0ESC"}

\* Once all codes are polled a modifier is on only while one of its keys is
\* down, and no E0 waits for its second byte: whatever keys were pressed,
\* repeated and released in whatever order, left and right ones, with the
\* shifts the keyboard makes up.
ModifiersHeld ==
    wire = <<>> =>
        /\ \A m \in shift \cap {"SHIFT", "CTL", "ALT"} :
               \E k \in held : m \in shiftcode(k.code)
        /\ "E0ESC" \notin shift
=============================================================================
