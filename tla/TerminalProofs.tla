-------------------------- MODULE TerminalProofs --------------------------
(***************************************************************************)
(* The keyboard, the screen and the line between them, for any keys, any   *)
(* screen, any line and however many scan codes wait to be polled.         *)
(*                                                                         *)
(* A modifier is on, or will be, because a key that sets it is down, or it *)
(* is turned off by a code that still waits: whether a code turns it on or *)
(* off depends on the code before, so the invariant is about all the codes *)
(* on the wire at once.                                                    *)
(*                                                                         *)
(* The screen shows a text if its cells before the cursor are the text.    *)
(* What one character does to that, with the scroll, gives what a string   *)
(* does; the line is then shown because each key that changes it changes   *)
(* the cells before the cursor alike.                                      *)
(***************************************************************************)
EXTENDS Terminal, SequenceTheorems, FiniteSetTheorems, WellFoundedInduction, TLAPS

-----------------------------------------------------------------------------
(* The codes on the wire *)

Codes == 0 .. 255
Mods  == {"SHIFT", "CTL", "ALT"}

\* The modifiers a key sets.
KeySets(k) == shiftcode(IF k.ext THEN k.code + 128 ELSE k.code)

\* The i-th of the codes w comes after an E0, when the flags are s.
Escaped(s, w, i) == IF i = 1 THEN "E0ESC" \in s ELSE w[i - 1] = E0

\* A modifier is on before the first code, or the i-th turns it on ...
TurnsOn(s, w, i, m) ==
    IF i = 0 THEN m \in s
    ELSE /\ w[i] # E0 /\ w[i] < 128
         /\ m \in shiftcode(IF Escaped(s, w, i) THEN w[i] + 128 ELSE w[i])

\* ... or off.
TurnsOff(s, w, i, m) ==
    /\ w[i] # E0 /\ w[i] >= 128
    /\ m \in shiftcode(IF Escaped(s, w, i) THEN w[i] ELSE w[i] - 128)

Down(H, m) == \E k \in H : m \in KeySets(k)

\* With the keys H down: no code waits for its second byte in vain, and what is
\* turned on is of a key that is down or is turned off later.
Accounted(s, w, H) ==
    /\ w \in Seq(Codes)
    /\ IF w = <<>> THEN "E0ESC" \notin s ELSE w[Len(w)] # E0
    /\ \A m \in Mods, i \in 0 .. Len(w) :
           TurnsOn(s, w, i, m) =>
               Down(H, m) \/ \E j \in i + 1 .. Len(w) : TurnsOff(s, w, j, m)

KeyboardInv ==
    /\ held \subseteq Modifiers
    /\ shift \subseteq Mods \cup {"CAPSLOCK", "NUMLOCK", "SCROLLLOCK", "E0ESC"}
    /\ Accounted(shift, wire, held)

-----------------------------------------------------------------------------
(* The keyboard *)

Event(ext, d) == (IF ext THEN <<E0>> ELSE <<>>) \o <<d>>

LEMMA EventCodes ==
    ASSUME NEW ext \in BOOLEAN, NEW d \in Codes
    PROVE  /\ Event(ext, d) \in Seq(Codes)
           /\ ext => /\ Len(Event(ext, d)) = 2
                     /\ Event(ext, d)[1] = E0 /\ Event(ext, d)[2] = d
           /\ ~ ext => Len(Event(ext, d)) = 1 /\ Event(ext, d)[1] = d
<1>1. E0 \in Codes
  BY DEF E0, Codes
<1> HIDE DEF E0, Codes
<1>2. /\ <<E0>> \in Seq(Codes) /\ Len(<<E0>>) = 1 /\ <<E0>>[1] = E0
      /\ <<d>> \in Seq(Codes) /\ Len(<<d>>) = 1 /\ <<d>>[1] = d
  BY <1>1
<1>3. CASE ext
  <2>1. Event(ext, d) = <<E0>> \o <<d>>
    BY <1>3 DEF Event
  <2>2. /\ <<E0>> \o <<d>> \in Seq(Codes) /\ Len(<<E0>> \o <<d>>) = 1 + 1
        /\ \A i \in 1 .. 1 + 1 :
               (<<E0>> \o <<d>>)[i] = IF i <= 1 THEN <<E0>>[i] ELSE <<d>>[i - 1]
    BY <1>2, ConcatProperties
  <2>3. (<<E0>> \o <<d>>)[1] = E0 /\ (<<E0>> \o <<d>>)[2] = d
    <3>1. 1 \in 1 .. 1 + 1 /\ 2 \in 1 .. 1 + 1 /\ 1 <= 1 /\ ~ (2 <= 1) /\ 2 - 1 = 1
      OBVIOUS
    <3>2. (<<E0>> \o <<d>>)[1] = <<E0>>[1] /\ (<<E0>> \o <<d>>)[2] = <<d>>[1]
      BY <2>2, <3>1
    <3> QED
      BY <1>2, <3>2
  <2>4. Len(<<E0>> \o <<d>>) = 2
    BY <2>2
  <2> QED
    BY <1>3, <2>1, <2>2, <2>3, <2>4
<1>4. CASE ~ ext
  <2>1. Event(ext, d) = <<>> \o <<d>>
    BY <1>4 DEF Event
  <2>2. Event(ext, d) = <<d>>
    BY <1>2, <2>1, ConcatEmptySeq
  <2> QED
    BY <1>2, <1>4, <2>2
<1> QED
  BY <1>3, <1>4

\* A code is sent, after E0 if it is of an extended key; a key whose modifier it
\* does not turn off has to be down still.
LEMMA Sent ==
    ASSUME NEW s, NEW w, NEW H, NEW K, Accounted(s, w, H),
           NEW ext \in BOOLEAN, NEW d \in Codes, d # E0,
           \A m \in Mods :
               d < 128 /\ m \in shiftcode(IF ext THEN d + 128 ELSE d) => Down(K, m),
           \A m \in Mods :
               Down(H, m) =>
                   \/ Down(K, m)
                   \/ d >= 128 /\ m \in shiftcode(IF ext THEN d ELSE d - 128)
    PROVE  Accounted(s, w \o Event(ext, d), K)
<1> DEFINE v == w \o Event(ext, d)
<1>0. PICK n \in Nat : n = Len(w)
  BY LenProperties DEF Accounted
<1>1. /\ w \in Seq(Codes)
      /\ IF w = <<>> THEN "E0ESC" \notin s ELSE w[n] # E0
      /\ w = <<>> <=> n = 0
      /\ \A m \in Mods, i \in 0 .. n :
             TurnsOn(s, w, i, m) =>
                 Down(H, m) \/ \E j \in i + 1 .. n : TurnsOff(s, w, j, m)
  BY <1>0, EmptySeq DEF Accounted
<1>2. PICK x \in {1, 2} : x = (IF ext THEN 2 ELSE 1) /\ x = Len(Event(ext, d))
  BY EventCodes
<1> DEFINE last == n + x
<1>3. /\ v \in Seq(Codes) /\ Len(v) = last
      /\ \A i \in 1 .. last :
             v[i] = IF i <= n THEN w[i] ELSE Event(ext, d)[i - n]
  BY <1>0, <1>1, <1>2, EventCodes, ConcatProperties
<1> HIDE DEF v
<1>4. v[last] = d /\ (ext => v[last - 1] = E0)
  <2>1. CASE ext
    <3>1. /\ n + 1 \in 1 .. last /\ n + 2 \in 1 .. last /\ ~ (n + 1 <= n)
          /\ ~ (n + 2 <= n) /\ (n + 1) - n = 1 /\ (n + 2) - n = 2
          /\ last = n + 2 /\ last - 1 = n + 1
      BY <1>2, <2>1
    <3>2. v[n + 1] = Event(ext, d)[1] /\ v[n + 2] = Event(ext, d)[2]
      BY <1>3, <3>1
    <3> HIDE DEF last
    <3> QED
      BY <2>1, <3>1, <3>2, EventCodes
  <2>2. CASE ~ ext
    <3>1. n + 1 \in 1 .. last /\ ~ (n + 1 <= n) /\ (n + 1) - n = 1 /\ last = n + 1
      BY <1>2, <2>2
    <3>2. v[n + 1] = Event(ext, d)[1]
      BY <1>3, <3>1
    <3> HIDE DEF last
    <3> QED
      BY <2>2, <3>1, <3>2, EventCodes
  <2> QED
    BY <2>1, <2>2
<1>5. /\ \A i \in 1 .. n : v[i] = w[i] /\ (Escaped(s, v, i) <=> Escaped(s, w, i))
      /\ Escaped(s, v, last) <=> ext
  <2>1. \A i \in 1 .. n : v[i] = w[i]
    BY <1>2, <1>3
  <2>2. ASSUME NEW i \in 1 .. n PROVE Escaped(s, v, i) <=> Escaped(s, w, i)
    <3>1. i = 1 \/ i - 1 \in 1 .. n
      OBVIOUS
    <3> QED
      BY <2>1, <3>1 DEF Escaped
  <2>3. CASE ext
    <3>1. last # 1
      BY <1>2, <2>3
    <3> HIDE DEF last
    <3> QED
      BY <1>4, <2>1, <2>2, <2>3, <3>1 DEF Escaped
  <2>4. CASE ~ ext /\ n = 0
    <3>1. last = 1
      BY <1>2, <2>4
    <3> QED
      BY <1>1, <2>1, <2>2, <2>4, <3>1 DEF Escaped
  <2>5. CASE ~ ext /\ n # 0
    <3>1. last # 1 /\ last - 1 = n /\ n \in 1 .. n
      BY <1>2, <2>5
    <3>2. v[last - 1] # E0
      BY <1>1, <2>1, <2>5, <3>1
    <3> HIDE DEF last
    <3> QED
      BY <2>1, <2>2, <2>5, <3>1, <3>2 DEF Escaped
  <2> QED
    BY <2>1, <2>2, <2>3, <2>4, <2>5
<1>6. v # <<>> /\ v[last] # E0
  BY <1>2, <1>3, <1>4, EmptySeq
<1>7. ASSUME NEW m \in Mods, NEW i \in 0 .. last, TurnsOn(s, v, i, m)
      PROVE  Down(K, m) \/ \E j \in i + 1 .. last : TurnsOff(s, v, j, m)
  <2>1. CASE i <= n
    <3>1. i \in 0 .. n
      BY <2>1
    <3>2. TurnsOn(s, w, i, m)
      BY <1>5, <1>7, <3>1 DEF TurnsOn
    <3>3. CASE \E j \in i + 1 .. n : TurnsOff(s, w, j, m)
      <4>1. PICK j \in i + 1 .. n : TurnsOff(s, w, j, m)
        BY <3>3
      <4>2. j \in 1 .. n /\ j \in i + 1 .. last
        BY <1>2, <3>1, <4>1
      <4>3. TurnsOff(s, v, j, m)
        BY <1>5, <4>1, <4>2 DEF TurnsOff
      <4> QED
        BY <4>2, <4>3
    <3>4. CASE Down(H, m)
      <4>1. CASE d >= 128 /\ m \in shiftcode(IF ext THEN d ELSE d - 128)
        <5>1. last \in i + 1 .. last
          BY <1>2, <3>1
        <5>2. TurnsOff(s, v, last, m)
          BY <1>4, <1>5, <4>1 DEF TurnsOff
        <5> QED
          BY <5>1, <5>2
      <4> QED
        BY <3>4, <4>1
    <3> QED
      BY <1>1, <3>1, <3>2, <3>3, <3>4
  <2>2. CASE i > n /\ i # last
    <3>1. ext /\ i = last - 1 /\ i # 0
      BY <1>2, <2>2
    <3>2. v[i] = E0
      BY <1>4, <3>1
    <3> QED
      BY <1>7, <3>1, <3>2 DEF TurnsOn
  <2>3. CASE i = last
    <3>1. d < 128 /\ m \in shiftcode(IF ext THEN d + 128 ELSE d)
      <4>1. last # 0
        BY <1>2
      <4> QED
        BY <1>4, <1>5, <1>7, <2>3, <4>1 DEF TurnsOn
    <3> QED
      BY <3>1
  <2> QED
    BY <2>1, <2>2, <2>3
<1>8. Accounted(s, v, K)
  BY <1>3, <1>6, <1>7 DEF Accounted
<1> QED
  BY <1>8 DEF v

LEMMA KeyFacts ==
    ASSUME NEW k \in Keys
    PROVE  /\ k.ext \in BOOLEAN /\ k.code \in Codes /\ k.code + 128 \in Codes
           /\ k.code # E0 /\ k.code + 128 # E0 /\ k.code < 128
           /\ (k.code + 128) - 128 = k.code
           /\ Make(k) = Event(k.ext, k.code) /\ Break(k) = Event(k.ext, k.code + 128)
BY KeyboardAssumption DEF Make, Break, Prefix, Event, E0, Codes

LEMMA MakeSent ==
    ASSUME NEW k \in Keys, NEW s, NEW w, NEW H, Accounted(s, w, H)
    PROVE  Accounted(s, w \o Make(k), H \cup {k})
<1>1. \A m \in Mods : m \in KeySets(k) => Down(H \cup {k}, m)
  BY DEF Down
<1>2. \A m \in Mods : Down(H, m) => Down(H \cup {k}, m)
  BY DEF Down
<1> QED
  BY <1>1, <1>2, KeyFacts, Sent DEF KeySets

LEMMA BreakSent ==
    ASSUME NEW k \in Keys, NEW s, NEW w, NEW H, NEW K, Accounted(s, w, H), H \subseteq K \cup {k}
    PROVE  Accounted(s, w \o Break(k), K)
<1>1. ASSUME NEW m \in Mods, Down(H, m)
      PROVE  Down(K, m) \/ m \in KeySets(k)
  BY <1>1 DEF Down
<1>2. k.code + 128 >= 128 /\ ~ (k.code + 128 < 128)
  BY KeyFacts DEF Codes
<1> QED
  BY <1>1, <1>2, KeyFacts, Sent DEF KeySets

LEMMA FakesSent ==
    ASSUME NEW s, NEW w, NEW H, Accounted(s, w, H)
    PROVE  Accounted(s, w \o FakeUp, H) /\ Accounted(s, w \o FakeDown, H)
<1>1. FakeUp = Event(TRUE, 170) /\ FakeDown = Event(TRUE, 42)
  BY DEF FakeUp, FakeDown, Event
<1>2. Accounted(s, w \o Event(TRUE, 170), H)
  <2>1. 170 \in Codes /\ 170 # E0 /\ ~ (170 < 128)
    BY DEF E0, Codes
  <2> QED
    BY <2>1, Sent
<1>3. Accounted(s, w \o Event(TRUE, 42), H)
  <2>1. PICK d \in Codes, ext \in BOOLEAN : d = 42 /\ ext = TRUE
    <3>1. 42 \in Codes /\ TRUE \in BOOLEAN
      BY DEF Codes
    <3> QED
      BY <3>1, Zenon
  <2>2. d # E0 /\ d + 128 = 170
    BY <2>1 DEF E0
  <2>3. \A m \in Mods : m \notin shiftcode(IF ext THEN d + 128 ELSE d)
    BY <2>1, <2>2 DEF shiftcode
  <2>4. Accounted(s, w \o Event(ext, d), H)
    BY <2>2, <2>3, Sent
  <2> QED
    BY <2>1, <2>4
<1> QED
  BY <1>1, <1>2, <1>3

Strings == Seq(Codes)

LEMMA Strung == \A a, b \in Strings : a \o b \in Strings
BY ConcatProperties DEF Strings

\* Codes sent one after the other are codes sent together.
LEMMA SentTogether ==
    ASSUME NEW s, NEW H, NEW w \in Strings, NEW a \in Strings, NEW b \in Strings,
           Accounted(s, (w \o a) \o b, H)
    PROVE  Accounted(s, w \o (a \o b), H)
<1>1. (w \o a) \o b = w \o (a \o b)
  BY ConcatAssociative DEF Strings
<1> QED
  BY <1>1

\* Striking a key, with the shift the keyboard pretends is up or without, leaves
\* no modifier on.
LEMMA StrikeSent ==
    ASSUME NEW k \in Keys, NEW s, NEW w, Accounted(s, w, held)
    PROVE  Accounted(s, w \o Strike(k), held)
<1>1. /\ w \in Strings /\ Make(k) \in Strings /\ Break(k) \in Strings
  BY KeyFacts, EventCodes DEF Accounted, Strings
<1>2. FakeUp \in Strings /\ FakeDown \in Strings
  BY DEF FakeUp, FakeDown, E0, Codes, Strings
<1>3. CASE k.ext /\ LeftShift \in held
  <2> DEFINE m == FakeUp \o Make(k)
             b == m \o Break(k)
  <2>1. m \in Strings /\ b \in Strings
    BY <1>1, <1>2, Strung
  <2>2. Accounted(s, (w \o FakeUp) \o Make(k), held \cup {k})
    BY FakesSent, MakeSent
  <2>3. Accounted(s, w \o m, held \cup {k})
    BY <1>1, <1>2, <2>2, SentTogether
  <2>4. Accounted(s, (w \o m) \o Break(k), held)
    BY <2>3, BreakSent
  <2>5. Accounted(s, w \o b, held)
    BY <1>1, <2>1, <2>4, SentTogether
  <2>6. Accounted(s, (w \o b) \o FakeDown, held)
    BY <2>5, FakesSent
  <2>7. Accounted(s, w \o (b \o FakeDown), held)
    BY <1>1, <1>2, <2>1, <2>6, SentTogether
  <2> QED
    BY <1>3, <2>7 DEF Strike
<1>4. CASE ~ (k.ext /\ LeftShift \in held)
  <2>1. Accounted(s, (w \o Make(k)) \o Break(k), held)
    BY MakeSent, BreakSent
  <2>2. Accounted(s, w \o (Make(k) \o Break(k)), held)
    BY <1>1, <2>1, SentTogether
  <2> QED
    BY <1>4, <2>2 DEF Strike
<1> QED
  BY <1>3, <1>4
-----------------------------------------------------------------------------
(* kbd_proc_data() *)

\* The flags after a code, those of the modifiers and the E0 apart.
LEMMA AfterCode ==
    ASSUME NEW d \in Codes, NEW w, w[1] = d,
           shift \subseteq Mods \cup {"CAPSLOCK", "NUMLOCK", "SCROLLLOCK", "E0ESC"}
    PROVE  /\ ShiftAfter(d) \subseteq
                  Mods \cup {"CAPSLOCK", "NUMLOCK", "SCROLLLOCK", "E0ESC"}
           /\ "E0ESC" \in ShiftAfter(d) <=> d = E0
           /\ \A m \in Mods : m \in ShiftAfter(d) =>
                  \/ m \in shift /\ ~ TurnsOff(shift, w, 1, m)
                  \/ TurnsOn(shift, w, 1, m)
<1>1. \A x : shiftcode(x) \subseteq Mods
  BY DEF shiftcode, Mods
<1>2. \A x : togglecode(x) \subseteq {"CAPSLOCK", "NUMLOCK", "SCROLLLOCK"}
  BY DEF togglecode
<1>3. Escaped(shift, w, 1) <=> "E0ESC" \in shift
  BY DEF Escaped
<1>4. d \in Nat /\ d < 256
  BY DEF Codes
<1>5. CASE d = E0
  <2>1. ShiftAfter(d) = shift \cup {"E0ESC"}
    BY <1>5 DEF ShiftAfter
  <2>2. \A m \in Mods : ~ TurnsOff(shift, w, 1, m)
    BY <1>5 DEF TurnsOff
  <2> QED
    BY <1>5, <2>1, <2>2 DEF Mods
<1>6. CASE d # E0 /\ d >= 128
  <2>1. ShiftAfter(d) =
            shift \ (shiftcode(IF Escaped(shift, w, 1) THEN d ELSE d - 128) \cup {"E0ESC"})
    BY <1>3, <1>6 DEF ShiftAfter
  <2>2. \A m \in Mods : m \in ShiftAfter(d) => ~ TurnsOff(shift, w, 1, m)
    BY <2>1 DEF TurnsOff
  <2> QED
    BY <1>6, <2>1, <2>2 DEF Mods
<1>7. CASE d # E0 /\ ~ (d >= 128)
  <2> DEFINE x == IF Escaped(shift, w, 1) THEN d + 128 ELSE d
  <2>1. ShiftAfter(d) = Toggle((shift \ {"E0ESC"}) \cup shiftcode(x), togglecode(x))
    BY <1>3, <1>7 DEF ShiftAfter
  <2>2. d < 128
    BY <1>4, <1>7
  <2>3. \A m \in Mods : m \in shiftcode(x) => TurnsOn(shift, w, 1, m)
    BY <1>7, <2>2 DEF TurnsOn
  <2>4. \A m \in Mods : ~ TurnsOff(shift, w, 1, m)
    BY <1>7 DEF TurnsOff
  <2> HIDE DEF x
  <2>5. /\ shiftcode(x) \subseteq Mods
        /\ togglecode(x) \subseteq {"CAPSLOCK", "NUMLOCK", "SCROLLLOCK"}
    BY <1>1, <1>2
  <2>6. \A y : y \in ShiftAfter(d) =>
            \/ y \in shift /\ y # "E0ESC"
            \/ y \in shiftcode(x)
            \/ y \in togglecode(x)
    BY <2>1 DEF Toggle
  <2>7. "E0ESC" \notin Mods /\ \A m \in Mods : m \notin togglecode(x)
    BY <2>5 DEF Mods
  <2>8. "E0ESC" \notin ShiftAfter(d)
    BY <2>5, <2>6, <2>7
  <2> QED
    BY <1>7, <2>3, <2>4, <2>5, <2>6, <2>7, <2>8
<1> QED
  BY <1>5, <1>6, <1>7

LEMMA Polled ==
    ASSUME KeyboardInv, wire # <<>>, wire' = Tail(wire),
           shift' = ShiftAfter(Head(wire)), held' = held
    PROVE  KeyboardInv'
<1> DEFINE t == Tail(wire)
           f == ShiftAfter(Head(wire))
<1>1. PICK n \in Nat : n = Len(wire)
  BY LenProperties DEF KeyboardInv, Accounted
<1>2. /\ held \subseteq Modifiers /\ wire \in Seq(Codes) /\ n > 0
      /\ shift \subseteq Mods \cup {"CAPSLOCK", "NUMLOCK", "SCROLLLOCK", "E0ESC"}
      /\ wire[n] # E0
      /\ \A m \in Mods, i \in 0 .. n :
             TurnsOn(shift, wire, i, m) =>
                 Down(held, m) \/ \E j \in i + 1 .. n : TurnsOff(shift, wire, j, m)
  BY <1>1, EmptySeq DEF KeyboardInv, Accounted
<1>3. /\ Head(wire) \in Codes /\ Head(wire) = wire[1]
      /\ t \in Seq(Codes) /\ Len(t) = n - 1 /\ \A i \in 1 .. n - 1 : t[i] = wire[i + 1]
  BY <1>1, <1>2, HeadTailProperties
<1>4. /\ f \subseteq Mods \cup {"CAPSLOCK", "NUMLOCK", "SCROLLLOCK", "E0ESC"}
      /\ "E0ESC" \in f <=> wire[1] = E0
      /\ \A m \in Mods : m \in f =>
             \/ m \in shift /\ ~ TurnsOff(shift, wire, 1, m)
             \/ TurnsOn(shift, wire, 1, m)
  BY <1>2, <1>3, AfterCode
<1> HIDE DEF t, f
<1>5. \A i \in 1 .. n - 1 : Escaped(f, t, i) <=> Escaped(shift, wire, i + 1)
  <2> SUFFICES ASSUME NEW i \in 1 .. n - 1
               PROVE  Escaped(f, t, i) <=> Escaped(shift, wire, i + 1)
    OBVIOUS
  <2>1. i + 1 # 1 /\ (i + 1) - 1 = i
    OBVIOUS
  <2>2. CASE i = 1
    BY <1>4, <2>1, <2>2 DEF Escaped
  <2>3. CASE i # 1
    <3>1. i - 1 \in 1 .. n - 1 /\ (i - 1) + 1 = i
      BY <2>3
    <3>2. t[i - 1] = wire[i]
      BY <1>3, <3>1
    <3> QED
      BY <2>1, <2>3, <3>2 DEF Escaped
  <2> QED
    BY <2>2, <2>3
<1>6. \A i \in 1 .. n - 1, m \in Mods :
          /\ TurnsOff(f, t, i, m) <=> TurnsOff(shift, wire, i + 1, m)
          /\ TurnsOn(f, t, i, m) <=> TurnsOn(shift, wire, i + 1, m)
  <2> SUFFICES ASSUME NEW i \in 1 .. n - 1, NEW m \in Mods
               PROVE  /\ TurnsOff(f, t, i, m) <=> TurnsOff(shift, wire, i + 1, m)
                      /\ TurnsOn(f, t, i, m) <=> TurnsOn(shift, wire, i + 1, m)
    OBVIOUS
  <2>1. t[i] = wire[i + 1] /\ i # 0 /\ i + 1 # 0
    BY <1>3
  <2> QED
    BY <1>5, <2>1 DEF TurnsOff, TurnsOn
<1>7. \A m \in Mods, i \in 1 .. n : \A j \in i + 1 .. n :
          TurnsOff(shift, wire, j, m) =>
              \E x \in (i - 1) + 1 .. n - 1 : TurnsOff(f, t, x, m)
  <2> SUFFICES ASSUME NEW m \in Mods, NEW i \in 1 .. n, NEW j \in i + 1 .. n,
                      TurnsOff(shift, wire, j, m)
               PROVE  \E x \in (i - 1) + 1 .. n - 1 : TurnsOff(f, t, x, m)
    OBVIOUS
  <2>1. j - 1 \in (i - 1) + 1 .. n - 1 /\ j - 1 \in 1 .. n - 1 /\ (j - 1) + 1 = j
    OBVIOUS
  <2>2. TurnsOff(f, t, j - 1, m)
    BY <1>6, <2>1
  <2> QED
    BY <2>1, <2>2
<1>8. ASSUME NEW m \in Mods, NEW i \in 0 .. n - 1, TurnsOn(f, t, i, m)
      PROVE  Down(held, m) \/ \E x \in i + 1 .. n - 1 : TurnsOff(f, t, x, m)
  <2>1. CASE i # 0 \/ TurnsOn(shift, wire, 1, m)
    <3>1. i + 1 \in 0 .. n /\ i + 1 \in 1 .. n /\ (i + 1) - 1 = i
      OBVIOUS
    <3>2. TurnsOn(shift, wire, i + 1, m)
      <4>1. CASE i = 0
        BY <2>1, <4>1
      <4>2. CASE i # 0
        <5>1. i \in 1 .. n - 1
          BY <4>2
        <5> QED
          BY <1>6, <1>8, <5>1
      <4> QED
        BY <4>1, <4>2
    <3>3. Down(held, m) \/ \E j \in (i + 1) + 1 .. n : TurnsOff(shift, wire, j, m)
      BY <1>2, <3>1, <3>2
    <3> QED
      BY <1>7, <3>1, <3>3
  <2>2. CASE i = 0 /\ ~ TurnsOn(shift, wire, 1, m)
    <3>1. m \in shift /\ ~ TurnsOff(shift, wire, 1, m)
      BY <1>4, <1>8, <2>2 DEF TurnsOn
    <3>2. TurnsOn(shift, wire, 0, m) /\ 0 \in 0 .. n
      BY <3>1 DEF TurnsOn
    <3>3. Down(held, m) \/ \E j \in 0 + 1 .. n : TurnsOff(shift, wire, j, m)
      BY <1>2, <3>2
    <3>4. ASSUME NEW j \in 0 + 1 .. n, TurnsOff(shift, wire, j, m)
          PROVE  \E x \in i + 1 .. n - 1 : TurnsOff(f, t, x, m)
      <4>1. j # 1
        BY <3>1, <3>4
      <4>2. j - 1 \in i + 1 .. n - 1 /\ j - 1 \in 1 .. n - 1 /\ (j - 1) + 1 = j
        BY <2>2, <4>1
      <4>3. TurnsOff(f, t, j - 1, m)
        BY <1>6, <3>4, <4>2
      <4> QED
        BY <4>2, <4>3
    <3> QED
      BY <3>3, <3>4
  <2> QED
    BY <2>1, <2>2
<1>9. IF t = <<>> THEN "E0ESC" \notin f ELSE t[Len(t)] # E0
  <2>1. CASE t = <<>>
    <3>1. n = 1
      BY <1>2, <1>3, <2>1, EmptySeq
    <3> QED
      BY <1>2, <1>4, <2>1, <3>1
  <2>2. CASE t # <<>>
    <3>1. n - 1 \in 1 .. n - 1 /\ (n - 1) + 1 = n
      BY <1>2, <1>3, <2>2, EmptySeq
    <3> QED
      BY <1>2, <1>3, <2>2, <3>1
  <2> QED
    BY <2>1, <2>2
<1>10. Accounted(f, t, held)
  BY <1>3, <1>8, <1>9 DEF Accounted
<1> QED
  BY <1>2, <1>4, <1>10 DEF KeyboardInv, f, t

LEMMA KeyboardStep == KeyboardInv /\ [Next]_vars => KeyboardInv'
<1> SUFFICES ASSUME KeyboardInv, [Next]_vars PROVE KeyboardInv'
  OBVIOUS
<1>0. /\ held \subseteq Modifiers
      /\ shift \subseteq Mods \cup {"CAPSLOCK", "NUMLOCK", "SCROLLLOCK", "E0ESC"}
      /\ Accounted(shift, wire, held)
  BY DEF KeyboardInv
<1>1. ASSUME NEW k \in Modifiers, Press(k) PROVE KeyboardInv'
  <2>1. Accounted(shift, wire \o Make(k), held \cup {k})
    BY <1>0, MakeSent DEF Keys
  <2> QED
    BY <1>0, <1>1, <2>1 DEF Press, KeyboardInv
<1>2. ASSUME NEW k \in Modifiers, Release(k) PROVE KeyboardInv'
  <2>1. Accounted(shift, wire \o Break(k), held \ {k})
    BY <1>0, BreakSent DEF Keys
  <2> QED
    BY <1>0, <1>2, <2>1 DEF Release, KeyboardInv
<1>3. ASSUME NEW k \in Others, Hit(k) PROVE KeyboardInv'
  <2>1. Accounted(shift, wire \o Strike(k), held)
    BY <1>0, StrikeSent DEF Keys
  <2> QED
    BY <1>0, <1>3, <2>1 DEF Hit, KeyboardInv
<1>4. CASE PollKbd
  BY <1>4, Polled DEF PollKbd
<1>5. CASE UNCHANGED keyboard
  BY <1>0, <1>5 DEF keyboard, KeyboardInv
<1> QED
  BY <1>1, <1>2, <1>3, <1>4, <1>5
     DEF Next, User, ReadChar, Parse, RunCmd, vars, keyboard

LEMMA KeyboardInitially == Init => KeyboardInv
<1> SUFFICES ASSUME Init PROVE KeyboardInv
  OBVIOUS
<1>1. held = {} /\ wire = <<>> /\ shift = {}
  BY DEF Init, KeyboardInit
<1>2. Accounted({}, <<>>, {})
  <2>1. <<>> \in Seq(Codes) /\ Len(<<>>) = 0
    BY EmptySeq
  <2>2. \A m \in Mods, i \in 0 .. 0 : ~ TurnsOn({}, <<>>, i, m)
    BY DEF TurnsOn
  <2> QED
    BY <2>1, <2>2 DEF Accounted
<1> QED
  BY <1>1, <1>2 DEF KeyboardInv

\* Once all codes are polled a modifier is on only while one of its keys is down,
\* and no E0 waits: whatever keys there are, however many codes wait before they
\* are polled, and wherever between two keys, or two bytes of one, they are.
THEOREM ModifiersHeldAlways == Spec => []ModifiersHeld
<1>1. Init => KeyboardInv
  BY KeyboardInitially
<1>2. KeyboardInv /\ [Next]_vars => KeyboardInv'
  BY KeyboardStep
<1>3. KeyboardInv => ModifiersHeld
  <2> SUFFICES ASSUME KeyboardInv, wire = <<>>
               PROVE  /\ \A m \in shift \cap {"SHIFT", "CTL", "ALT"} :
                             \E k \in held : m \in shiftcode(k.code)
                      /\ "E0ESC" \notin shift
    BY DEF ModifiersHeld
  <2>1. held \subseteq Modifiers /\ Accounted(shift, <<>>, held) /\ Len(<<>>) = 0
    BY EmptySeq DEF KeyboardInv
  <2>2. ASSUME NEW m \in shift \cap Mods
        PROVE  \E k \in held : m \in shiftcode(k.code)
    <3>1. TurnsOn(shift, <<>>, 0, m)
      BY DEF TurnsOn
    <3>2. Down(held, m) \/ \E j \in 0 + 1 .. 0 : TurnsOff(shift, <<>>, j, m)
      BY <2>1, <3>1 DEF Accounted
    <3>3. PICK k \in held : m \in KeySets(k)
      BY <3>2 DEF Down
    <3>4. k.code \in 1 .. 127 /\ k.ext \in BOOLEAN
      BY <2>1, <3>3, KeyboardAssumption DEF Keys
    <3>5. shiftcode(k.code + 128) \subseteq shiftcode(k.code)
      <4>1. PICK c \in 1 .. 127 : c = k.code
        BY <3>4
      <4>2. CASE c = 29
        <5>1. c + 128 = 157
          BY <4>2
        <5>2. shiftcode(157) = {"CTL"} /\ shiftcode(29) = {"CTL"}
          BY DEF shiftcode
        <5> QED
          BY <4>1, <4>2, <5>1, <5>2
      <4>3. CASE c = 56
        <5>1. c + 128 = 184
          BY <4>3
        <5>2. shiftcode(184) = {"ALT"} /\ shiftcode(56) = {"ALT"}
          BY DEF shiftcode
        <5> QED
          BY <4>1, <4>3, <5>1, <5>2
      <4>4. CASE c # 29 /\ c # 56
        <5>1. c + 128 \notin {29, 42, 54, 56, 157, 184}
          BY <4>4
        <5>2. shiftcode(c + 128) = {}
          BY <5>1 DEF shiftcode
        <5> QED
          BY <5>2, <4>1
      <4> QED
        BY <4>1, <4>2, <4>3, <4>4
    <3> QED
      BY <3>3, <3>4, <3>5 DEF KeySets
  <2> QED
    BY <2>1, <2>2 DEF Mods, Accounted
<1> QED
  BY <1>1, <1>2, <1>3, PTL DEF Spec
-----------------------------------------------------------------------------
\* Induction up to a number.
LEMMA AllUpTo ==
    ASSUME NEW n \in Nat, NEW S, 0 \in S,
           \A k \in 0 .. n - 1 : k \in S => k + 1 \in S
    PROVE  0 .. n \subseteq S
<1> DEFINE T == {k \in 0 .. n : k \notin S}
<1>1. SUFFICES ASSUME T # {} PROVE FALSE
  OBVIOUS
<1>2. T \subseteq Nat
  OBVIOUS
<1>3. PICK k \in T : \A j \in T : ~ (<<j, k>> \in OpToRel(<, Nat))
  BY <1>1, <1>2, NatLessThanWellFounded, WFMin
<1>4. k \in 0 .. n /\ k \notin S /\ k # 0
  BY <1>3
<1>5. k - 1 \in 0 .. n - 1 /\ k - 1 \in Nat /\ k \in Nat /\ k - 1 < k
  BY <1>4
<1>6. k - 1 \in T
  BY <1>4, <1>5
<1> QED
  BY <1>3, <1>5, <1>6 DEF OpToRel

\* What put[] is.
Puts(f, s, str) ==
    f = [n \in 0 .. Len(str) |-> IF n = 0 THEN s ELSE cga_putc(f[n - 1], str[n])]

LEMMA PutsExists ==
    ASSUME NEW s, NEW str, Len(str) \in Nat
    PROVE  \E f : Puts(f, s, str)
<1> DEFINE F(f, m) == f = [n \in 0 .. m |-> IF n = 0 THEN s ELSE cga_putc(f[n - 1], str[n])]
           S == {m \in Nat : \E f : F(f, m)}
<1>1. 0 \in S
  <2>1. F([n \in 0 .. 0 |-> s], 0)
    OBVIOUS
  <2> QED
    BY <2>1
<1>2. ASSUME NEW m \in Nat, m \in S
      PROVE  m + 1 \in S
  <2>1. PICK f : F(f, m)
    BY <1>2
  <2> DEFINE g == [n \in 0 .. m + 1 |-> IF n <= m THEN f[n] ELSE cga_putc(f[m], str[m + 1])]
  <2>2. ASSUME NEW n \in 0 .. m + 1
        PROVE  g[n] = IF n = 0 THEN s ELSE cga_putc(g[n - 1], str[n])
    <3>1. CASE n = 0
      BY <2>1, <3>1
    <3>2. CASE n \in 1 .. m
      <4>1. n \in 0 .. m /\ n # 0 /\ n - 1 \in 0 .. m /\ n - 1 <= m /\ n - 1 \in 0 .. m + 1
        BY <3>2
      <4>2. f[n] = cga_putc(f[n - 1], str[n])
        BY <2>1, <4>1
      <4> QED
        BY <4>1, <4>2
    <3>3. CASE n = m + 1
      <4>1. m \in 0 .. m + 1 /\ ~ (m + 1 <= m) /\ m + 1 # 0 /\ (m + 1) - 1 = m
        OBVIOUS
      <4> QED
        BY <3>3, <4>1
    <3> QED
      BY <3>1, <3>2, <3>3
  <2>3. F(g, m + 1)
    BY <2>2
  <2> HIDE DEF g
  <2> QED
    BY <2>3
<1>3. Len(str) \in S
  BY <1>1, <1>2, AllUpTo
<1> QED
  BY <1>3 DEF Puts

LEMMA PutStringPuts ==
    ASSUME NEW s, NEW str, Len(str) \in Nat
    PROVE  \E f : Puts(f, s, str) /\ PutString(s, str) = f[Len(str)]
<1> DEFINE p == CHOOSE f : Puts(f, s, str)
<1>1. Puts(p, s, str)
  BY PutsExists
<1>2. PutString(s, str) = p[Len(str)]
  BY DEF PutString, Puts
<1> QED
  BY <1>1, <1>2

-----------------------------------------------------------------------------
(* memmove() and the scroll *)

LEMMA ScreenSizes ==
    /\ CRT_COLS \in Nat /\ CRT_COLS > 0
    /\ CRT_SIZE \in Nat /\ CRT_COLS <= CRT_SIZE
<1>1. CRT_COLS \in Nat /\ CRT_COLS >= 1 /\ CRT_ROWS \in Nat /\ CRT_ROWS >= 1
  BY ScreenAssumption
<1>2. CRT_COLS * CRT_ROWS = CRT_COLS * (CRT_ROWS - 1) + CRT_COLS
  BY <1>1
<1>3. CRT_COLS * (CRT_ROWS - 1) >= 0 /\ CRT_COLS * CRT_ROWS \in Nat
  BY <1>1
<1> QED
  BY <1>1, <1>2, <1>3 DEF CRT_SIZE

\* memmove() of the part of b from c on to its beginning, byte after byte.
Copies(f, b, c, n) ==
    f = [k \in 0 .. n |->
            IF k = 0 THEN b ELSE [f[k - 1] EXCEPT ![k - 1] = f[k - 1][c + (k - 1)]]]

LEMMA CopiesExists ==
    ASSUME NEW b, NEW c, NEW n \in Nat
    PROVE  \E f : Copies(f, b, c, n)
<1> DEFINE S == {m \in Nat : \E f : Copies(f, b, c, m)}
<1>1. 0 \in S
  <2>1. Copies([k \in 0 .. 0 |-> b], b, c, 0)
    BY DEF Copies
  <2> QED
    BY <2>1
<1>2. ASSUME NEW m \in Nat, m \in S
      PROVE  m + 1 \in S
  <2>1. PICK f : Copies(f, b, c, m)
    BY <1>2
  <2> DEFINE g == [k \in 0 .. m + 1 |->
                      IF k <= m THEN f[k] ELSE [f[m] EXCEPT ![m] = f[m][c + m]]]
  <2>2. ASSUME NEW k \in 0 .. m + 1
        PROVE  g[k] = IF k = 0 THEN b
                      ELSE [g[k - 1] EXCEPT ![k - 1] = g[k - 1][c + (k - 1)]]
    <3>1. CASE k = 0
      BY <2>1, <3>1 DEF Copies
    <3>2. CASE k \in 1 .. m
      <4>1. /\ k \in 0 .. m /\ k # 0 /\ k <= m
            /\ k - 1 \in 0 .. m + 1 /\ k - 1 <= m
        BY <3>2
      <4>2. f[k] = [f[k - 1] EXCEPT ![k - 1] = f[k - 1][c + (k - 1)]]
        BY <2>1, <4>1 DEF Copies
      <4>3. g[k] = f[k] /\ g[k - 1] = f[k - 1]
        BY <4>1
      <4> HIDE DEF g
      <4> QED
        BY <4>1, <4>2, <4>3
    <3>3. CASE k = m + 1
      <4>1. /\ m \in 0 .. m + 1 /\ m + 1 \in 0 .. m + 1 /\ ~ (m + 1 <= m) /\ m <= m
            /\ m + 1 # 0 /\ (m + 1) - 1 = m
        OBVIOUS
      <4>2. g[m + 1] = [f[m] EXCEPT ![m] = f[m][c + m]] /\ g[m] = f[m]
        BY <4>1
      <4> HIDE DEF g
      <4> QED
        BY <3>3, <4>1, <4>2
    <3> QED
      BY <3>1, <3>2, <3>3
  <2>3. Copies(g, b, c, m + 1)
    BY <2>2 DEF Copies
  <2> HIDE DEF g
  <2> QED
    BY <2>3
<1> HIDE DEF S
<1>3. n \in S
  <2>1. 0 .. n \subseteq S
    BY <1>1, <1>2, AllUpTo
  <2> QED
    BY <2>1
<1> USE DEF S
<1> QED
  BY <1>3

IsBuf(b) == b = [i \in Cells |-> b[i]]

\* A byte is read before it is written over: to the beginning is from the front.
LEMMA MovesDown ==
    ASSUME NEW b, IsBuf(b), NEW c \in Nat, c > 0, c <= CRT_SIZE
    PROVE  \A j \in 0 .. CRT_SIZE - c - 1 : memmove(b, 0, c, CRT_SIZE - c)[j] = b[j + c]
<1> DEFINE n == CRT_SIZE - c
<1>1. n \in Nat /\ CRT_SIZE \in Nat
  BY ScreenSizes
<1>2. ~ (c < 0)
  OBVIOUS
<1> DEFINE p == CHOOSE f : Copies(f, b, c, n)
<1>3. Copies(p, b, c, n)
  BY <1>1, CopiesExists
<1>4. memmove(b, 0, c, n) = p[n]
  <2> DEFINE q == CHOOSE f : f = [k \in 0 .. n |->
              IF k = 0 THEN b ELSE [f[k - 1] EXCEPT ![0 + (k - 1)] = f[k - 1][c + (k - 1)]]]
  <2>1. memmove(b, 0, c, n) = q[n]
    BY <1>2 DEF memmove
  <2>2. \A k \in 0 .. n : 0 + (k - 1) = k - 1
    BY <1>1
  <2>3. q = p
    BY <2>2 DEF Copies
  <2> QED
    BY <2>1, <2>3
<1> DEFINE S == {k \in 0 .. n :
                    p[k] = [j \in Cells |-> IF j < k THEN b[j + c] ELSE b[j]]}
<1> HIDE DEF p
<1>5. 0 \in S
  <2>1. p[0] = b /\ 0 \in 0 .. n
    BY <1>1, <1>3 DEF Copies
  <2>2. \A j \in Cells : ~ (j < 0)
    BY <1>1 DEF Cells
  <2>3. b = [j \in Cells |-> IF j < 0 THEN b[j + c] ELSE b[j]]
    BY <2>2 DEF IsBuf
  <2> QED
    BY <2>1, <2>3
<1>6. ASSUME NEW k \in 0 .. n - 1, k \in S
      PROVE  k + 1 \in S
  <2>1. k + 1 \in 0 .. n /\ k + 1 # 0 /\ (k + 1) - 1 = k /\ k \in Nat
    BY <1>1
  <2>2. p[k + 1] = [p[k] EXCEPT ![k] = p[k][c + k]]
    BY <1>3, <2>1 DEF Copies
  <2>3. p[k] = [j \in Cells |-> IF j < k THEN b[j + c] ELSE b[j]]
    BY <1>6
  <2>4. c + k \in Cells /\ ~ (c + k < k) /\ c + k = k + c
    BY <1>1, <2>1 DEF Cells
  <2>5. p[k][c + k] = b[k + c]
    BY <2>3, <2>4
  <2>6. p[k + 1] = [j \in Cells |-> IF j = k THEN b[k + c] ELSE p[k][j]]
    BY <2>2, <2>3, <2>5
  <2>7. ASSUME NEW j \in Cells
        PROVE  (IF j = k THEN b[k + c] ELSE p[k][j]) = (IF j < k + 1 THEN b[j + c] ELSE b[j])
    <3>1. j \in Nat
      BY <1>1 DEF Cells
    <3>2. p[k][j] = IF j < k THEN b[j + c] ELSE b[j]
      BY <2>3
    <3>3. CASE j = k
      BY <2>1, <3>3
    <3>4. CASE j # k
      <4>1. j < k + 1 <=> j < k
        BY <2>1, <3>1, <3>4
      <4> QED
        BY <3>2, <3>4, <4>1
    <3> QED
      BY <3>3, <3>4
  <2>8. p[k + 1] = [j \in Cells |-> IF j < k + 1 THEN b[j + c] ELSE b[j]]
    BY <2>6, <2>7
  <2> QED
    BY <2>1, <2>8
<1>7. n \in S
  <2> HIDE DEF S, n
  <2>1. 0 .. n \subseteq S
    BY <1>1, <1>5, <1>6, AllUpTo
  <2> QED
    BY <1>1, <2>1
<1>8. p[n] = [j \in Cells |-> IF j < n THEN b[j + c] ELSE b[j]]
  BY <1>7
<1>9. \A j \in 0 .. n - 1 : j \in Cells /\ j < n
  BY <1>1 DEF Cells
<1> QED
  BY <1>4, <1>8, <1>9
-----------------------------------------------------------------------------
(* cga_putc() *)

Picture(b, p) == [buf |-> b, pos |-> p]

IsScreen(s) == \E b, p : IsBuf(b) /\ p \in Cells /\ s = Picture(b, p)

Shows(s, str) ==
    /\ Len(str) <= s.pos
    /\ \A i \in 1 .. Len(str) : s.buf[s.pos - Len(str) + i - 1] = str[i]

\* What the screen shows moves up with the cursor.
LEMMA ScrollKeeps ==
    ASSUME NEW b, IsBuf(b), NEW p \in 0 .. CRT_SIZE + CRT_COLS - 1
    PROVE  /\ IsScreen(Scroll(Picture(b, p)))
           /\ \A str : ( /\ Len(str) \in Nat /\ Len(str) <= CRT_SIZE - CRT_COLS
                         /\ p <= CRT_SIZE /\ Shows(Picture(b, p), str) )
                       => Shows(Scroll(Picture(b, p)), str)
<1>1. /\ CRT_COLS \in Nat /\ CRT_COLS > 0 /\ CRT_SIZE \in Nat /\ CRT_COLS <= CRT_SIZE
      /\ p \in Nat
  BY ScreenSizes
<1>2. CASE p < CRT_SIZE
  <2>1. Scroll(Picture(b, p)) = Picture(b, p)
    BY <1>2 DEF Scroll, Picture
  <2>2. p \in Cells
    BY <1>1, <1>2 DEF Cells
  <2>3. IsScreen(Picture(b, p))
    BY <2>2 DEF IsScreen
  <2> QED
    BY <2>1, <2>3
<1>3. CASE ~ (p < CRT_SIZE)
  <2> DEFINE d == [i \in Cells |->
              IF i < CRT_SIZE - CRT_COLS THEN memmove(b, 0, CRT_COLS, CRT_SIZE - CRT_COLS)[i]
                                         ELSE SPACE]
  <2>1. Scroll(Picture(b, p)) = Picture(d, p - CRT_COLS)
    BY <1>3 DEF Scroll, Picture
  <2>2. IsBuf(d)
    BY DEF IsBuf
  <2>3. p - CRT_COLS \in Cells
    BY <1>1, <1>3 DEF Cells
  <2>4. \A i \in 0 .. CRT_SIZE - CRT_COLS - 1 : d[i] = b[i + CRT_COLS]
    <3>1. \A i \in 0 .. CRT_SIZE - CRT_COLS - 1 : i \in Cells /\ i < CRT_SIZE - CRT_COLS
      BY <1>1 DEF Cells
    <3>2. \A i \in 0 .. CRT_SIZE - CRT_COLS - 1 :
              memmove(b, 0, CRT_COLS, CRT_SIZE - CRT_COLS)[i] = b[i + CRT_COLS]
      BY <1>1, MovesDown
    <3> QED
      BY <3>1, <3>2
  <2> HIDE DEF d
  <2>5. IsScreen(Picture(d, p - CRT_COLS))
    BY <2>2, <2>3 DEF IsScreen
  <2>6. ASSUME NEW str, Len(str) \in Nat, Len(str) <= CRT_SIZE - CRT_COLS,
               p <= CRT_SIZE, Shows(Picture(b, p), str)
        PROVE  Shows(Picture(d, p - CRT_COLS), str)
    <3>1. PICK l \in Nat : l = Len(str)
      BY <2>6
    <3>2. p = CRT_SIZE /\ l <= CRT_SIZE - CRT_COLS /\ l <= p - CRT_COLS
      BY <1>1, <1>3, <2>6, <3>1
    <3>3. ASSUME NEW i \in 1 .. l
          PROVE  d[(p - CRT_COLS) - l + i - 1] = str[i]
      <4>1. b[p - l + i - 1] = str[i]
        BY <2>6, <3>1 DEF Shows, Picture
      <4>2. /\ (p - CRT_COLS) - l + i - 1 \in 0 .. CRT_SIZE - CRT_COLS - 1
            /\ ((p - CRT_COLS) - l + i - 1) + CRT_COLS = p - l + i - 1
        BY <1>1, <3>1, <3>2
      <4> QED
        BY <2>4, <4>1, <4>2
    <3> QED
      BY <3>1, <3>2, <3>3 DEF Shows, Picture
  <2> QED
    BY <2>1, <2>5, <2>6
<1> QED
  BY <1>2, <1>3

LEMMA LineStartBound ==
    ASSUME NEW n \in Nat
    PROVE  LineStart(n) \in Nat /\ LineStart(n) <= n
<1>1. CRT_COLS \in Nat /\ CRT_COLS > 0
  BY ScreenSizes
<1>2. n % CRT_COLS \in 0 .. CRT_COLS - 1 /\ n = CRT_COLS * (n \div CRT_COLS) + (n % CRT_COLS)
  BY <1>1
<1>3. n \div CRT_COLS \in Nat
  BY <1>1
<1>4. CRT_COLS * (n \div CRT_COLS) \in Nat
  BY <1>1, <1>3
<1>5. PICK r \in 0 .. CRT_COLS - 1 : r = n % CRT_COLS
  BY <1>2
<1>6. PICK q \in Nat : q = CRT_COLS * (n \div CRT_COLS)
  BY <1>4
<1>7. n = q + r
  BY <1>2, <1>5, <1>6
<1>8. LineStart(n) = n - r
  BY <1>5 DEF LineStart
<1> QED
  BY <1>1, <1>5, <1>6, <1>7, <1>8

\* What one character does before the scroll.
Struck(s, c) ==
    CASE c = BACKSPACE -> IF s.pos = 0 THEN s
                          ELSE [buf |-> [s.buf EXCEPT ![s.pos - 1] = SPACE],
                                pos |-> s.pos - 1]
      [] c = NEWLINE   -> [s EXCEPT !.pos = LineStart(@ + CRT_COLS)]
      [] c = RETURN    -> [s EXCEPT !.pos = LineStart(@)]
      [] OTHER         -> [buf |-> [s.buf EXCEPT ![s.pos] = c],
                           pos |-> s.pos + 1]

LEMMA PutCharStruck ==
    ASSUME NEW s, NEW c
    PROVE  PutChar(s, c) = Scroll(Struck(s, c))
BY DEF PutChar, Struck

\* A character keeps the cursor on the screen, wherever it was.
LEMMA PutCharType ==
    ASSUME NEW s, IsScreen(s), NEW c
    PROVE  IsScreen(PutChar(s, c))
<1>1. PICK b, p : IsBuf(b) /\ p \in Cells /\ s = Picture(b, p)
  BY DEF IsScreen
<1>2. /\ CRT_COLS \in Nat /\ CRT_COLS > 0 /\ CRT_SIZE \in Nat /\ CRT_COLS <= CRT_SIZE
      /\ p \in Nat /\ p < CRT_SIZE
  BY <1>1, ScreenSizes DEF Cells
<1>3. \E d : \E q \in 0 .. CRT_SIZE + CRT_COLS - 1 :
          IsBuf(d) /\ Struck(s, c) = Picture(d, q)
  <2>1. CASE c = BACKSPACE
    <3>1. CASE p = 0
      <4>1. Struck(s, c) = Picture(b, p)
        BY <1>1, <2>1, <3>1, CharactersAssumption DEF Struck, Picture
      <4> QED
        BY <1>1, <1>2, <4>1
    <3>2. CASE p # 0
      <4>1. Struck(s, c) = Picture([b EXCEPT ![p - 1] = SPACE], p - 1)
        BY <1>1, <2>1, <3>2, CharactersAssumption DEF Struck, Picture
      <4>2. IsBuf([b EXCEPT ![p - 1] = SPACE])
        BY <1>1 DEF IsBuf
      <4>3. p - 1 \in 0 .. CRT_SIZE + CRT_COLS - 1
        BY <1>2, <3>2
      <4> QED
        BY <4>1, <4>2, <4>3
    <3> QED
      BY <3>1, <3>2
  <2>2. CASE c = NEWLINE
    <3>1. Struck(s, c) = Picture(b, LineStart(p + CRT_COLS))
      BY <1>1, <2>2, CharactersAssumption DEF Struck, Picture
    <3>2. LineStart(p + CRT_COLS) \in 0 .. CRT_SIZE + CRT_COLS - 1
      BY <1>2, LineStartBound
    <3> QED
      BY <1>1, <3>1, <3>2
  <2>3. CASE c = RETURN /\ c # NEWLINE
    <3>1. Struck(s, c) = Picture(b, LineStart(p))
      BY <1>1, <2>3, CharactersAssumption DEF Struck, Picture
    <3>2. LineStart(p) \in 0 .. CRT_SIZE + CRT_COLS - 1
      BY <1>2, LineStartBound
    <3> QED
      BY <1>1, <3>1, <3>2
  <2>4. CASE c \notin {BACKSPACE, NEWLINE, RETURN}
    <3>1. Struck(s, c) = Picture([b EXCEPT ![p] = c], p + 1)
      BY <1>1, <2>4 DEF Struck, Picture
    <3>2. IsBuf([b EXCEPT ![p] = c])
      BY <1>1 DEF IsBuf
    <3>3. p + 1 \in 0 .. CRT_SIZE + CRT_COLS - 1
      BY <1>2
    <3> QED
      BY <3>1, <3>2, <3>3
  <2> QED
    BY <2>1, <2>2, <2>3, <2>4
<1> QED
  BY <1>3, ScrollKeeps, PutCharStruck
\* A character is shown behind what was shown.
LEMMA PutCharAppends ==
    ASSUME NEW s, IsScreen(s), NEW c, c \notin {BACKSPACE, NEWLINE, RETURN},
           NEW C, NEW str \in Seq(C), Shows(s, str), Len(str) + 1 <= CRT_SIZE - CRT_COLS
    PROVE  Shows(PutChar(s, c), Append(str, c))
<1>1. PICK b, p : IsBuf(b) /\ p \in Cells /\ s = Picture(b, p)
  BY DEF IsScreen
<1>2. /\ CRT_COLS \in Nat /\ CRT_COLS > 0 /\ CRT_SIZE \in Nat /\ CRT_COLS <= CRT_SIZE
      /\ p \in Nat /\ p < CRT_SIZE
  BY <1>1, ScreenSizes DEF Cells
<1> DEFINE d == [b EXCEPT ![p] = c]
<1>3. Struck(s, c) = Picture(d, p + 1)
  BY <1>1 DEF Struck, Picture
<1>4. IsBuf(d)
  BY <1>1 DEF IsBuf
<1>5. p + 1 \in 0 .. CRT_SIZE + CRT_COLS - 1 /\ p + 1 <= CRT_SIZE
  BY <1>2
<1>6. d[p] = c /\ \A i \in Cells : i # p => d[i] = b[i]
  BY <1>1 DEF IsBuf
<1> HIDE DEF d
<1>7. PICK l \in Nat : l = Len(str)
  OBVIOUS
<1>8. /\ Len(Append(str, c)) = l + 1
      /\ \A i \in 1 .. l : Append(str, c)[i] = str[i]
      /\ Append(str, c)[l + 1] = c
  <2>1. str \in Seq(C \cup {c}) /\ c \in C \cup {c}
    BY <1>7
  <2> QED
    BY <1>7, <2>1, AppendProperties
<1>9. Shows(Picture(d, p + 1), Append(str, c))
  <2>1. l <= p /\ \A i \in 1 .. l : b[p - l + i - 1] = str[i]
    BY <1>1, <1>7 DEF Shows, Picture
  <2>2. ASSUME NEW i \in 1 .. l + 1
        PROVE  d[(p + 1) - (l + 1) + i - 1] = Append(str, c)[i]
    <3>1. CASE i = l + 1
      <4>1. (p + 1) - (l + 1) + i - 1 = p
        BY <1>2, <1>7, <3>1
      <4> QED
        BY <1>6, <1>8, <3>1, <4>1
    <3>2. CASE i # l + 1
      <4>1. /\ i \in 1 .. l /\ (p + 1) - (l + 1) + i - 1 = p - l + i - 1
            /\ p - l + i - 1 \in 0 .. CRT_SIZE - 1 /\ p - l + i - 1 # p
        BY <1>2, <1>7, <2>1, <3>2
      <4>2. d[p - l + i - 1] = b[p - l + i - 1]
        BY <1>6, <4>1 DEF Cells
      <4> QED
        BY <1>8, <2>1, <4>1, <4>2
    <3> QED
      BY <3>1, <3>2
  <2>3. l + 1 <= p + 1
    BY <1>2, <1>7, <2>1
  <2> QED
    BY <1>8, <2>2, <2>3 DEF Shows, Picture
<1>10. Len(Append(str, c)) \in Nat /\ Len(Append(str, c)) <= CRT_SIZE - CRT_COLS
  BY <1>7, <1>8
<1>11. Shows(Scroll(Picture(d, p + 1)), Append(str, c))
  BY <1>4, <1>5, <1>9, <1>10, ScrollKeeps
<1> QED
  BY <1>3, <1>11, PutCharStruck

\* A backspace takes the last character off the screen.
LEMMA PutCharErases ==
    ASSUME NEW s, IsScreen(s), NEW C, NEW str \in Seq(C), NEW c \in C,
           Shows(s, Append(str, c)), Len(str) <= CRT_SIZE - CRT_COLS
    PROVE  Shows(PutChar(s, BACKSPACE), str)
<1>1. PICK b, p : IsBuf(b) /\ p \in Cells /\ s = Picture(b, p)
  BY DEF IsScreen
<1>2. /\ CRT_COLS \in Nat /\ CRT_COLS > 0 /\ CRT_SIZE \in Nat /\ CRT_COLS <= CRT_SIZE
      /\ p \in Nat /\ p < CRT_SIZE
  BY <1>1, ScreenSizes DEF Cells
<1>3. PICK l \in Nat : l = Len(str)
  OBVIOUS
<1>4. /\ Len(Append(str, c)) = l + 1
      /\ \A i \in 1 .. l : Append(str, c)[i] = str[i]
  BY <1>3, AppendProperties
<1>5. /\ l + 1 <= p
      /\ \A i \in 1 .. l + 1 : b[p - (l + 1) + i - 1] = Append(str, c)[i]
  BY <1>1, <1>4 DEF Shows, Picture
<1> DEFINE d == [b EXCEPT ![p - 1] = SPACE]
<1>6. p # 0
  BY <1>3, <1>5, <1>2
<1>7. Struck(s, BACKSPACE) = Picture(d, p - 1)
  BY <1>1, <1>6, CharactersAssumption DEF Struck, Picture
<1>8. IsBuf(d) /\ \A i \in Cells : i # p - 1 => d[i] = b[i]
  BY <1>1 DEF IsBuf
<1> HIDE DEF d
<1>9. ASSUME NEW i \in 1 .. l
      PROVE  d[(p - 1) - l + i - 1] = str[i]
  <2>1. /\ (p - 1) - l + i - 1 = p - (l + 1) + i - 1 /\ i \in 1 .. l + 1
        /\ p - (l + 1) + i - 1 \in 0 .. CRT_SIZE - 1 /\ p - (l + 1) + i - 1 # p - 1
    BY <1>2, <1>3, <1>5
  <2>2. d[p - (l + 1) + i - 1] = b[p - (l + 1) + i - 1]
    BY <1>8, <2>1 DEF Cells
  <2> QED
    BY <1>4, <1>5, <2>1, <2>2
<1>10. Shows(Picture(d, p - 1), str)
  <2>1. l <= p - 1
    BY <1>2, <1>3, <1>5
  <2> QED
    BY <1>3, <1>9, <2>1 DEF Shows, Picture
<1>11. p - 1 \in 0 .. CRT_SIZE + CRT_COLS - 1 /\ p - 1 <= CRT_SIZE
  BY <1>2, <1>6
<1>12. Shows(Scroll(Picture(d, p - 1)), str)
  BY <1>3, <1>8, <1>10, <1>11, ScrollKeeps
<1> QED
  BY <1>7, <1>12, PutCharStruck

LEMMA CgaPutcType ==
    ASSUME NEW s, IsScreen(s), NEW c
    PROVE  IsScreen(cga_putc(s, c))
<1>1. \A t : IsScreen(t) => IsScreen(PutSpace(t))
  BY PutCharType DEF PutSpace
<1> QED
  BY <1>1, PutCharType DEF cga_putc

\* Whatever is printed, the cursor stays on the screen.
LEMMA PutStringType ==
    ASSUME NEW s, IsScreen(s), NEW str, Len(str) \in Nat
    PROVE  IsScreen(PutString(s, str))
<1>1. PICK f : Puts(f, s, str) /\ PutString(s, str) = f[Len(str)]
  BY PutStringPuts
<1>2. PICK l \in Nat : l = Len(str)
  OBVIOUS
<1> DEFINE S == {n \in 0 .. l : IsScreen(f[n])}
<1>3. 0 \in S
  BY <1>1, <1>2 DEF Puts
<1>4. ASSUME NEW n \in 0 .. l - 1, n \in S
      PROVE  n + 1 \in S
  <2>1. n + 1 \in 0 .. l /\ n + 1 # 0 /\ (n + 1) - 1 = n
    BY <1>2
  <2>2. f[n + 1] = cga_putc(f[n], str[n + 1])
    BY <1>1, <1>2, <2>1 DEF Puts
  <2>3. IsScreen(f[n])
    BY <1>4
  <2> QED
    BY <2>1, <2>2, <2>3, CgaPutcType
<1> HIDE DEF S
<1>5. 0 .. l \subseteq S
  BY <1>3, <1>4, AllUpTo
<1> QED
  BY <1>1, <1>2, <1>5 DEF S

LEMMA PutOne ==
    ASSUME NEW s, NEW c
    PROVE  PutString(s, <<c>>) = cga_putc(s, c)
<1>1. Len(<<c>>) = 1 /\ <<c>>[1] = c
  OBVIOUS
<1>2. PICK f : Puts(f, s, <<c>>) /\ PutString(s, <<c>>) = f[Len(<<c>>)]
  BY <1>1, PutStringPuts
<1>3. 0 \in 0 .. 1 /\ 1 \in 0 .. 1 /\ 1 - 1 = 0
  OBVIOUS
<1>4. f[0] = s /\ f[1] = cga_putc(f[0], <<c>>[1])
  BY <1>1, <1>2, <1>3 DEF Puts
<1> QED
  BY <1>1, <1>2, <1>4

\* Of a string the screen shows the end that has no control characters.
LEMMA PutStringShows ==
    ASSUME NEW s, IsScreen(s), NEW C, NEW u \in Seq(C), NEW v \in Seq(C),
           \A i \in 1 .. Len(v) : v[i] \notin {BACKSPACE, NEWLINE, RETURN, TAB},
           Len(v) <= CRT_SIZE - CRT_COLS
    PROVE  Shows(PutString(s, u \o v), v)
<1>1. /\ Len(u \o v) = Len(u) + Len(v) /\ Len(u) \in Nat /\ Len(v) \in Nat
      /\ \A i \in 1 .. Len(v) : (u \o v)[Len(u) + i] = v[i]
  BY ConcatProperties
<1>2. PICK f : Puts(f, s, u \o v) /\ PutString(s, u \o v) = f[Len(u \o v)]
  <2>1. Len(u \o v) \in Nat
    BY <1>1
  <2> QED
    BY <2>1, PutStringPuts
<1>3. PICK k, l \in Nat : k = Len(u) /\ l = Len(v)
  BY <1>1
<1>4. CRT_COLS \in Nat /\ CRT_SIZE \in Nat /\ l <= CRT_SIZE - CRT_COLS
  BY <1>3, ScreenSizes
<1> DEFINE At(n) == SubSeq(v, 1, n)
           S == {n \in 0 .. l : IsScreen(f[k + n]) /\ Shows(f[k + n], At(n))}
           T == {n \in 0 .. k + l : IsScreen(f[n])}
<1>5. \A n \in 0 .. l : At(n) \in Seq(C) /\ Len(At(n)) = n
  BY <1>3, SubSeqProperties
<1>6. \A n \in 0 .. l - 1 : At(n + 1) = Append(At(n), v[n + 1])
  <2> SUFFICES ASSUME NEW n \in 0 .. l - 1
               PROVE  At(n + 1) = Append(At(n), v[n + 1])
    OBVIOUS
  <2>1. n + 1 \in 0 .. l /\ n \in 0 .. l /\ n \in Nat /\ n + 1 \in 1 .. l
    BY <1>3
  <2>2. v[n + 1] \in C
    BY <1>3, <2>1, ElementOfSeq
  <2>3. /\ Len(Append(At(n), v[n + 1])) = n + 1 /\ Append(At(n), v[n + 1]) \in Seq(C)
        /\ \A i \in 1 .. n : Append(At(n), v[n + 1])[i] = At(n)[i]
        /\ Append(At(n), v[n + 1])[n + 1] = v[n + 1]
    <3> HIDE DEF At
    <3> QED
      BY <1>5, <2>1, <2>2, AppendProperties
  <2>4. /\ \A i \in 1 .. n : At(n)[i] = v[i]
        /\ \A i \in 1 .. n + 1 : At(n + 1)[i] = v[i]
    BY <1>3, <2>1, SubSeqProperties
  <2>5. ASSUME NEW i \in 1 .. n + 1
        PROVE  At(n + 1)[i] = Append(At(n), v[n + 1])[i]
    <3> HIDE DEF At
    <3> QED
      BY <2>1, <2>3, <2>4
  <2> HIDE DEF At
  <2> QED
    BY <1>5, <2>1, <2>3, <2>5, SeqEqual
<1> HIDE DEF At
<1>7. ASSUME NEW n \in 0 .. k + l - 1
      PROVE  /\ n + 1 \in 0 .. k + l
             /\ f[n + 1] = cga_putc(f[n], (u \o v)[n + 1])
  <2>1. n + 1 \in 0 .. k + l /\ n + 1 # 0 /\ (n + 1) - 1 = n
    BY <1>3
  <2> QED
    BY <1>1, <1>2, <1>3, <2>1 DEF Puts
<1>8. 0 .. k + l \subseteq T
  <2>1. 0 \in T
    BY <1>1, <1>2, <1>3 DEF Puts
  <2>2. ASSUME NEW n \in 0 .. k + l - 1, n \in T
        PROVE  n + 1 \in T
    BY <1>7, <2>2, CgaPutcType
  <2> HIDE DEF T
  <2>3. PICK m \in Nat : m = k + l
    BY <1>3
  <2>4. \A n \in 0 .. m - 1 : n \in T => n + 1 \in T
    BY <2>2, <2>3
  <2>5. 0 .. m \subseteq T
    BY <2>1, <2>3, <2>4, AllUpTo
  <2> QED
    BY <2>3, <2>5
<1>9. \A n \in 0 .. k + l : IsScreen(f[n])
  BY <1>8
<1>10. 0 \in S
  <2>1. k + 0 = k /\ k \in 0 .. k + l /\ 0 \in 0 .. l
    BY <1>3
  <2>2. PICK b, p : p \in Cells /\ f[k] = Picture(b, p)
    BY <1>9, <2>1 DEF IsScreen
  <2>3. p \in Nat
    BY <2>2, ScreenSizes DEF Cells
  <2>4. Len(At(0)) = 0 /\ 1 .. 0 = {}
    BY <1>5, <2>1
  <2>5. Shows(f[k], At(0))
    BY <2>2, <2>3, <2>4 DEF Shows, Picture
  <2> QED
    BY <1>9, <2>1, <2>5
<1>11. ASSUME NEW n \in 0 .. l - 1, n \in S
       PROVE  n + 1 \in S
  <2>1. /\ n + 1 \in 0 .. l /\ n + 1 \in 1 .. l /\ n \in 0 .. l /\ n \in Nat
        /\ k + n \in 0 .. k + l - 1 /\ k + (n + 1) = (k + n) + 1
        /\ k + (n + 1) \in 0 .. k + l
    BY <1>3
  <2>2. (u \o v)[(k + n) + 1] = v[n + 1]
    BY <1>1, <1>3, <2>1
  <2>3. v[n + 1] \notin {BACKSPACE, NEWLINE, RETURN, TAB}
    BY <1>3, <2>1
  <2>4. f[k + (n + 1)] = PutChar(f[k + n], v[n + 1])
    BY <1>7, <2>1, <2>2, <2>3 DEF cga_putc
  <2>5. Len(At(n)) + 1 <= CRT_SIZE - CRT_COLS /\ At(n) \in Seq(C)
    <3>1. n + 1 <= CRT_SIZE - CRT_COLS
      BY <1>3, <1>4, <2>1
    <3> QED
      BY <1>5, <2>1, <3>1
  <2>6. Shows(PutChar(f[k + n], v[n + 1]), Append(At(n), v[n + 1]))
    BY <1>11, <2>3, <2>5, PutCharAppends
  <2> QED
    BY <1>6, <1>9, <2>1, <2>4, <2>6
<1>12. l \in S
  <2> HIDE DEF S
  <2>1. 0 .. l \subseteq S
    BY <1>10, <1>11, AllUpTo
  <2> QED
    BY <2>1
<1>13. At(l) = v
  <2>1. \A i \in 1 .. l : At(l)[i] = v[i]
    BY <1>3, SubSeqProperties DEF At
  <2>2. At(l) \in Seq(C) /\ Len(At(l)) = l
    BY <1>5
  <2> QED
    BY <1>3, <2>1, <2>2, SeqEqual
<1> QED
  BY <1>1, <1>2, <1>3, <1>12, <1>13
-----------------------------------------------------------------------------
(* runcmd()'s parsing *)

\* The buffer when the first k characters have been looked at ...
Blanked(b, k) ==
    /\ b \in Seq(Printable \cup {NUL}) /\ Len(b) = Len(text) + 1
    /\ \A j \in 1 .. Len(text) :
           b[j] = IF j <= k /\ text[j] = SPACE THEN NUL ELSE text[j]
    /\ b[Len(text) + 1] = NUL

\* ... and where the arguments found in them start.
Started(st, k) ==
    /\ st \in Seq(1 .. Len(text))
    /\ \A a, b \in 1 .. Len(st) : a < b => st[a] < st[b]
    /\ \A i \in 1 .. Len(text) :
           i \in WordStarts(text) /\ i <= k <=> \E a \in 1 .. Len(st) : st[a] = i

LEMMA TextFacts ==
    ASSUME text \in Seq(Printable)
    PROVE  /\ Len(text) \in Nat /\ DOMAIN text = 1 .. Len(text)
           /\ \A j \in 1 .. Len(text) : text[j] \in Printable /\ text[j] # NUL
           /\ SPACE # NUL
<1>1. Len(text) \in Nat /\ DOMAIN text = 1 .. Len(text)
  BY LenProperties
<1>2. \A j \in 1 .. Len(text) : text[j] \in Printable
  BY ElementOfSeq
<1>3. NUL \notin Printable /\ SPACE \in Printable
  BY CharactersAssumption DEF Printable
<1> QED
  BY <1>1, <1>2, <1>3

LEMMA AppendStart ==
    ASSUME text \in Seq(Printable), NEW k \in 0 .. Len(text) - 1,
           NEW st, Started(st, k), k + 1 \in WordStarts(text)
    PROVE  Started(Append(st, k + 1), k + 1)
<1>1. PICK l \in Nat : l = Len(text)
  BY TextFacts
<1>2. k + 1 \in 1 .. l /\ k \in Nat
  BY <1>1
<1>3. PICK n \in Nat : n = Len(st)
  BY LenProperties DEF Started
<1>4. /\ Append(st, k + 1) \in Seq(1 .. l) /\ Len(Append(st, k + 1)) = n + 1
      /\ \A i \in 1 .. n : Append(st, k + 1)[i] = st[i]
      /\ Append(st, k + 1)[n + 1] = k + 1
  <2>1. st \in Seq(1 .. l)
    BY <1>1 DEF Started
  <2> QED
    BY <1>2, <1>3, <2>1, AppendProperties
<1> DEFINE t == Append(st, k + 1)
<1> HIDE DEF t
<1>5. \A a \in 1 .. n : st[a] \in 1 .. l /\ st[a] <= k
  BY <1>1, <1>3, ElementOfSeq DEF Started
<1>6. ASSUME NEW a \in 1 .. n + 1, NEW b \in 1 .. n + 1, a < b
      PROVE  t[a] < t[b]
  <2>1. a \in 1 .. n
    BY <1>3, <1>6
  <2>2. CASE b = n + 1
    <3>1. t[a] = st[a] /\ t[b] = k + 1
      BY <1>4, <2>1, <2>2 DEF t
    <3>2. st[a] \in 1 .. l /\ st[a] <= k
      BY <1>5, <2>1
    <3> QED
      BY <1>2, <3>1, <3>2
  <2>3. CASE b # n + 1
    <3>1. b \in 1 .. n
      BY <1>3, <2>3
    <3>2. st[a] < st[b]
      BY <1>3, <1>6, <2>1, <3>1 DEF Started
    <3> QED
      BY <1>4, <2>1, <3>1, <3>2 DEF t
  <2> QED
    BY <2>2, <2>3
<1>7. ASSUME NEW i \in 1 .. l
      PROVE  i \in WordStarts(text) /\ i <= k + 1 <=> \E a \in 1 .. n + 1 : t[a] = i
  <2>1. i \in WordStarts(text) /\ i <= k <=> \E a \in 1 .. n : st[a] = i
    BY <1>1, <1>3 DEF Started
  <2>2. (\E a \in 1 .. n + 1 : t[a] = i) <=> (i = k + 1 \/ \E a \in 1 .. n : st[a] = i)
    <3>1. \A a \in 1 .. n : a \in 1 .. n + 1 /\ t[a] = st[a]
      BY <1>3, <1>4 DEF t
    <3>2. n + 1 \in 1 .. n + 1 /\ t[n + 1] = k + 1
      BY <1>3, <1>4 DEF t
    <3>3. \A a \in 1 .. n + 1 : a = n + 1 \/ a \in 1 .. n
      BY <1>3
    <3> QED
      BY <3>1, <3>2, <3>3
  <2>3. i <= k + 1 <=> (i <= k \/ i = k + 1)
    BY <1>1, <1>2
  <2> QED
    BY <2>1, <2>2, <2>3
<1>8. t \in Seq(1 .. l) /\ Len(t) = n + 1
  BY <1>4 DEF t
<1>9. Started(t, k + 1)
  BY <1>1, <1>6, <1>7, <1>8 DEF Started
<1> QED
  BY <1>9 DEF t

LEMMA NoStart ==
    ASSUME text \in Seq(Printable), NEW k \in 0 .. Len(text) - 1,
           NEW st, Started(st, k), k + 1 \notin WordStarts(text)
    PROVE  Started(st, k + 1)
<1>1. PICK l \in Nat : l = Len(text)
  BY TextFacts
<1>2. ASSUME NEW i \in 1 .. l
      PROVE  i \in WordStarts(text) /\ i <= k + 1 <=> i \in WordStarts(text) /\ i <= k
  BY <1>1
<1> QED
  BY <1>1, <1>2 DEF Started

\* An iteration of the loop keeps both.
LEMMA ParsedStep ==
    ASSUME text \in Seq(Printable), NEW k \in 0 .. Len(text) - 1,
           NEW b, NEW st, Blanked(b, k), Started(st, k)
    PROVE  \E c, t : /\ Parsed([buf |-> b, starts |-> st], k + 1) = [buf |-> c, starts |-> t]
                     /\ Blanked(c, k + 1) /\ Started(t, k + 1)
<1>1. PICK l \in Nat : l = Len(text)
  BY TextFacts
<1>2. k + 1 \in 1 .. l /\ k \in Nat /\ k < l
  BY <1>1
<1>3. \A j \in 1 .. l : text[j] \in Printable /\ text[j] # NUL
  BY <1>1, TextFacts
<1>4. \A j \in 1 .. l : b[j] = IF j <= k /\ text[j] = SPACE THEN NUL ELSE text[j]
  BY <1>1 DEF Blanked
<1>5. k + 1 \in WordStarts(text) <=>
          text[k + 1] # SPACE /\ (k + 1 = 1 \/ text[(k + 1) - 1] = SPACE)
  BY <1>1, <1>2, TextFacts DEF WordStarts
<1>6. CASE text[k + 1] = SPACE
  <2> DEFINE c == [b EXCEPT ![k + 1] = NUL]
  <2>1. Parsed([buf |-> b, starts |-> st], k + 1) = [buf |-> c, starts |-> st]
    BY <1>6 DEF Parsed, White
  <2>2. /\ c \in Seq(Printable \cup {NUL}) /\ Len(c) = l + 1
        /\ \A j \in 1 .. l + 1 : c[j] = IF j = k + 1 THEN NUL ELSE b[j]
    <3>1. b \in Seq(Printable \cup {NUL}) /\ Len(b) = l + 1 /\ k + 1 \in 1 .. l + 1
      BY <1>1, <1>2 DEF Blanked
    <3> QED
      BY <3>1, ExceptSeq
  <2> HIDE DEF c
  <2>3. ASSUME NEW j \in 1 .. l
        PROVE  c[j] = IF j <= k + 1 /\ text[j] = SPACE THEN NUL ELSE text[j]
    <3>1. j \in 1 .. l + 1 /\ j \in Nat
      BY <1>1
    <3>2. CASE j = k + 1
      BY <1>2, <1>6, <2>2, <3>1, <3>2
    <3>3. CASE j # k + 1
      <4>1. j <= k + 1 <=> j <= k
        BY <1>2, <3>1, <3>3
      <4> QED
        BY <1>4, <2>2, <3>1, <3>3, <4>1
    <3> QED
      BY <3>2, <3>3
  <2>4. c[l + 1] = NUL
    <3>1. l + 1 \in 1 .. l + 1 /\ l + 1 # k + 1
      BY <1>1, <1>2
    <3> QED
      BY <1>1, <2>2, <3>1 DEF Blanked
  <2>5. Blanked(c, k + 1)
    BY <1>1, <2>2, <2>3, <2>4 DEF Blanked
  <2> QED
    BY <1>5, <1>6, <2>1, <2>5, NoStart
<1>7. CASE text[k + 1] # SPACE
  <2>1. Blanked(b, k + 1)
    <3>1. ASSUME NEW j \in 1 .. l
          PROVE  b[j] = IF j <= k + 1 /\ text[j] = SPACE THEN NUL ELSE text[j]
      <4>1. CASE j = k + 1
        BY <1>4, <1>7, <4>1
      <4>2. CASE j # k + 1
        <5>1. j <= k + 1 <=> j <= k
          BY <1>1, <1>2, <4>2
        <5> QED
          BY <1>4, <5>1
      <4> QED
        BY <4>1, <4>2
    <3> QED
      BY <1>1, <3>1 DEF Blanked
  <2>2. CASE k + 1 > 1 /\ b[(k + 1) - 1] # NUL
    <3>1. Parsed([buf |-> b, starts |-> st], k + 1) = [buf |-> b, starts |-> st]
      BY <1>7, <2>2 DEF Parsed, White
    <3>2. k + 1 \notin WordStarts(text)
      <4>1. (k + 1) - 1 = k /\ k \in 1 .. l /\ k <= k /\ k + 1 # 1
        BY <1>1, <1>2, <2>2
      <4>2. text[k] # SPACE
        BY <1>4, <2>2, <4>1
      <4> QED
        BY <1>5, <4>1, <4>2
    <3> QED
      BY <2>1, <3>1, <3>2, NoStart
  <2>3. CASE ~ (k + 1 > 1 /\ b[(k + 1) - 1] # NUL)
    <3>1. Parsed([buf |-> b, starts |-> st], k + 1)
              = [buf |-> b, starts |-> Append(st, k + 1)]
      BY <1>7, <2>3 DEF Parsed, White
    <3>2. k + 1 \in WordStarts(text)
      <4>1. CASE k = 0
        BY <1>5, <1>7, <4>1
      <4>2. CASE k # 0
        <5>1. k + 1 > 1 /\ (k + 1) - 1 = k /\ k \in 1 .. l /\ k <= k
          BY <1>1, <1>2, <4>2
        <5>2. b[k] = NUL
          BY <2>3, <5>1
        <5>3. text[k] = SPACE
          BY <1>3, <1>4, <5>1, <5>2
        <5> QED
          BY <1>5, <1>7, <5>1, <5>3
      <4> QED
        BY <4>1, <4>2
    <3> QED
      BY <2>1, <3>1, <3>2, AppendStart
  <2> QED
    BY <2>2, <2>3
<1> QED
  BY <1>6, <1>7
\* What parsed[] is.
Parses(f) ==
    f = [i \in 0 .. Len(text) |->
            IF i = 0 THEN [buf |-> Append(text, NUL), starts |-> <<>>]
            ELSE Parsed(f[i - 1], i)]

LEMMA ParsesExists ==
    ASSUME Len(text) \in Nat
    PROVE  \E f : Parses(f)
<1> DEFINE B == [buf |-> Append(text, NUL), starts |-> <<>>]
           F(f, m) == f = [i \in 0 .. m |-> IF i = 0 THEN B ELSE Parsed(f[i - 1], i)]
           S == {m \in Nat : \E f : F(f, m)}
<1> HIDE DEF B
<1>1. 0 \in S
  <2>1. F([i \in 0 .. 0 |-> B], 0)
    OBVIOUS
  <2> QED
    BY <2>1
<1>2. ASSUME NEW m \in Nat, m \in S
      PROVE  m + 1 \in S
  <2>1. PICK f : F(f, m)
    BY <1>2
  <2> DEFINE g == [i \in 0 .. m + 1 |-> IF i <= m THEN f[i] ELSE Parsed(f[m], m + 1)]
  <2>2. ASSUME NEW i \in 0 .. m + 1
        PROVE  g[i] = IF i = 0 THEN B ELSE Parsed(g[i - 1], i)
    <3>1. CASE i = 0
      BY <2>1, <3>1
    <3>2. CASE i \in 1 .. m
      <4>1. i \in 0 .. m /\ i # 0 /\ i - 1 \in 0 .. m /\ i - 1 <= m /\ i - 1 \in 0 .. m + 1
        BY <3>2
      <4>2. f[i] = Parsed(f[i - 1], i)
        BY <2>1, <4>1
      <4> QED
        BY <4>1, <4>2
    <3>3. CASE i = m + 1
      <4>1. m \in 0 .. m + 1 /\ ~ (m + 1 <= m) /\ m + 1 # 0 /\ (m + 1) - 1 = m
        OBVIOUS
      <4> QED
        BY <3>3, <4>1
    <3> QED
      BY <3>1, <3>2, <3>3
  <2>3. F(g, m + 1)
    BY <2>2
  <2> HIDE DEF g
  <2> QED
    BY <2>3
<1> HIDE DEF S
<1>3. Len(text) \in S
  <2>1. 0 .. Len(text) \subseteq S
    BY <1>1, <1>2, AllUpTo
  <2> QED
    BY <2>1
<1> QED
  BY <1>3 DEF S, B, Parses

\* After the loop all white space is blanked and all arguments are found.
LEMMA ParsedLineIs ==
    ASSUME text \in Seq(Printable)
    PROVE  \E b, st : /\ ParsedLine = [buf |-> b, starts |-> st]
                      /\ Blanked(b, Len(text)) /\ Started(st, Len(text))
<1>1. PICK l \in Nat : l = Len(text)
  BY TextFacts
<1> DEFINE p == CHOOSE f : Parses(f)
<1>2. Parses(p)
  BY <1>1, ParsesExists
<1>3. ParsedLine = p[l]
  BY <1>1 DEF ParsedLine, Parses
<1> HIDE DEF p
<1> DEFINE S == {k \in 0 .. l :
              \E b, st : /\ p[k] = [buf |-> b, starts |-> st]
                         /\ Blanked(b, k) /\ Started(st, k)}
<1>4. 0 \in S
  <2>1. p[0] = [buf |-> Append(text, NUL), starts |-> <<>>]
    BY <1>1, <1>2 DEF Parses
  <2>2. Blanked(Append(text, NUL), 0)
    <3>1. text \in Seq(Printable \cup {NUL}) /\ NUL \in Printable \cup {NUL}
      BY SeqMonotonic
    <3>2. /\ Append(text, NUL) \in Seq(Printable \cup {NUL})
          /\ Len(Append(text, NUL)) = l + 1
          /\ \A j \in 1 .. l : Append(text, NUL)[j] = text[j]
          /\ Append(text, NUL)[l + 1] = NUL
      BY <1>1, <3>1, AppendProperties
    <3>3. \A j \in 1 .. l : ~ (j <= 0)
      OBVIOUS
    <3> QED
      BY <1>1, <3>2, <3>3 DEF Blanked
  <2>3. Started(<<>>, 0)
    <3>1. <<>> \in Seq(1 .. l) /\ Len(<<>>) = 0 /\ 1 .. 0 = {}
      BY EmptySeq
    <3>2. \A i \in 1 .. l : ~ (i <= 0)
      OBVIOUS
    <3> QED
      BY <1>1, <3>1, <3>2 DEF Started
  <2>4. 0 \in 0 .. l
    OBVIOUS
  <2> QED
    BY <2>1, <2>2, <2>3, <2>4
<1>5. ASSUME NEW k \in 0 .. l - 1, k \in S
      PROVE  k + 1 \in S
  <2>1. PICK b, st : p[k] = [buf |-> b, starts |-> st] /\ Blanked(b, k) /\ Started(st, k)
    BY <1>5
  <2>2. k + 1 \in 0 .. l /\ k + 1 # 0 /\ (k + 1) - 1 = k /\ k \in 0 .. Len(text) - 1
    BY <1>1
  <2>3. p[k + 1] = Parsed(p[k], k + 1)
    BY <1>1, <1>2, <2>2 DEF Parses
  <2>4. PICK c, t : /\ Parsed(p[k], k + 1) = [buf |-> c, starts |-> t]
                    /\ Blanked(c, k + 1) /\ Started(t, k + 1)
    <3>1. \E c, t : /\ Parsed([buf |-> b, starts |-> st], k + 1) = [buf |-> c, starts |-> t]
                    /\ Blanked(c, k + 1) /\ Started(t, k + 1)
      <4>1. k \in 0 .. Len(text) - 1 /\ Blanked(b, k) /\ Started(st, k)
        BY <2>1, <2>2
      <4> HIDE DEF S
      <4> QED
        BY <4>1, ParsedStep
    <3> QED
      BY <2>1, <3>1
  <2> QED
    BY <2>2, <2>3, <2>4
<1>6. l \in S
  <2> HIDE DEF S
  <2>1. 0 .. l \subseteq S
    BY <1>4, <1>5, AllUpTo
  <2> QED
    BY <2>1
<1> QED
  BY <1>1, <1>3, <1>6

\* The zero an argument ends at is where the word does.
LEMMA StringIsWord ==
    ASSUME text \in Seq(Printable), NEW b, Blanked(b, Len(text)),
           NEW i \in WordStarts(text)
    PROVE  /\ StringAt(b, i) = SubSeq(text, i, WordEnd(text, i))
           /\ StringAt(b, i) \in Seq(Printable)
<1>1. PICK l \in Nat : l = Len(text)
  BY TextFacts
<1>2. /\ i \in 1 .. l /\ text[i] # SPACE
      /\ \A j \in 1 .. l : text[j] \in Printable /\ text[j] # NUL
  BY <1>1, TextFacts DEF WordStarts
<1>3. /\ Len(b) = l + 1 /\ b[l + 1] = NUL
      /\ \A j \in 1 .. l : b[j] = IF text[j] = SPACE THEN NUL ELSE text[j]
  <2>1. \A j \in 1 .. l : j <= l
    OBVIOUS
  <2> QED
    BY <1>1, <2>1 DEF Blanked
<1> DEFINE Z == {j \in i .. l + 1 : b[j] = NUL}
<1>4. PICK n \in Z : \A j \in Z : ~ (<<j, n>> \in OpToRel(<, Nat))
  <2>1. Z \subseteq Nat
    BY <1>2
  <2>2. l + 1 \in Z
    BY <1>2, <1>3
  <2> HIDE DEF Z
  <2> QED
    BY <2>1, <2>2, NatLessThanWellFounded, WFMin
<1>5. /\ n \in i .. l + 1 /\ b[n] = NUL
      /\ \A k \in i .. n - 1 : b[k] # NUL
  <2>1. n \in i .. l + 1 /\ b[n] = NUL /\ n \in Nat /\ i \in Nat
    <3>1. n \in Z
      BY <1>4
    <3>2. n \in i .. l + 1 /\ b[n] = NUL
      BY <3>1
    <3> QED
      BY <1>2, <3>2
  <2>2. ASSUME NEW k \in i .. n - 1, b[k] = NUL
        PROVE  FALSE
    <3>1. k \in i .. l + 1 /\ k \in Nat /\ k < n
      BY <1>1, <2>1
    <3>2. k \in Z
      BY <2>2, <3>1
    <3> QED
      BY <1>4, <2>1, <3>1, <3>2 DEF OpToRel
  <2> QED
    BY <2>1, <2>2
<1>6. /\ n - 1 \in i .. l /\ n \in Nat /\ i \in Nat
      /\ \A k \in i .. n - 1 : k \in 1 .. l /\ text[k] # SPACE /\ b[k] = text[k]
      /\ n - 1 = l \/ text[(n - 1) + 1] = SPACE
  <2>1. b[i] = text[i] /\ b[i] # NUL
    BY <1>2, <1>3
  <2>2. n # i
    BY <1>5, <2>1
  <2>3. n - 1 \in i .. l /\ n \in Nat /\ i \in Nat
    BY <1>2, <1>5, <2>2
  <2>4. ASSUME NEW k \in i .. n - 1
        PROVE  k \in 1 .. l /\ text[k] # SPACE /\ b[k] = text[k]
    <3>1. k \in 1 .. l
      BY <1>2, <2>3
    <3>2. b[k] # NUL
      BY <1>5
    <3> QED
      BY <1>3, <3>1, <3>2
  <2>5. CASE n = l + 1
    BY <2>3, <2>4, <2>5
  <2>6. CASE n # l + 1
    <3>1. n \in 1 .. l /\ (n - 1) + 1 = n
      BY <1>2, <1>5, <2>6
    <3>2. text[n] = SPACE
      BY <1>2, <1>3, <1>5, <3>1
    <3> QED
      BY <2>3, <2>4, <3>1, <3>2
  <2> QED
    BY <2>5, <2>6
<1>7. StringAt(b, i) = SubSeq(b, i, n - 1)
  <2> DEFINE Q(j) == b[j] = NUL /\ \A k \in i .. j - 1 : b[k] # NUL
             q == CHOOSE j \in i .. Len(b) : Q(j)
  <2>1. StringAt(b, i) = SubSeq(b, i, q - 1)
    BY DEF StringAt
  <2>2. n \in i .. Len(b) /\ Q(n)
    BY <1>3, <1>5
  <2>3. q \in i .. Len(b) /\ Q(q)
    BY <2>2
  <2> HIDE DEF q
  <2>4. q \in i .. l + 1 /\ q \in Nat
    BY <1>2, <1>3, <2>3
  <2>5. ~ (q < n)
    <3>1. q < n => q \in i .. n - 1
      BY <1>6, <2>4
    <3> QED
      BY <1>5, <2>3, <3>1
  <2>6. ~ (n < q)
    <3>1. n < q => n \in i .. q - 1
      BY <1>5, <1>6, <2>4
    <3> QED
      BY <1>5, <2>3, <3>1
  <2>7. q = n
    BY <1>6, <2>4, <2>5, <2>6
  <2> QED
    BY <2>1, <2>7
<1>8. WordEnd(text, i) = n - 1
  <2> DEFINE Q(j) == /\ \A k \in i .. j : text[k] # SPACE
                     /\ j = Len(text) \/ text[j + 1] = SPACE
             q == CHOOSE j \in i .. Len(text) : Q(j)
  <2>1. WordEnd(text, i) = q
    BY DEF WordEnd
  <2>2. n - 1 \in i .. Len(text) /\ Q(n - 1)
    BY <1>1, <1>6
  <2>3. q \in i .. Len(text) /\ Q(q)
    BY <2>2
  <2> HIDE DEF q
  <2>4. q \in i .. l /\ q \in Nat
    BY <1>1, <1>2, <2>3
  <2>5. ~ (q < n - 1)
    <3>1. q < n - 1 => q # l /\ q + 1 \in i .. n - 1
      BY <1>1, <1>6, <2>4
    <3> QED
      BY <1>1, <1>6, <2>3, <3>1
  <2>6. ~ (n - 1 < q)
    <3>1. n - 1 < q => n - 1 # l /\ (n - 1) + 1 \in i .. q
      BY <1>1, <1>6, <2>4
    <3> QED
      BY <1>6, <2>3, <3>1
  <2>7. q = n - 1
    BY <1>6, <2>4, <2>5, <2>6
  <2> QED
    BY <2>1, <2>7
<1>9. /\ SubSeq(b, i, n - 1) = SubSeq(text, i, n - 1)
      /\ SubSeq(b, i, n - 1) \in Seq(Printable)
  <2>1. \A k \in i .. n - 1 : text[k] \in Printable /\ b[k] \in Printable /\ b[k] = text[k]
    BY <1>2, <1>6
  <2>2. i \in Int /\ n - 1 \in Int /\ i <= n - 1
    BY <1>6
  <2>3. /\ SubSeq(b, i, n - 1) \in Seq(Printable)
        /\ Len(SubSeq(b, i, n - 1)) = (n - 1) - i + 1
        /\ \A m \in 1 .. (n - 1) - i + 1 : SubSeq(b, i, n - 1)[m] = b[i + m - 1]
    BY <2>1, <2>2, SubSeqProperties
  <2>4. /\ SubSeq(text, i, n - 1) \in Seq(Printable)
        /\ Len(SubSeq(text, i, n - 1)) = (n - 1) - i + 1
        /\ \A m \in 1 .. (n - 1) - i + 1 : SubSeq(text, i, n - 1)[m] = text[i + m - 1]
    BY <2>1, <2>2, SubSeqProperties
  <2>5. \A m \in 1 .. (n - 1) - i + 1 : i + m - 1 \in i .. n - 1
    BY <1>6
  <2> QED
    BY <2>1, <2>3, <2>4, <2>5, SeqEqual
<1> QED
  BY <1>7, <1>8, <1>9
\* The n-th argument found is the n-th word of the line.
LEMMA NthWordIs ==
    ASSUME text \in Seq(Printable), NEW st, Started(st, Len(text))
    PROVE  /\ Cardinality(WordStarts(text)) = Len(st)
           /\ \A n \in 1 .. Len(st) :
                  /\ st[n] \in WordStarts(text)
                  /\ NthWord(text, n) = SubSeq(text, st[n], WordEnd(text, st[n]))
<1>1. PICK l, m \in Nat : l = Len(text) /\ m = Len(st)
  BY TextFacts, LenProperties DEF Started
<1> DEFINE W == WordStarts(text)
<1>2. W \subseteq 1 .. l
  BY <1>1, TextFacts DEF WordStarts
<1> HIDE DEF W
<1>3. \A a \in 1 .. m : st[a] \in 1 .. l /\ st[a] \in Nat
  BY <1>1, ElementOfSeq DEF Started
<1>4. \A i \in 1 .. l : i \in W <=> \E a \in 1 .. m : st[a] = i
  <2>1. \A i \in 1 .. l : i <= l
    OBVIOUS
  <2> QED
    BY <1>1, <2>1 DEF Started, W
<1>5. \A a \in 1 .. m : st[a] \in W
  BY <1>3, <1>4
<1>6. \A x \in W : \E a \in 1 .. m : st[a] = x
  BY <1>2, <1>4
<1>7. \A a, b \in 1 .. m : a < b => st[a] < st[b]
  BY <1>1 DEF Started
<1>8. \A a, b \in 1 .. m : st[a] = st[b] => a = b
  BY <1>1, <1>3, <1>7
<1>9. ASSUME NEW n \in 0 .. m, NEW X, X \subseteq W,
             \A a \in 1 .. m : st[a] \in X <=> a <= n
      PROVE  Cardinality(X) = n
  <2> DEFINE f == [a \in 1 .. n |-> st[a]]
  <2>1. n \in Nat /\ \A a \in 1 .. n : a \in 1 .. m /\ a <= n
    BY <1>1
  <2>2. f \in [1 .. n -> X]
    BY <1>9, <2>1
  <2>3. \A a, b \in 1 .. n : f[a] = f[b] => a = b
    BY <1>8, <2>1
  <2>4. ASSUME NEW x \in X
        PROVE  \E a \in 1 .. n : f[a] = x
    <3>1. PICK a \in 1 .. m : st[a] = x
      BY <1>6, <1>9
    <3>2. a <= n /\ a \in 1 .. n
      BY <1>9, <2>1, <3>1
    <3> QED
      BY <3>1, <3>2
  <2> HIDE DEF f
  <2>5. f \in Bijection(1 .. n, X)
    <3>1. f \in Injection(1 .. n, X)
      BY <2>2, <2>3 DEF Injection, IsInjective
    <3>2. f \in Surjection(1 .. n, X)
      BY <2>2, <2>4 DEF Surjection
    <3> QED
      BY <3>1, <3>2 DEF Bijection
  <2> QED
    BY <2>1, <2>5, FS_CountingElements DEF ExistsBijection
<1>10. Cardinality(W) = m
  <2>1. m \in 0 .. m /\ W \subseteq W /\ \A a \in 1 .. m : st[a] \in W <=> a <= m
    BY <1>1, <1>5
  <2> QED
    BY <1>9, <2>1
<1>11. ASSUME NEW n \in 1 .. m
       PROVE  Cardinality({y \in W : y <= st[n]}) = n
  <2> DEFINE X == {y \in W : y <= st[n]}
  <2>1. n \in 0 .. m /\ X \subseteq W
    BY <1>1
  <2>2. ASSUME NEW a \in 1 .. m
        PROVE  st[a] \in X <=> a <= n
    <3>1. st[a] \in X <=> st[a] <= st[n]
      BY <1>5
    <3>2. CASE a = n
      BY <1>3, <3>1, <3>2
    <3>3. CASE a < n
      <4>1. st[a] < st[n] /\ a <= n
        BY <1>7, <3>3
      <4> QED
        BY <1>3, <3>1, <4>1
    <3>4. CASE n < a
      <4>1. st[n] < st[a] /\ ~ (a <= n)
        BY <1>7, <3>4
      <4> QED
        BY <1>3, <3>1, <4>1
    <3> QED
      BY <3>2, <3>3, <3>4
  <2> HIDE DEF X
  <2>3. Cardinality(X) = n
    BY <1>9, <2>1, <2>2
  <2> QED
    BY <2>3 DEF X
<1>12. ASSUME NEW n \in 1 .. m
       PROVE  NthWord(text, n) = SubSeq(text, st[n], WordEnd(text, st[n]))
  <2> DEFINE i == CHOOSE x \in W : Cardinality({y \in W : y <= x}) = n
  <2>1. NthWord(text, n) = SubSeq(text, i, WordEnd(text, i))
    BY DEF NthWord, W
  <2>2. st[n] \in W /\ Cardinality({y \in W : y <= st[n]}) = n
    BY <1>5, <1>11
  <2>3. i \in W /\ Cardinality({y \in W : y <= i}) = n
    BY <2>2
  <2> HIDE DEF i
  <2>4. PICK a \in 1 .. m : st[a] = i
    BY <1>6, <2>3
  <2>5. a = n
    BY <1>11, <2>3, <2>4
  <2> QED
    BY <2>1, <2>4, <2>5
<1> QED
  BY <1>1, <1>5, <1>10, <1>12 DEF W

\* runcmd()'s arguments are the words of the line.
LEMMA ArgumentsFound ==
    ASSUME text \in Seq(Printable)
    PROVE  LET args == [n \in DOMAIN ParsedLine.starts |->
                           StringAt(ParsedLine.buf, ParsedLine.starts[n])]
           IN  /\ args \in Seq(Seq(Printable))
               /\ args = [n \in 1 .. Cardinality(WordStarts(text)) |-> NthWord(text, n)]
<1>1. PICK b, st : /\ ParsedLine = [buf |-> b, starts |-> st]
                   /\ Blanked(b, Len(text)) /\ Started(st, Len(text))
  BY ParsedLineIs
<1>2. PICK m \in Nat : m = Len(st) /\ DOMAIN st = 1 .. m
  BY <1>1, LenProperties DEF Started
<1>3. Cardinality(WordStarts(text)) = m
  BY <1>1, <1>2, NthWordIs
<1>4. ASSUME NEW n \in 1 .. m
      PROVE  /\ StringAt(b, st[n]) = NthWord(text, n)
             /\ StringAt(b, st[n]) \in Seq(Printable)
  BY <1>1, <1>2, NthWordIs, StringIsWord
<1> DEFINE args == [n \in 1 .. m |-> StringAt(b, st[n])]
<1>5. args \in [1 .. m -> Seq(Printable)]
  BY <1>4
<1>6. args \in Seq(Seq(Printable))
  BY <1>5, SeqDef
<1>7. args = [n \in 1 .. m |-> NthWord(text, n)]
  BY <1>4
<1> QED
  BY <1>1, <1>2, <1>3, <1>6, <1>7
-----------------------------------------------------------------------------
(* The line and the screen *)

Typed == Printable \cup {NEWLINE, BACKSPACE, CONTROL}

LineInv ==
    /\ IsScreen(crt)
    /\ queue \in Seq(Typed)
    /\ text \in Seq(Printable) /\ Len(text) < BUFLEN
    /\ argv \in Seq(Seq(Printable))
    /\ pc \in {"read", "run", "call", "reboot"}
    /\ pc = "read" => Shows(crt, Prompt \o text)

LEMMA CharOfType ==
    ASSUME NEW d
    PROVE  CharOf(d) \in Typed \cup {NO}
<1> DEFINE e == IF "E0ESC" \in shift THEN d + 128 ELSE d
           s == ShiftAfter(d)
           c == IF e \in DOMAIN charcode(s) THEN charcode(s)[e] ELSE NO
<1>1. \A m \in {normalmap, shiftmap, ctlmap} : \A x \in DOMAIN m : m[x] \in Typed
  <2>1. {BACKSPACE, NEWLINE, "a", "A", SPACE, KEY_DEL, CONTROL} \subseteq Typed
    BY DEF Typed, Printable
  <2>2. \A x \in DOMAIN normalmap : normalmap[x] \in Typed
    BY <2>1 DEF normalmap
  <2>3. \A x \in DOMAIN shiftmap : shiftmap[x] \in Typed
    <3>1. DOMAIN shiftmap = DOMAIN normalmap
      BY DEF shiftmap
    <3>2. \A x \in DOMAIN normalmap : shiftmap[x] = "A" \/ shiftmap[x] = normalmap[x]
      BY DEF shiftmap
    <3> QED
      BY <2>1, <2>2, <3>1, <3>2
  <2>4. \A x \in DOMAIN ctlmap : ctlmap[x] \in Typed
    BY <2>1 DEF ctlmap
  <2> QED
    BY <2>2, <2>3, <2>4
<1>2. charcode(s) \in {normalmap, shiftmap, ctlmap}
  BY DEF charcode
<1>3. c \in Typed \cup {NO}
  BY <1>1, <1>2
<1>4. SwapCase(c) \in Typed \cup {NO}
  BY <1>3 DEF SwapCase, Typed, Printable
<1>5. CharOf(d) \in {NO, c, SwapCase(c)}
  BY DEF CharOf
<1> QED
  BY <1>3, <1>4, <1>5

LEMMA PromptFacts ==
    /\ Prompt \in Seq(ToSet(Prompt)) /\ Len(Prompt) \in Nat
    /\ \A i \in 1 .. Len(Prompt) : Prompt[i] \notin {BACKSPACE, NEWLINE, RETURN, TAB}
    /\ BUFLEN \in Nat /\ BUFLEN > 0
    /\ Len(Prompt) + BUFLEN - 1 <= CRT_SIZE - CRT_COLS
<1>1. Prompt \in Seq(ToSet(Prompt))
  BY TerminalAssumption
<1>2. \A i \in 1 .. Len(Prompt) : Prompt[i] \in ToSet(Prompt)
  BY <1>1, ElementOfSeq
<1> QED
  BY <1>1, <1>2, LenProperties, TerminalAssumption

\* Behind whatever is printed stands the prompt.
LEMMA Prompted ==
    ASSUME NEW s, IsScreen(s), NEW C, NEW w \in Seq(C)
    PROVE  /\ IsScreen(PutString(s, w \o Prompt))
           /\ Shows(PutString(s, w \o Prompt), Prompt \o <<>>)
<1> DEFINE D == C \cup ToSet(Prompt)
<1>1. w \in Seq(D) /\ Prompt \in Seq(D)
  BY PromptFacts, SeqMonotonic
<1> HIDE DEF D
<1>2. PICK n \in Nat : n = Len(Prompt)
  BY PromptFacts
<1>3. n <= CRT_SIZE - CRT_COLS
  BY <1>2, PromptFacts, ScreenSizes
<1>4. Shows(PutString(s, w \o Prompt), Prompt)
  BY <1>1, <1>2, <1>3, PromptFacts, PutStringShows
<1>5. Len(w \o Prompt) \in Nat
  BY <1>1, ConcatProperties, LenProperties
<1>6. IsScreen(PutString(s, w \o Prompt))
  BY <1>5, PutStringType
<1>7. Prompt \o <<>> = Prompt
  BY <1>1, ConcatEmptySeq
<1> QED
  BY <1>4, <1>6, <1>7

LEMMA OutputIsString ==
    ASSUME argv \in Seq(Seq(Printable))
    PROVE  \E C : Output \in Seq(C)
<1>1. CASE argv = <<>>
  <2>1. Output = <<>> /\ <<>> \in Seq({})
    BY <1>1, EmptySeq DEF Output
  <2> QED
    BY <2>1
<1>2. CASE argv # <<>> /\ argv[1] \in DOMAIN Commands
  <2>1. Output = Commands[argv[1]]
    BY <1>2 DEF Output
  <2>2. Commands[argv[1]] \in Seq(ToSet(Commands[argv[1]]))
    BY <1>2, TerminalAssumption
  <2> QED
    BY <2>1, <2>2
<1>3. CASE argv # <<>> /\ argv[1] \notin DOMAIN Commands
  <2> DEFINE C == ToSet(Unknown) \cup Printable \cup {NEWLINE}
  <2>1. argv[1] \in Seq(Printable)
    BY <1>3, EmptySeq, ElementOfSeq
  <2>2. Unknown \in Seq(ToSet(Unknown))
    BY TerminalAssumption
  <2>3. Unknown \in Seq(C) /\ argv[1] \in Seq(C)
    BY <2>1, <2>2, SeqMonotonic
  <2>4. <<NEWLINE>> \in Seq(C)
    <3>1. <<>> \in Seq(C) /\ NEWLINE \in C
      BY EmptySeq
    <3>2. Append(<<>>, NEWLINE) = <<NEWLINE>>
      OBVIOUS
    <3> HIDE DEF C
    <3> QED
      BY <3>1, <3>2, AppendProperties
  <2> HIDE DEF C
  <2>5. Unknown \o argv[1] \o <<NEWLINE>> \in Seq(C)
    <3>1. Unknown \o argv[1] \in Seq(C)
      BY <2>3, ConcatProperties
    <3> QED
      BY <2>4, <3>1, ConcatProperties
  <2> QED
    BY <1>3, <2>5 DEF Output
<1> QED
  BY <1>1, <1>2, <1>3

LEMMA LineInit == Init => LineInv
<1> SUFFICES ASSUME Init PROVE LineInv
  OBVIOUS
<1>1. PICK s \in [buf : {[i \in Cells |-> SPACE]}, pos : Cells] : crt = PutString(s, Prompt)
  BY DEF Init
<1>2. s = Picture([i \in Cells |-> SPACE], s.pos) /\ s.pos \in Cells
  BY <1>1 DEF Picture
<1>3. IsScreen(s)
  BY <1>2 DEF IsScreen, IsBuf
<1>4. <<>> \in Seq({}) /\ <<>> \o Prompt = Prompt
  BY EmptySeq, PromptFacts, ConcatEmptySeq
<1>5. IsScreen(crt) /\ Shows(crt, Prompt \o <<>>)
  BY <1>1, <1>3, <1>4, Prompted
<1>6. queue = <<>> /\ text = <<>> /\ argv = <<>> /\ pc = "read"
  BY DEF Init
<1>7. Len(<<>>) < BUFLEN
  BY PromptFacts, EmptySeq
<1> QED
  BY <1>5, <1>6, <1>7, EmptySeq DEF LineInv

LEMMA ReadCharStep ==
    ASSUME LineInv, ReadChar
    PROVE  LineInv'
<1> DEFINE c == Head(queue)
<1>1. /\ IsScreen(crt) /\ queue \in Seq(Typed) /\ text \in Seq(Printable)
      /\ Len(text) < BUFLEN /\ argv \in Seq(Seq(Printable)) /\ Shows(crt, Prompt \o text)
      /\ pc = "read" /\ queue # <<>> /\ queue' = Tail(queue) /\ argv' = argv
  BY DEF LineInv, ReadChar
<1>2. queue' \in Seq(Typed) /\ c \in Typed
  BY <1>1, HeadTailProperties
<1> DEFINE D == ToSet(Prompt) \cup Printable
<1>3. Prompt \in Seq(D) /\ text \in Seq(D) /\ \A x \in Printable : x \in D
  BY <1>1, PromptFacts, SeqMonotonic
<1>4. PICK n, m \in Nat : n = Len(Prompt) /\ m = Len(text)
  BY <1>1, PromptFacts, LenProperties
<1>5. /\ n + BUFLEN - 1 <= CRT_SIZE - CRT_COLS /\ BUFLEN \in Nat
      /\ CRT_SIZE \in Nat /\ CRT_COLS \in Nat
  BY <1>4, PromptFacts, ScreenSizes
<1>6. Prompt \o text \in Seq(D) /\ Len(Prompt \o text) = n + m
  BY <1>3, <1>4, ConcatProperties
<1> HIDE DEF c, D
<1>7. CASE /\ c = BACKSPACE /\ text # <<>>
           /\ text' = Front(text) /\ Show(<<c>>) /\ UNCHANGED pc
  <2>1. PICK t \in Seq(Printable), x \in Printable : text = Append(t, x)
    BY <1>1, <1>7, SequenceEmptyOrAppend
  <2>2. /\ Len(t) \in Nat /\ m = Len(t) + 1 /\ \A i \in 1 .. Len(t) : text[i] = t[i]
    BY <1>4, <2>1, AppendProperties, LenProperties
  <2>3. Front(text) = t
    <3>1. PICK k \in Nat : k = Len(t)
      BY <2>2
    <3>2. Front(text) = SubSeq(text, 1, k)
      BY <1>4, <2>2, <3>1 DEF Front
    <3>3. \A i \in 1 .. k : text[i] \in Printable /\ t[i] \in Printable
      BY <2>2, <3>1, ElementOfSeq
    <3>4. /\ SubSeq(text, 1, k) \in Seq(Printable) /\ Len(SubSeq(text, 1, k)) = k
          /\ \A i \in 1 .. k : SubSeq(text, 1, k)[i] = text[i]
      BY <3>1, <3>3, SubSeqProperties
    <3> QED
      BY <2>2, <3>1, <3>2, <3>4, SeqEqual
  <2>4. t \in Seq(D) /\ x \in D
    BY <1>3, <2>1, SeqMonotonic DEF D
  <2>5. Prompt \o text = Append(Prompt \o t, x) /\ Prompt \o t \in Seq(D)
    <3>1. text = t \o <<x>>
      BY <2>1, AppendIsConcat
    <3>2. <<x>> \in Seq(D)
      BY <2>4
    <3>3. Prompt \o t \in Seq(D)
      BY <1>3, <2>4, ConcatProperties
    <3>4. (Prompt \o t) \o <<x>> = Prompt \o (t \o <<x>>)
      BY <1>3, <2>4, <3>2, ConcatAssociative
    <3>5. Append(Prompt \o t, x) = (Prompt \o t) \o <<x>>
      BY <2>4, <3>3, AppendIsConcat
    <3> QED
      BY <3>1, <3>3, <3>4, <3>5
  <2>6. Len(Prompt \o t) <= CRT_SIZE - CRT_COLS
    <3>1. Len(Prompt \o t) = n + Len(t)
      BY <1>3, <1>4, <2>4, ConcatProperties
    <3> QED
      BY <1>1, <1>4, <1>5, <2>2, <3>1
  <2>7. Shows(PutChar(crt, BACKSPACE), Prompt \o t)
    BY <1>1, <2>4, <2>5, <2>6, PutCharErases
  <2>8. crt' = PutChar(crt, BACKSPACE)
    BY <1>7, PutOne, CharactersAssumption DEF Show, cga_putc
  <2>9. IsScreen(crt')
    BY <1>1, <2>8, PutCharType
  <2>10. Len(t) < BUFLEN
    BY <1>1, <1>4, <1>5, <2>2
  <2> QED
    BY <1>1, <1>2, <1>7, <2>1, <2>3, <2>7, <2>8, <2>9, <2>10 DEF LineInv
<1>8. CASE /\ c \in Printable /\ Fits
           /\ text' = Append(text, c) /\ Show(<<c>>) /\ UNCHANGED pc
  <2>1. c \notin {BACKSPACE, NEWLINE, RETURN, TAB}
    BY <1>8, CharactersAssumption
  <2>2. crt' = PutChar(crt, c)
    BY <1>8, <2>1, PutOne DEF Show, cga_putc
  <2>3. IsScreen(crt')
    BY <1>1, <2>2, PutCharType
  <2>4. text' \in Seq(Printable) /\ Len(text') = m + 1
    BY <1>1, <1>4, <1>8, AppendProperties
  <2>5. m + 1 < BUFLEN /\ n + m + 1 <= CRT_SIZE - CRT_COLS
    <3>1. m < BUFLEN - 1
      BY <1>4, <1>8 DEF Fits
    <3> QED
      BY <1>4, <1>5, <3>1
  <2>6. Prompt \o text' = Append(Prompt \o text, c)
    <3>1. c \in D /\ <<c>> \in Seq(D)
      BY <1>3, <1>8
    <3>2. text' = text \o <<c>>
      BY <1>1, <1>8, AppendIsConcat
    <3>3. (Prompt \o text) \o <<c>> = Prompt \o (text \o <<c>>)
      BY <1>3, <3>1, ConcatAssociative
    <3>4. Append(Prompt \o text, c) = (Prompt \o text) \o <<c>>
      BY <1>6, <3>1, AppendIsConcat
    <3> QED
      BY <3>2, <3>3, <3>4
  <2>7. Len(Prompt \o text) + 1 <= CRT_SIZE - CRT_COLS
    BY <1>6, <2>5
  <2>8. Shows(crt', Prompt \o text')
    BY <1>1, <1>6, <2>1, <2>2, <2>6, <2>7, PutCharAppends
  <2>9. Len(text') < BUFLEN
    BY <2>4, <2>5
  <2> QED
    BY <1>1, <1>2, <1>8, <2>3, <2>4, <2>8, <2>9 DEF LineInv
<1>9. CASE c = NEWLINE /\ pc' = "run" /\ Show(<<c>>) /\ UNCHANGED text
  <2>1. crt' = cga_putc(crt, c)
    BY <1>9, PutOne DEF Show
  <2>2. IsScreen(crt')
    BY <1>1, <2>1, CgaPutcType
  <2> QED
    BY <1>1, <1>2, <1>9, <2>2 DEF LineInv
<1>10. CASE UNCHANGED <<text, crt, pc>>
  BY <1>1, <1>2, <1>10 DEF LineInv
<1> QED
  BY <1>7, <1>8, <1>9, <1>10 DEF ReadChar, c

LEMMA LineStep == LineInv /\ [Next]_vars => LineInv'
<1> SUFFICES ASSUME LineInv, [Next]_vars PROVE LineInv'
  OBVIOUS
<1>1. CASE User \/ UNCHANGED vars
  BY <1>1 DEF User, vars, LineInv
<1>2. CASE PollKbd
  <2> DEFINE c == CharOf(Head(wire))
  <2>1. queue \in Seq(Typed) /\ (c # NO => c \in Typed)
    BY CharOfType DEF LineInv
  <2> HIDE DEF c
  <2>2. queue' = IF c = NO THEN queue ELSE Append(queue, c)
    BY <1>2 DEF PollKbd, c
  <2>3. queue' \in Seq(Typed)
    BY <2>1, <2>2, AppendProperties
  <2>4. pc' \in {"read", "reboot"} /\ pc = "read" /\ UNCHANGED <<crt, text, argv>>
    BY <1>2 DEF PollKbd
  <2> QED
    BY <2>3, <2>4 DEF LineInv
<1>3. CASE ReadChar
  BY <1>3, ReadCharStep
<1>4. CASE Parse
  <2>1. text \in Seq(Printable) /\ IsScreen(crt) /\ Len(text) < BUFLEN /\ queue' = queue
    BY <1>4 DEF LineInv, Parse
  <2> DEFINE args == [n \in DOMAIN ParsedLine.starts |->
                         StringAt(ParsedLine.buf, ParsedLine.starts[n])]
  <2>2. args \in Seq(Seq(Printable))
    BY <2>1, ArgumentsFound
  <2>3. \/ /\ argv' = <<>> /\ Show(TooMany \o Prompt) /\ text' = <<>> /\ pc' = "read"
        \/ argv' = args /\ pc' = "call" /\ UNCHANGED <<text, crt>>
    BY <1>4 DEF Parse
  <2> HIDE DEF args
  <2>4. CASE argv' = <<>> /\ Show(TooMany \o Prompt) /\ text' = <<>> /\ pc' = "read"
    <3>1. TooMany \in Seq(ToSet(TooMany))
      BY TerminalAssumption
    <3>2. IsScreen(crt') /\ Shows(crt', Prompt \o <<>>)
      BY <2>1, <2>4, <3>1, Prompted DEF Show
    <3>3. Len(<<>>) < BUFLEN
      BY PromptFacts, EmptySeq
    <3> QED
      BY <2>1, <2>4, <3>2, <3>3, EmptySeq DEF LineInv
  <2>5. CASE argv' = args /\ pc' = "call" /\ UNCHANGED <<text, crt>>
    BY <2>1, <2>2, <2>5 DEF LineInv
  <2> QED
    BY <2>3, <2>4, <2>5
<1>5. CASE RunCmd
  <2>1. IsScreen(crt) /\ argv \in Seq(Seq(Printable))
    BY DEF LineInv
  <2>2. PICK C : Output \in Seq(C)
    BY <2>1, OutputIsString
  <2>3. /\ Show(Output \o Prompt) /\ argv' = <<>> /\ text' = <<>> /\ pc' = "read"
        /\ queue' = queue
    BY <1>5 DEF RunCmd
  <2>4. IsScreen(crt') /\ Shows(crt', Prompt \o <<>>)
    BY <2>1, <2>2, <2>3, Prompted DEF Show
  <2>5. Len(<<>>) < BUFLEN
    BY PromptFacts, EmptySeq
  <2> QED
    BY <2>3, <2>4, <2>5, EmptySeq DEF LineInv
<1> QED
  BY <1>1, <1>2, <1>3, <1>4, <1>5 DEF Next
-----------------------------------------------------------------------------
(* Theorems of the line *)

\* Every variable keeps its type: the cursor stays on the screen whatever is
\* printed, at the beginning of it too, the line in readline()'s buffer, and only
\* characters a key can make are queued.
THEOREM TerminalTypeCorrect == Spec => []TypeOK
<1>1. Init => KeyboardInv /\ LineInv
  BY KeyboardInitially, LineInit
<1>2. KeyboardInv /\ LineInv /\ [Next]_vars => (KeyboardInv /\ LineInv)'
  BY KeyboardStep, LineStep
<1>3. KeyboardInv /\ LineInv => TypeOK
  <2> SUFFICES ASSUME KeyboardInv, LineInv PROVE TypeOK
    OBVIOUS
  <2>1. KeyboardTypeOK
    BY DEF KeyboardInv, Accounted, KeyboardTypeOK, Codes, Mods
  <2>2. ScreenTypeOK
    <3>1. PICK b, p : IsBuf(b) /\ p \in Cells /\ crt = Picture(b, p)
      BY DEF LineInv, IsScreen
    <3>2. crt.buf = b /\ crt.pos = p
      BY <3>1 DEF Picture
    <3>3. DOMAIN b = Cells
      BY <3>1 DEF IsBuf
    <3> QED
      BY <3>1, <3>2, <3>3 DEF ScreenTypeOK
  <2> QED
    BY <2>1, <2>2 DEF LineInv, Typed, TypeOK
<1> QED
  BY <1>1, <1>2, <1>3, PTL DEF Spec

\* What the user sees before the cursor is the prompt and the line that will be
\* executed, for every screen the longest line fits after it has scrolled:
\* through erases, wraps, scrolls and whatever the commands printed before.
THEOREM LineShownAlways == Spec => []LineShown
<1>1. LineInv => LineShown
  BY DEF LineInv, LineShown, Shows, ShowsBeforeCursor
<1> QED
  BY <1>1, LineInit, LineStep, PTL DEF Spec

\* A command is called with the words of the line typed as its arguments, for
\* lines of any length, and never with more than argv[] has room for.
THEOREM ArgumentsAreWordsAlways == Spec => []ArgumentsAreWords
<1>1. Init => ArgumentsAreWords
  BY DEF Init, ArgumentsAreWords
<1>2. LineInv /\ ArgumentsAreWords /\ [Next]_vars => ArgumentsAreWords'
  <2> SUFFICES ASSUME LineInv, ArgumentsAreWords, [Next]_vars, pc' = "call"
               PROVE  ArgumentsAreWords'
    BY DEF ArgumentsAreWords
  <2>1. CASE UNCHANGED <<text, argv, pc>>
    BY <2>1 DEF ArgumentsAreWords
  <2>2. CASE Parse
    <3> DEFINE args == [n \in DOMAIN ParsedLine.starts |->
                           StringAt(ParsedLine.buf, ParsedLine.starts[n])]
               words == [n \in 1 .. Cardinality(WordStarts(text)) |-> NthWord(text, n)]
    <3>1. args \in Seq(Seq(Printable)) /\ args = words
      BY ArgumentsFound DEF LineInv
    <3>2. /\ ~ (Len(args) > MAXARGS - 1)
          /\ argv' = args /\ text' = text
      BY <2>2 DEF Parse
    <3>3. words' = words
      BY <3>2
    <3> HIDE DEF args
    <3>4. PICK n \in Nat : n = Len(args)
      BY <3>1, LenProperties
    <3>5. Len(argv') < MAXARGS
      BY <3>2, <3>4, TerminalAssumption
    <3>6. argv' = words'
      BY <3>1, <3>2, <3>3
    <3> QED
      BY <3>5, <3>6 DEF ArgumentsAreWords
  <2>3. CASE PollKbd \/ ReadChar \/ RunCmd
    <3>1. PollKbd => pc' \in {"read", "reboot"}
      BY DEF PollKbd
    <3>2. ReadChar => pc' \in {"read", "run"}
      BY DEF ReadChar
    <3>3. RunCmd => pc' = "read"
      BY DEF RunCmd
    <3> QED
      BY <2>3, <3>1, <3>2, <3>3
  <2> QED
    BY <2>1, <2>2, <2>3 DEF Next, User, vars
<1> QED
  BY <1>1, <1>2, LineInit, LineStep, PTL DEF Spec
=============================================================================
