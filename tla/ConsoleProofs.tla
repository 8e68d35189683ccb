--------------------------- MODULE ConsoleProofs ---------------------------
(***************************************************************************)
(* The console's ring is a queue, for every size of the ring, as long as   *)
(* the user types less than a ring ahead of the reader.                    *)
(***************************************************************************)
EXTENDS Console, SequenceTheorems, TLAPS

\* The number of characters waiting.
Count == Wrap(wpos + CONSBUFSIZE - rpos)

\* Every cell between rpos and wpos holds a character.
WaitingOK == \A i \in 1 .. Count : buf[Wrap(rpos + i - 1)] \in Chars

\* The inductive invariant: nobody is far enough ahead to fill the ring.
RingInv == TypeOK /\ Ahead /\ WaitingOK

\* What the ring holds, as a sequence.
LEMMA WaitingProperties ==
    ASSUME TypeOK, WaitingOK
    PROVE  /\ Count \in 0 .. CONSBUFSIZE - 1
           /\ Waiting \in Seq(Chars)
           /\ Len(Waiting) = Count
           /\ DOMAIN Waiting = 1 .. Count
           /\ \A i \in 1 .. Count : Waiting[i] = buf[Wrap(rpos + i - 1)]
<1>1. CONSBUFSIZE \in Nat \ {0} BY ConsoleAssumption
<1>2. Count \in 0 .. CONSBUFSIZE - 1 BY <1>1 DEF TypeOK, Count, Wrap
<1>3. Waiting = [i \in 1 .. Count |-> buf[Wrap(rpos + i - 1)]]
  BY DEF Waiting, Count
<1>4. Waiting \in Seq(Chars) /\ Len(Waiting) = Count
  BY <1>2, <1>3 DEF WaitingOK
<1> QED BY <1>2, <1>3, <1>4

\* While a cell is left over, storing a character appends it.
LEMMA StoreAppends ==
    ASSUME TypeOK, WaitingOK, Count < CONSBUFSIZE - 1,
           NEW x \in Chars, Store(x), rpos' = rpos
    PROVE  /\ buf' \in [0 .. CONSBUFSIZE - 1 -> Chars \cup {NO}]
           /\ wpos' \in 0 .. CONSBUFSIZE - 1
           /\ Count' = Count + 1
           /\ WaitingOK'
           /\ Waiting' = Append(Waiting, x)
<1>1. CONSBUFSIZE \in Nat \ {0} /\ x # NO BY ConsoleAssumption
<1>2. /\ Count \in 0 .. CONSBUFSIZE - 1 /\ Waiting \in Seq(Chars)
      /\ Len(Waiting) = Count
      /\ \A i \in 1 .. Count : Waiting[i] = buf[Wrap(rpos + i - 1)]
  BY WaitingProperties
<1>3. buf' = [buf EXCEPT ![wpos] = x] /\ wpos' = Advance(wpos)
  BY <1>1 DEF Store
<1>4. /\ buf' \in [0 .. CONSBUFSIZE - 1 -> Chars \cup {NO}]
      /\ wpos' \in 0 .. CONSBUFSIZE - 1
  <2>1. wpos' \in 0 .. CONSBUFSIZE - 1 BY <1>1, <1>3 DEF TypeOK, Advance
  <2>2. buf \in [0 .. CONSBUFSIZE - 1 -> Chars \cup {NO}]
        /\ wpos \in 0 .. CONSBUFSIZE - 1
    BY DEF TypeOK
  <2> QED BY <2>1, <2>2, <1>3
<1>5. Count' = Count + 1
  BY <1>1, <1>3 DEF TypeOK, Advance, Count, Wrap
<1>6. Wrap(rpos + Count) = wpos
  BY <1>1 DEF TypeOK, Count, Wrap
<1>7. ASSUME NEW i \in 1 .. Count
      PROVE  /\ Wrap(rpos + i - 1) # wpos
             /\ Wrap(rpos + i - 1) \in 0 .. CONSBUFSIZE - 1
  BY <1>1, <1>2 DEF TypeOK, Count, Wrap
<1>8. \A i \in 1 .. Count : buf'[Wrap(rpos + i - 1)] = buf[Wrap(rpos + i - 1)]
  BY <1>3, <1>7 DEF TypeOK
<1>9. buf'[Wrap(rpos + Count)] = x
  BY <1>3, <1>6 DEF TypeOK
<1>10. Wrap(rpos + (Count + 1) - 1) = Wrap(rpos + Count)
  <2>1. rpos + (Count + 1) - 1 = rpos + Count BY <1>2 DEF TypeOK
  <2> QED BY <2>1
<1>11. \A i \in 1 .. Count + 1 : i \in 1 .. Count \/ i = Count + 1
  BY <1>2
<1>12. \A i \in 1 .. Count + 1 : buf'[Wrap(rpos + i - 1)] \in Chars
  BY <1>8, <1>9, <1>10, <1>11 DEF WaitingOK
<1>13. WaitingOK'
  BY <1>5, <1>12 DEF WaitingOK, Wrap
<1>14. Waiting' = [i \in 1 .. Count + 1 |-> buf'[Wrap(rpos + i - 1)]]
  BY <1>5 DEF Waiting, Count, Wrap
<1>15. Waiting' \in Seq(Chars) /\ Len(Waiting') = Count + 1
  BY <1>2, <1>12, <1>14
<1>16. \A i \in 1 .. Count + 1 : Waiting'[i] = Append(Waiting, x)[i]
  <2> TAKE i \in 1 .. Count + 1
  <2>1. CASE i \in 1 .. Count
    BY <2>1, <1>2, <1>8, <1>14
  <2>2. CASE i = Count + 1
    BY <2>2, <1>2, <1>9, <1>10, <1>14
  <2> QED BY <2>1, <2>2, <1>11
<1>17. Append(Waiting, x) \in Seq(Chars) /\ Len(Append(Waiting, x)) = Count + 1
  BY <1>2
<1>18. Waiting' = Append(Waiting, x)
  BY <1>15, <1>16, <1>17, SeqEqual
<1> QED BY <1>4, <1>5, <1>13, <1>18

\* Taking a character out removes the oldest.
LEMMA TakeRemoves ==
    ASSUME TypeOK, WaitingOK, rpos # wpos,
           rpos' = Advance(rpos), UNCHANGED <<buf, wpos>>
    PROVE  /\ rpos' \in 0 .. CONSBUFSIZE - 1
           /\ Waiting # <<>>
           /\ buf[rpos] = Head(Waiting)
           /\ Count' = Count - 1
           /\ WaitingOK'
           /\ Waiting' = Tail(Waiting)
<1>1. CONSBUFSIZE \in Nat \ {0} BY ConsoleAssumption
<1>2. /\ Count \in 0 .. CONSBUFSIZE - 1 /\ Waiting \in Seq(Chars)
      /\ Len(Waiting) = Count
      /\ \A i \in 1 .. Count : Waiting[i] = buf[Wrap(rpos + i - 1)]
  BY WaitingProperties
<1>3. Count # 0 BY <1>1 DEF TypeOK, Count, Wrap
<1>4. Wrap(rpos + 1 - 1) = rpos BY <1>1 DEF TypeOK, Wrap
<1>5. Waiting # <<>> /\ Head(Waiting) = Waiting[1] /\ 1 \in 1 .. Count
  BY <1>2, <1>3
<1>6. Head(Waiting) = buf[rpos] BY <1>2, <1>4, <1>5
<1>7. rpos' \in 0 .. CONSBUFSIZE - 1 BY <1>1 DEF TypeOK, Advance
<1>8. Count' = Count - 1
  BY <1>1 DEF TypeOK, Advance, Count, Wrap
<1>9. ASSUME NEW i \in 1 .. Count - 1
      PROVE  Wrap(rpos' + i - 1) = Wrap(rpos + (i + 1) - 1) /\ i + 1 \in 1 .. Count
  <2>1. Count - 1 <= CONSBUFSIZE - 2 BY <1>1, <1>2
  <2> QED BY <2>1, <1>1, <1>2 DEF TypeOK, Advance, Wrap
<1>10. WaitingOK'
  <2>1. \A i \in 1 .. Count - 1 : buf[Wrap(rpos' + i - 1)] \in Chars
    BY <1>9 DEF WaitingOK
  <2> QED BY <2>1, <1>8 DEF WaitingOK, Wrap
<1>11. Waiting' = [i \in 1 .. Count - 1 |-> buf[Wrap(rpos' + i - 1)]]
  BY <1>8 DEF Waiting, Count, Wrap
<1>12. \A i \in 1 .. Count - 1 : Waiting'[i] = Waiting[i + 1]
  BY <1>2, <1>9, <1>11
<1>13. Waiting' \in Seq(Chars) /\ Len(Waiting') = Count - 1
  <2>1. \A i \in 1 .. Count - 1 : buf[Wrap(rpos' + i - 1)] \in Chars
    BY <1>9 DEF WaitingOK
  <2> QED BY <2>1, <1>2, <1>3, <1>11
<1>14. Tail(Waiting) \in Seq(Chars) /\ Len(Tail(Waiting)) = Count - 1
       /\ \A i \in 1 .. Count - 1 : Tail(Waiting)[i] = Waiting[i + 1]
  BY <1>2, <1>5
<1>15. Waiting' = Tail(Waiting)
  BY <1>12, <1>13, <1>14, SeqEqual
<1> QED BY <1>5, <1>6, <1>7, <1>8, <1>10, <1>15

\* Steps that leave the ring alone leave what it holds alone.
LEMMA RingKept ==
    ASSUME UNCHANGED <<buf, rpos, wpos>>
    PROVE  Waiting' = Waiting /\ Count' = Count /\ (WaitingOK => WaitingOK')
BY DEF Waiting, Count, WaitingOK, Wrap

\* The ring starts empty.
LEMMA InitInv == Init => RingInv /\ Queue!QueueInit
<1> SUFFICES ASSUME Init PROVE RingInv /\ Queue!QueueInit OBVIOUS
<1>1. CONSBUFSIZE \in Nat \ {0} /\ TypeAhead \in Nat BY ConsoleAssumption
<1>2. TypeOK BY <1>1 DEF Init, TypeOK, Chars
<1>3. Count = 0 BY <1>1 DEF Init, Count, Wrap
<1>4. WaitingOK BY <1>3 DEF WaitingOK
<1>5. Waiting = <<>>
  <2>1. Waiting \in Seq(Chars) /\ Len(Waiting) = 0
    BY <1>2, <1>3, <1>4, WaitingProperties
  <2> QED BY <2>1
<1>6. Ahead BY <1>1, <1>5 DEF Init, Ahead
<1> QED BY <1>2, <1>4, <1>5, <1>6 DEF RingInv, Init, Queue!QueueInit

\* What the body of cons_intr() does to the queue.
LEMMA StoreStep ==
    ASSUME TypeOK, WaitingOK, Count < CONSBUFSIZE - 1,
           NEW x \in Chars \cup {NO}, Store(x), UNCHANGED <<rpos, c>>
    PROVE  /\ buf' \in [0 .. CONSBUFSIZE - 1 -> Chars \cup {NO}]
           /\ wpos' \in 0 .. CONSBUFSIZE - 1
           /\ WaitingOK'
           /\ Len(Waiting') \in 0 .. Len(Waiting) + 1
           /\ [Queue!QueueNext]_<<Waiting, c>>
<1>1. Waiting \in Seq(Chars) BY WaitingProperties
<1>2. CASE x = NO
  <2>1. UNCHANGED <<buf, rpos, wpos>> BY <1>2 DEF Store
  <2> QED BY <2>1, <1>1, RingKept DEF TypeOK
<1>3. CASE x # NO
  <2>1. x \in Chars BY <1>3
  <2>2. /\ buf' \in [0 .. CONSBUFSIZE - 1 -> Chars \cup {NO}]
        /\ wpos' \in 0 .. CONSBUFSIZE - 1 /\ WaitingOK'
        /\ Waiting' = Append(Waiting, x)
    BY <2>1, StoreAppends
  <2>3. Len(Waiting') = Len(Waiting) + 1 BY <1>1, <2>1, <2>2
  <2>4. Queue!QueueNext BY <2>1, <2>2 DEF Queue!QueueNext, Queue!Put
  <2> QED BY <1>1, <2>2, <2>3, <2>4
<1> QED BY <1>2, <1>3

\* Every step keeps the invariant and is one of the queue, or none.
LEMMA NextInv ==
    ASSUME TypeAhead < CONSBUFSIZE, RingInv, [Next]_vars
    PROVE  RingInv' /\ [Queue!QueueNext]_<<Waiting, c>>
<1> USE DEF RingInv
<1>1. CONSBUFSIZE \in Nat \ {0} /\ TypeAhead \in Nat /\ NO \notin Chars
  BY ConsoleAssumption
<1>2. /\ Count \in 0 .. CONSBUFSIZE - 1 /\ Waiting \in Seq(Chars)
      /\ Len(Waiting) = Count
  BY WaitingProperties
<1>3. /\ serial \in Seq(Chars \cup {NO}) /\ kbd \in Seq(Chars \cup {NO})
      /\ Len(serial) \in Nat /\ Len(kbd) \in Nat /\ Len(Waiting) \in Nat
  BY <1>2 DEF TypeOK
<1>4. serial # <<>> \/ kbd # <<>> => Count < CONSBUFSIZE - 1
  <2>1. Len(serial) + Len(kbd) + Count <= TypeAhead BY <1>2 DEF Ahead
  <2>2. serial # <<>> \/ kbd # <<>> => Len(serial) + Len(kbd) >= 1 BY <1>3
  <2> QED BY <2>1, <2>2, <1>1, <1>2, <1>3
<1>5. ASSUME NEW x \in Chars \cup {NO}, SerialReceives(x)
      PROVE  RingInv' /\ [Queue!QueueNext]_<<Waiting, c>>
  <2>1. UNCHANGED <<kbd, buf, rpos, wpos, pc, c, text>> /\ MayArrive
    BY <1>5 DEF SerialReceives
  <2>2. serial' \in Seq(Chars \cup {NO}) /\ Len(serial') = Len(serial) + 1
    BY <1>3, <1>5 DEF SerialReceives
  <2>3. Waiting' = Waiting /\ WaitingOK' BY <2>1, RingKept
  <2>4. TypeOK' BY <2>1, <2>2 DEF TypeOK
  <2>5. Ahead' BY <1>1, <1>3, <2>1, <2>2, <2>3 DEF Ahead, MayArrive
  <2> QED BY <2>1, <2>3, <2>4, <2>5
<1>6. ASSUME NEW x \in Chars \cup {NO}, KbdReceives(x)
      PROVE  RingInv' /\ [Queue!QueueNext]_<<Waiting, c>>
  <2>1. UNCHANGED <<serial, buf, rpos, wpos, pc, c, text>> /\ MayArrive
    BY <1>6 DEF KbdReceives
  <2>2. kbd' \in Seq(Chars \cup {NO}) /\ Len(kbd') = Len(kbd) + 1
    BY <1>3, <1>6 DEF KbdReceives
  <2>3. Waiting' = Waiting /\ WaitingOK' BY <2>1, RingKept
  <2>4. TypeOK' BY <2>1, <2>2 DEF TypeOK
  <2>5. Ahead' BY <1>1, <1>3, <2>1, <2>2, <2>3 DEF Ahead, MayArrive
  <2> QED BY <2>1, <2>3, <2>4, <2>5
<1>7. CASE PollSerial
  <2>1. CASE serial = <<>>
    <3>1. UNCHANGED <<serial, kbd, buf, rpos, wpos, c, text>> /\ pc' = "kbd"
      BY <1>7, <2>1 DEF PollSerial
    <3>2. Waiting' = Waiting /\ WaitingOK' BY <3>1, RingKept
    <3>3. TypeOK' BY <3>1 DEF TypeOK
    <3> QED BY <3>1, <3>2, <3>3 DEF Ahead
  <2>2. CASE serial # <<>>
    <3>1. /\ Store(Head(serial)) /\ serial' = Tail(serial)
          /\ UNCHANGED <<kbd, rpos, c, text, pc>>
      BY <1>7, <2>2 DEF PollSerial
    <3>2. /\ Head(serial) \in Chars \cup {NO}
          /\ serial' \in Seq(Chars \cup {NO}) /\ Len(serial') = Len(serial) - 1
      BY <1>3, <2>2, <3>1
    <3>3. /\ buf' \in [0 .. CONSBUFSIZE - 1 -> Chars \cup {NO}]
          /\ wpos' \in 0 .. CONSBUFSIZE - 1 /\ WaitingOK'
          /\ Len(Waiting') \in 0 .. Len(Waiting) + 1
          /\ [Queue!QueueNext]_<<Waiting, c>>
      BY <1>4, <2>2, <3>1, <3>2, StoreStep
    <3>4. TypeOK' BY <3>1, <3>2, <3>3 DEF TypeOK
    <3>5. Ahead' BY <1>1, <1>3, <3>1, <3>2, <3>3 DEF Ahead
    <3> QED BY <3>3, <3>4, <3>5
  <2> QED BY <2>1, <2>2
<1>8. CASE PollKbd
  <2>1. CASE kbd = <<>>
    <3>1. UNCHANGED <<serial, kbd, buf, rpos, wpos, c, text>> /\ pc' = "take"
      BY <1>8, <2>1 DEF PollKbd
    <3>2. Waiting' = Waiting /\ WaitingOK' BY <3>1, RingKept
    <3>3. TypeOK' BY <3>1 DEF TypeOK
    <3> QED BY <3>1, <3>2, <3>3 DEF Ahead
  <2>2. CASE kbd # <<>>
    <3>1. /\ Store(Head(kbd)) /\ kbd' = Tail(kbd)
          /\ UNCHANGED <<serial, rpos, c, text, pc>>
      BY <1>8, <2>2 DEF PollKbd
    <3>2. /\ Head(kbd) \in Chars \cup {NO}
          /\ kbd' \in Seq(Chars \cup {NO}) /\ Len(kbd') = Len(kbd) - 1
      BY <1>3, <2>2, <3>1
    <3>3. /\ buf' \in [0 .. CONSBUFSIZE - 1 -> Chars \cup {NO}]
          /\ wpos' \in 0 .. CONSBUFSIZE - 1 /\ WaitingOK'
          /\ Len(Waiting') \in 0 .. Len(Waiting) + 1
          /\ [Queue!QueueNext]_<<Waiting, c>>
      BY <1>4, <2>2, <3>1, <3>2, StoreStep
    <3>4. TypeOK' BY <3>1, <3>2, <3>3 DEF TypeOK
    <3>5. Ahead' BY <1>1, <1>3, <3>1, <3>2, <3>3 DEF Ahead
    <3> QED BY <3>3, <3>4, <3>5
  <2> QED BY <2>1, <2>2
<1>9. CASE Take
  <2>1. CASE rpos # wpos
    <3>1. /\ c' = buf[rpos] /\ rpos' = Advance(rpos) /\ pc' = "edit"
          /\ UNCHANGED <<serial, kbd, buf, wpos, text>>
      BY <1>9, <2>1 DEF Take
    <3>2. /\ rpos' \in 0 .. CONSBUFSIZE - 1
          /\ Waiting # <<>> /\ buf[rpos] = Head(Waiting)
          /\ WaitingOK' /\ Waiting' = Tail(Waiting)
      BY <2>1, <3>1, TakeRemoves
    <3>3. Head(Waiting) \in Chars /\ Len(Waiting') = Len(Waiting) - 1
      BY <1>2, <3>2
    <3>4. TypeOK' BY <3>1, <3>2, <3>3 DEF TypeOK
    <3>5. Ahead' BY <1>1, <1>3, <3>1, <3>3 DEF Ahead
    <3>6. Queue!QueueNext BY <3>1, <3>2 DEF Queue!QueueNext, Queue!Get
    <3> QED BY <3>2, <3>4, <3>5, <3>6
  <2>2. CASE rpos = wpos
    <3>1. /\ c' = NO /\ pc' = "serial"
          /\ UNCHANGED <<serial, kbd, buf, rpos, wpos, text>>
      BY <1>9, <2>2 DEF Take
    <3>2. Waiting' = Waiting /\ WaitingOK' BY <3>1, RingKept
    <3>3. Count = 0 BY <1>1, <2>2 DEF Count, Wrap, TypeOK
    <3>4. Waiting = <<>> BY <1>2, <3>3
    <3>5. TypeOK' BY <3>1 DEF TypeOK
    <3>6. Queue!QueueNext BY <3>1, <3>2, <3>4 DEF Queue!QueueNext, Queue!Get
    <3> QED BY <3>1, <3>2, <3>5, <3>6 DEF Ahead
  <2> QED BY <2>1, <2>2
<1>10. CASE Edit
  <2>1. UNCHANGED <<serial, kbd, buf, rpos, wpos, c>> BY <1>10 DEF Edit
  <2>2. text' \in Seq(Chars) /\ pc' \in {"serial", "kbd", "take", "edit", "run", "ptdump"}
    <3>1. text \in Seq(Chars) BY DEF TypeOK
    <3>2. text # <<>> => Front(text) \in Seq(Chars)
      BY <3>1 DEF Front
    <3>3. c \in Printable \cup {DEL} => Append(text, c) \in Seq(Chars)
      BY <3>1 DEF Chars
    <3> QED BY <1>10, <3>1, <3>2, <3>3 DEF Edit
  <2>3. Waiting' = Waiting /\ WaitingOK' BY <2>1, RingKept
  <2>4. TypeOK' BY <2>1, <2>2 DEF TypeOK
  <2> QED BY <2>1, <2>3, <2>4 DEF Ahead
<1>11. CASE RunCmd
  <2>1. /\ UNCHANGED <<serial, kbd, buf, rpos, wpos, c>>
        /\ text' \in {<<>>, text} /\ pc' \in {"serial", "ptdump"}
    BY <1>11 DEF RunCmd
  <2>2. Waiting' = Waiting /\ WaitingOK' BY <2>1, RingKept
  <2>3. text' \in Seq(Chars)
    <3>1. <<>> \in Seq(Chars) /\ text \in Seq(Chars) BY DEF TypeOK
    <3> QED BY <2>1, <3>1
  <2>4. TypeOK' BY <2>1, <2>3 DEF TypeOK
  <2> QED BY <2>1, <2>2, <2>4 DEF Ahead
<1>12. CASE UNCHANGED vars
  <2>1. UNCHANGED <<serial, kbd, buf, rpos, wpos, pc, c, text>> BY <1>12 DEF vars
  <2>2. Waiting' = Waiting /\ WaitingOK' BY <2>1, RingKept
  <2>3. TypeOK' BY <2>1 DEF TypeOK
  <2> QED BY <2>1, <2>2, <2>3 DEF Ahead
<1> QED
  BY <1>5, <1>6, <1>7, <1>8, <1>9, <1>10, <1>11, <1>12 DEF Next, Cpu, Arrive

\* Storing a character keeps the index in the ring, full or not.
LEMMA StoreTypes ==
    ASSUME TypeOK, NEW x \in Chars \cup {NO}, Store(x)
    PROVE  /\ buf' \in [0 .. CONSBUFSIZE - 1 -> Chars \cup {NO}]
           /\ wpos' \in 0 .. CONSBUFSIZE - 1
<1>1. CONSBUFSIZE \in Nat \ {0} BY ConsoleAssumption
<1>2. /\ buf \in [0 .. CONSBUFSIZE - 1 -> Chars \cup {NO}]
      /\ wpos \in 0 .. CONSBUFSIZE - 1
  BY DEF TypeOK
<1>3. CASE x = NO BY <1>2, <1>3 DEF Store
<1>4. CASE x # NO
  <2>1. buf' = [buf EXCEPT ![wpos] = x] /\ wpos' = Advance(wpos)
    BY <1>4 DEF Store
  <2>2. wpos' \in 0 .. CONSBUFSIZE - 1 BY <1>1, <1>2, <2>1 DEF Advance
  <2> QED BY <1>2, <2>1, <2>2
<1> QED BY <1>3, <1>4

\* rpos and wpos stay in the ring and everything in it is a character, however
\* far the user is ahead of the reader.
THEOREM ConsoleTypeCorrect == Spec => []TypeOK
<1>1. Init => TypeOK BY ConsoleAssumption DEF Init, TypeOK, Chars
<1>2. TypeOK /\ [Next]_vars => TypeOK'
  <2> SUFFICES ASSUME TypeOK, [Next]_vars PROVE TypeOK'
    OBVIOUS
  <2>0. /\ CONSBUFSIZE \in Nat \ {0}
        /\ serial \in Seq(Chars \cup {NO}) /\ kbd \in Seq(Chars \cup {NO})
        /\ text \in Seq(Chars)
    BY ConsoleAssumption DEF TypeOK
  <2>1. ASSUME NEW x \in Chars \cup {NO}, SerialReceives(x) PROVE TypeOK'
    <3>1. serial' \in Seq(Chars \cup {NO}) BY <2>0, <2>1 DEF SerialReceives
    <3> QED BY <2>1, <3>1 DEF SerialReceives, TypeOK
  <2>2. ASSUME NEW x \in Chars \cup {NO}, KbdReceives(x) PROVE TypeOK'
    <3>1. kbd' \in Seq(Chars \cup {NO}) BY <2>0, <2>2 DEF KbdReceives
    <3> QED BY <2>2, <3>1 DEF KbdReceives, TypeOK
  <2>3. CASE PollSerial
    <3>1. CASE serial = <<>> BY <2>3, <3>1 DEF PollSerial, TypeOK
    <3>2. CASE serial # <<>>
      <4>1. Head(serial) \in Chars \cup {NO} /\ Tail(serial) \in Seq(Chars \cup {NO})
        BY <2>0, <3>2
      <4>2. /\ buf' \in [0 .. CONSBUFSIZE - 1 -> Chars \cup {NO}]
            /\ wpos' \in 0 .. CONSBUFSIZE - 1
        BY <2>3, <3>2, <4>1, StoreTypes DEF PollSerial
      <4> QED BY <2>3, <3>2, <4>1, <4>2 DEF PollSerial, TypeOK
    <3> QED BY <3>1, <3>2
  <2>4. CASE PollKbd
    <3>1. CASE kbd = <<>> BY <2>4, <3>1 DEF PollKbd, TypeOK
    <3>2. CASE kbd # <<>>
      <4>1. Head(kbd) \in Chars \cup {NO} /\ Tail(kbd) \in Seq(Chars \cup {NO})
        BY <2>0, <3>2
      <4>2. /\ buf' \in [0 .. CONSBUFSIZE - 1 -> Chars \cup {NO}]
            /\ wpos' \in 0 .. CONSBUFSIZE - 1
        BY <2>4, <3>2, <4>1, StoreTypes DEF PollKbd
      <4> QED BY <2>4, <3>2, <4>1, <4>2 DEF PollKbd, TypeOK
    <3> QED BY <3>1, <3>2
  <2>5. CASE Take
    <3>1. Advance(rpos) \in 0 .. CONSBUFSIZE - 1 BY <2>0 DEF TypeOK, Advance
    <3> QED BY <2>5, <3>1 DEF Take, TypeOK
  <2>6. CASE Edit
    <3>1. text # <<>> => Front(text) \in Seq(Chars) BY <2>0 DEF Front
    <3>2. c \in Printable \cup {DEL} => Append(text, c) \in Seq(Chars)
      BY <2>0 DEF Chars
    <3>3. text' \in Seq(Chars) /\ pc' \in {"serial", "kbd", "take", "edit", "run", "ptdump"}
      BY <2>0, <2>6, <3>1, <3>2 DEF Edit
    <3> QED BY <2>6, <3>3 DEF Edit, TypeOK
  <2>7. CASE RunCmd
    <3>1. <<>> \in Seq(Chars) /\ text \in Seq(Chars) BY <2>0 DEF TypeOK
    <3>2. text' = <<>> \/ text' = text BY <2>7 DEF RunCmd
    <3>3. text' \in Seq(Chars) BY <3>1, <3>2
    <3> QED BY <2>0, <2>7, <3>3 DEF RunCmd, TypeOK
  <2>8. CASE UNCHANGED vars BY <2>8 DEF vars, TypeOK
  <2> QED
    BY <2>1, <2>2, <2>3, <2>4, <2>5, <2>6, <2>7, <2>8 DEF Next, Cpu, Arrive
<1> QED BY <1>1, <1>2, PTL DEF Spec

\* cons_intr() and cons_getc() implement a queue: whatever the size of the ring
\* and however the devices and the reader interleave, no character is lost,
\* repeated or overtaken while the user is less than a ring ahead.
THEOREM RingIsQueue ==
    TypeAhead < CONSBUFSIZE => (Spec => ImplementsInputQueue)
<1> SUFFICES ASSUME TypeAhead < CONSBUFSIZE PROVE Spec => ImplementsInputQueue
  OBVIOUS
<1>1. Init => RingInv /\ Queue!QueueInit BY InitInv
<1>2. RingInv /\ [Next]_vars => RingInv' /\ [Queue!QueueNext]_<<Waiting, c>>
  BY NextInv
<1>3. ImplementsInputQueue <=>
        (Queue!QueueInit /\ [][Queue!QueueNext]_<<Waiting, c>>)
  BY DEF ImplementsInputQueue, Queue!QueueSpec, Queue!queueVars
<1> QED BY <1>1, <1>2, <1>3, PTL DEF Spec

\* readline() never writes behind its buffer and keeps characters that end or
\* erase a line out of the line, whatever is typed and however fast.
THEOREM LineFitsBuffer == Spec => []LineOK
<1> DEFINE LineInv == text \in Seq(Chars) /\ LineOK
<1>0. BUFLEN \in Nat \ {0} BY ConsoleAssumption
<1>1. Init => LineInv BY <1>0 DEF Init, LineOK
<1>2. LineInv /\ [Next]_vars => LineInv'
  <2> SUFFICES ASSUME LineInv, [Next]_vars PROVE LineInv'
    OBVIOUS
  <2>1. CASE UNCHANGED text BY <2>1 DEF LineOK
  <2>2. CASE text' = <<>> BY <1>0, <2>2 DEF LineOK
  <2>3. CASE text # <<>> /\ text' = Front(text)
    <3>1. /\ text' \in Seq(Chars) /\ Len(text') = Len(text) - 1
          /\ \A i \in DOMAIN text' : i \in DOMAIN text /\ text'[i] = text[i]
      <4>1. text' = SubSeq(text, 1, Len(text) - 1) /\ Len(text) \in Nat \ {0}
        BY <2>3 DEF Front
      <4>2. /\ text' \in Seq(Chars) /\ Len(text') = Len(text) - 1
            /\ \A i \in 1 .. Len(text) - 1 : text'[i] = text[i]
        <5> DEFINE m == Len(text) - 1
        <5>1. m \in Nat /\ \A i \in 1 .. m : text[i] \in Chars BY <4>1
        <5>2. /\ SubSeq(text, 1, m) \in Seq(Chars)
              /\ Len(SubSeq(text, 1, m)) = IF 1 <= m THEN m - 1 + 1 ELSE 0
              /\ \A i \in 1 .. m - 1 + 1 : SubSeq(text, 1, m)[i] = text[1 + i - 1]
          BY <5>1, SubSeqProperties
        <5> HIDE DEF m
        <5>3. \A i \in 1 .. m : i \in 1 .. m - 1 + 1 /\ 1 + i - 1 = i BY <5>1
        <5>4. text' = SubSeq(text, 1, m) BY <4>1 DEF m
        <5>5. Len(text') = m BY <5>1, <5>2, <5>4
        <5>6. \A i \in 1 .. m : text'[i] = text[i] BY <5>2, <5>3, <5>4
        <5> QED BY <5>2, <5>4, <5>5, <5>6 DEF m
      <4> QED BY <4>1, <4>2
    <3> QED BY <1>0, <3>1 DEF LineOK
  <2>4. CASE /\ ~ (c \in {BACKSPACE, DEL} /\ text # <<>>)
             /\ c \in Printable \cup {DEL} /\ Fits
             /\ text' = Append(text, c)
    <3>1. /\ text' \in Seq(Chars) /\ Len(text') = Len(text) + 1
          /\ DOMAIN text' = 1 .. Len(text) + 1 /\ DOMAIN text = 1 .. Len(text)
          /\ \A i \in 1 .. Len(text) : text'[i] = text[i]
          /\ text'[Len(text) + 1] = c
      BY <2>4 DEF Chars
    <3>2. Len(text') < BUFLEN BY <1>0, <2>4, <3>1 DEF Fits
    <3>3. c = DEL => Len(text) + 1 = 1 BY <2>4
    <3>4. ASSUME NEW i \in DOMAIN text'
          PROVE  text'[i] \in Printable \/ (text'[i] = DEL /\ i = 1)
      <4>1. CASE i \in 1 .. Len(text) BY <3>1, <4>1 DEF LineOK
      <4>2. CASE i = Len(text) + 1 BY <2>4, <3>1, <3>3, <4>2
      <4> QED BY <3>1, <4>1, <4>2
    <3> QED BY <3>1, <3>2, <3>4 DEF LineOK
  <2> QED
    BY <2>1, <2>2, <2>3, <2>4 DEF Next, Cpu, Arrive, vars, SerialReceives,
       KbdReceives, PollSerial, PollKbd, Take, Edit, RunCmd
<1>3. LineInv => LineOK OBVIOUS
<1> QED BY <1>1, <1>2, <1>3, PTL DEF Spec
=============================================================================
