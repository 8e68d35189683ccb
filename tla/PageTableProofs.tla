-------------------------- MODULE PageTableProofs --------------------------
(***************************************************************************)
(* Proofs about PageTable, for every size of memory and of the tables.     *)
(*                                                                         *)
(* The types need what a call under way may be (CallType).  That no mapped *)
(* page is free needs more: counts cover the references (CountsCover),     *)
(* nothing refers to the root and a walk that changes entries meets it at  *)
(* the top only (RootUnreferenced, RootOnTop), and the page of a           *)
(* page_insert() under way is either not mapped yet or has a reference     *)
(* besides the entry it replaces (InsertHeld): an entry replaced by itself *)
(* would otherwise free the page it maps.  All that holds until a call     *)
(* goes astray: nothing is assumed of what memory holds (IndInv).          *)
(***************************************************************************)
EXTENDS PageTable, FiniteSetTheorems, TLAPS

-----------------------------------------------------------------------------
(* The invariants *)

InsertCall ==
    [name : {"insert"}, page : Pages, va : Addrs,
     flags : {f \in SUBSET Flags : "PRESENT" \in f /\ "HUGE" \notin f}]
BootMapCall ==
    [name : {"boot_map"}, va : Addrs, size : Nat, page : Nat, flags : SUBSET Flags]
DumpCall == [name : {"dump"}, around : BOOLEAN, mask : SUBSET Flags]
RemoveCall == [name : {"remove"}, va : Addrs, size : Nat]
LookupCall == [name : {"lookup"}, va : Addrs]

Calls == InsertCall \cup BootMapCall \cup DumpCall \cup RemoveCall \cup LookupCall

CallType == pc = "walk" => op \in Calls /\ Len(loops) \in 1 .. 4

TypeInv == TypeOK /\ CallType

Walking(name) == pc = "walk" /\ op.name = name

Root == loops[Len(loops)]

\* The root has no table yet.
RootEmpty == \A i \in Slots : ~ Present(entries[kernel_pml4][i])

\* Boot maps nothing: the root has no table yet, and the walk asks for none.
BootMapsNothing ==
    /\ setup <= Len(BootCalls) => RootEmpty
    /\ pc = "walk" /\ setup <= Len(BootCalls) => op.name = "boot_map"
    /\ Walking("boot_map") /\ op.page < NPAGES => RootEmpty
    /\ Walking("boot_map") /\ RootEmpty => Len(loops) = 1

\* Nothing refers to the root, and no page is counted too little.
RootUnreferenced == kernel_pml4 \notin free /\ References(kernel_pml4) = {}

FreeUncounted == \A p \in free : pp_ref[p] = 0

MemoryInv == RootUnreferenced /\ CountsCover /\ FreeUncounted

\* A walk that changes entries meets the root at the top only; its outer loops
\* are in their body.
Changing == pc = "walk" /\ op.name \notin {"lookup", "dump"}

RootOnTop ==
    Changing =>
        /\ Root.table = kernel_pml4
        /\ \A i \in 1 .. Len(loops) - 1 : loops[i].table # kernel_pml4
        /\ \A i \in 2 .. Len(loops) : loops[i].next < loops[i].end

\* The page to be inserted is not free, and not freed when it replaces itself:
\* once an entry of the root refers to it, the walk goes on below or at another.
InsertHeld ==
    Walking("insert") =>
        /\ op.page \notin free /\ op.page # kernel_pml4
        /\ Len(loops) > 1 =>
               <<kernel_pml4, Index(4, Root.next)>> \in References(op.page)
        /\ Len(loops) = 1 /\ Root.next < Root.end =>
               \/ References(op.page) = {}
               \/ \E y \in References(op.page) : y # <<kernel_pml4, Index(4, Root.next)>>

PageInv == TypeInv /\ MemoryInv /\ RootOnTop /\ BootMapsNothing /\ InsertHeld

-----------------------------------------------------------------------------
(* Arithmetic of addresses *)

\* What the assumptions say of one level.
LEMMA SpanFacts ==
    ASSUME NEW k \in Levels
    PROVE  /\ Span[k] \in Nat /\ Span[k] > 0
           /\ WORD % Span[k] = 0
           /\ WORD \in Nat /\ WORD > 0 /\ ENTRIES \in Nat /\ ENTRIES > 0
<1>1. Span \in [Levels -> Nat \ {0}]
  BY PageTableAssumption
<1>2. Span[k] \in Nat /\ Span[k] > 0
  BY <1>1
<1>3. WORD % Span[k] = 0
  BY SpanAssumption
<1> QED
  BY <1>2, <1>3, PageTableAssumption

\* Multiples of a number are that number apart.
LEMMA NextMultiple ==
    ASSUME NEW s \in Nat, s > 0, NEW i \in Int, NEW j \in Int, i * s < j * s
    PROVE  i * s + s <= j * s
<1>1. i < j
  <2>1. CASE i >= j
    <3>1. (i - j) * s >= 0
      BY <2>1
    <3>2. (i - j) * s = i * s - j * s
      OBVIOUS
    <3> QED
      BY <3>1, <3>2
  <2> QED
    BY <2>1
<1>2. (j - i - 1) * s >= 0
  BY <1>1
<1>3. (j - i - 1) * s = j * s - i * s - s
  OBVIOUS
<1> QED
  BY <1>2, <1>3

\* Division with remainder.
LEMMA DivMod ==
    ASSUME NEW n \in Nat, NEW s \in Nat, s > 0
    PROVE  /\ \E i \in Nat : n = (i * s) + (n % s)
           /\ n % s \in 0 .. s - 1
<1>1. n = (n \div s) * s + (n % s) /\ n \div s \in Nat
  BY SMT
<1>2. n % s \in 0 .. s - 1
  OBVIOUS
<1> QED
  BY <1>1, <1>2

\* The entry an address selects is one of the table.
LEMMA IndexInTable ==
    ASSUME NEW k \in Levels, NEW a \in Nat
    PROVE  Index(k, a) \in Slots
<1>1. a \div Span[k] \in Nat
  BY SpanFacts
<1> QED
  BY <1>1, SpanFacts DEF Index, Slots

\* The last address of an entry is an address, and not before the one given.
LEMMA EndIsAddress ==
    ASSUME NEW k \in Levels, NEW a \in Addrs
    PROVE  End(k, a) \in Addrs /\ a <= End(k, a)
<1> DEFINE s == Span[k]
<1>1. s \in Nat /\ s > 0 /\ WORD \in Nat /\ WORD % s = 0 /\ a \in Nat /\ a < WORD
  BY SpanFacts DEF Addrs
<1> HIDE DEF s
<1>2. PICK i \in Nat : a = (i * s) + (a % s)
  BY <1>1, DivMod
<1>3. PICK j \in Nat : WORD = j * s
  BY <1>1, DivMod
<1>4. a % s \in 0 .. s - 1
  BY <1>1, DivMod
<1>5. i * s \in Nat /\ j * s \in Nat
  BY <1>1
<1>6. i * s < j * s
  BY <1>1, <1>2, <1>3, <1>4, <1>5
<1>7. i * s + s <= j * s
  BY <1>1, <1>6, NextMultiple
<1>8. End(k, a) = i * s + s - 1
  BY <1>1, <1>2, <1>4, <1>5 DEF End, s
<1> QED
  BY <1>1, <1>2, <1>3, <1>4, <1>5, <1>7, <1>8 DEF Addrs

LEMMA RoundDownIsAddress ==
    ASSUME NEW a \in Nat
    PROVE  RoundDown(a) \in Nat /\ RoundDown(a) <= a
<1>1. a % Span[1] \in 0 .. Span[1] - 1 /\ a % Span[1] <= a
  BY SpanFacts DEF Levels
<1> QED
  BY <1>1, SpanFacts DEF RoundDown, PAGE_SIZE, Levels

-----------------------------------------------------------------------------
(* The stack of loops *)

Stacked(l) ==
    /\ l \in Seq(LoopType)
    /\ \A i \in DOMAIN l : l[i].level = 4 - Len(l) + i

\* An address after another one, modulo WORD.
LEMMA NextIsAddress ==
    ASSUME NEW a \in Nat
    PROVE  a % WORD \in Addrs
BY PageTableAssumption DEF Addrs

\* The loop of the innermost level steps, the others wait.
LEMMA Stepped ==
    ASSUME NEW l, Stacked(l), l # <<>>
    PROVE  /\ Stacked(StepLoop(l))
           /\ Len(StepLoop(l)) = Len(l)
           /\ StepLoop(l)[1] =
                  [l[1] EXCEPT !.next = (End(l[1].level, l[1].next) + 1) % WORD]
           /\ \A i \in 2 .. Len(l) : StepLoop(l)[i] = l[i]
<1> DEFINE a == (End(l[1].level, l[1].next) + 1) % WORD
           h == [l[1] EXCEPT !.next = a]
<1>1. l \in Seq(LoopType) /\ Len(l) \in Nat /\ Len(l) >= 1 /\ l[1] \in LoopType
  BY DEF Stacked
<1>2. End(l[1].level, l[1].next) + 1 \in Nat
  <2>1. l[1].level \in Levels /\ l[1].next \in Addrs
    BY <1>1 DEF LoopType
  <2>2. End(l[1].level, l[1].next) \in Addrs
    BY <2>1, EndIsAddress
  <2> QED
    BY <2>2 DEF Addrs
<1>3. a \in Addrs
  BY <1>2, NextIsAddress
<1>4. StepLoop(l) = <<h>> \o Tail(l)
  BY <1>1 DEF StepLoop
<1> HIDE DEF a
<1>5. h \in LoopType /\ h.level = l[1].level
  BY <1>1, <1>3 DEF LoopType
<1> HIDE DEF h
<1>6. Tail(l) \in Seq(LoopType) /\ Len(Tail(l)) = Len(l) - 1
      /\ \A i \in 1 .. Len(l) - 1 : Tail(l)[i] = l[i + 1]
  BY <1>1
<1>7. <<h>> \in Seq(LoopType) /\ Len(<<h>>) = 1 /\ <<h>>[1] = h
  BY <1>5
<1>8. /\ StepLoop(l) \in Seq(LoopType) /\ Len(StepLoop(l)) = Len(l)
      /\ StepLoop(l)[1] = h
      /\ \A i \in 2 .. Len(l) : StepLoop(l)[i] = Tail(l)[i - 1]
  BY <1>1, <1>4, <1>6, <1>7
<1>9. \A i \in 2 .. Len(l) : StepLoop(l)[i] = l[i]
  BY <1>1, <1>6, <1>8
<1>10. \A i \in DOMAIN StepLoop(l) : StepLoop(l)[i].level = 4 - Len(l) + i
  BY <1>1, <1>5, <1>8, <1>9 DEF Stacked
<1> QED
  BY <1>8, <1>9, <1>10 DEF Stacked, h, a

\* A loop over the table below is put on the stack.
LEMMA Pushed ==
    ASSUME NEW l, Stacked(l), l # <<>>,
           NEW m \in LoopType, m.level = l[1].level - 1
    PROVE  /\ Stacked(<<m>> \o l)
           /\ Len(<<m>> \o l) = Len(l) + 1
           /\ (<<m>> \o l)[1] = m
           /\ \A i \in 1 .. Len(l) : (<<m>> \o l)[i + 1] = l[i]
<1> DEFINE n == <<m>> \o l
<1>1. l \in Seq(LoopType) /\ Len(l) \in Nat /\ Len(l) >= 1
      /\ l[1].level = 5 - Len(l)
  BY DEF Stacked
<1>2. <<m>> \in Seq(LoopType) /\ Len(<<m>>) = 1 /\ <<m>>[1] = m
  OBVIOUS
<1>3. n \in Seq(LoopType) /\ Len(n) = Len(l) + 1 /\ n[1] = m
      /\ \A i \in 2 .. Len(l) + 1 : n[i] = l[i - 1]
  BY <1>1, <1>2
<1>4. \A i \in 1 .. Len(l) : n[i + 1] = l[i]
  BY <1>1, <1>3
<1> HIDE DEF n
<1>5. \A i \in DOMAIN n : n[i].level = 4 - Len(n) + i
  BY <1>1, <1>3 DEF Stacked
<1>6. Stacked(n)
  BY <1>3, <1>5 DEF Stacked
<1> QED
  BY <1>3, <1>4, <1>6 DEF n

\* The loop of the innermost level is left.
LEMMA Left ==
    ASSUME NEW l, Stacked(l), Len(l) > 1
    PROVE  /\ Stacked(Tail(l))
           /\ Len(Tail(l)) = Len(l) - 1 /\ Tail(l) # <<>>
           /\ \A i \in 1 .. Len(l) - 1 : Tail(l)[i] = l[i + 1]
<1>1. l \in Seq(LoopType)
  BY DEF Stacked
<1>2. /\ Len(l) \in Nat /\ l # <<>>
      /\ Tail(l) \in Seq(LoopType) /\ Len(Tail(l)) = Len(l) - 1
      /\ \A i \in 1 .. Len(l) - 1 : Tail(l)[i] = l[i + 1]
  BY <1>1
<1>3. \A i \in DOMAIN Tail(l) : Tail(l)[i].level = 4 - Len(Tail(l)) + i
  BY <1>1, <1>2 DEF Stacked
<1>4. Tail(l) # <<>>
  <2>1. Len(Tail(l)) # 0
    BY <1>2
  <2>2. Tail(l) = <<>> => Len(Tail(l)) = 0
    OBVIOUS
  <2> QED
    BY <2>1, <2>2
<1> QED
  BY <1>2, <1>3, <1>4 DEF Stacked

\* One loop over the PML4.
LEMMA Single ==
    ASSUME NEW m \in LoopType, m.level = 4
    PROVE  Stacked(<<m>>) /\ Len(<<m>>) = 1 /\ <<m>>[1] = m
<1>1. <<m>> \in Seq(LoopType) /\ Len(<<m>>) = 1 /\ <<m>>[1] = m
  OBVIOUS
<1>2. \A i \in DOMAIN <<m>> : <<m>>[i].level = 4 - Len(<<m>>) + i
  BY <1>1
<1> QED
  BY <1>1, <1>2 DEF Stacked

\* How many loops there may be.
LEMMA Lengths ==
    ASSUME NEW n \in 1 .. 4
    PROVE  (n = 1 \/ n > 1) /\ (n > 1 <=> n # 1) /\ (n > 1 <=> n \in 2 .. 4)
OBVIOUS

-----------------------------------------------------------------------------
(* Types *)

\* What pml4_setup() maps is regions.
LEMMA BootCallsAreRegions ==
    BootCalls \in Seq(Regions)
<1> DEFINE s == [i \in DOMAIN ProgramHeaders |-> RegionOf(ProgramHeaders[i])]
<1>1. /\ KernelRegion \in Regions /\ StackRegion \in Regions
      /\ PagesRegion \in Regions
  BY PageTableAssumption
<1>2. s \in Seq(Regions)
  <2>1. /\ DOMAIN ProgramHeaders = 1 .. Len(ProgramHeaders)
        /\ Len(ProgramHeaders) \in Nat
    BY PageTableAssumption
  <2>2. \A i \in DOMAIN ProgramHeaders : RegionOf(ProgramHeaders[i]) \in Regions
    <3> TAKE i \in DOMAIN ProgramHeaders
    <3> DEFINE h == ProgramHeaders[i]
    <3> DEFINE T == [load : BOOLEAN, va : Addrs, size : Nat, pa : Nat,
                     exec : BOOLEAN, write : BOOLEAN]
    <3>1. ProgramHeaders \in Seq(T)
      BY PageTableAssumption
    <3> HIDE DEF T
    <3>2. h \in T
      BY <3>1
    <3>3. /\ h.va \in Addrs /\ h.size \in Nat /\ h.pa \in Nat
      BY <3>2 DEF T
    <3> HIDE DEF h
    <3>4. RegionOf(h) \in Regions
      BY <3>3 DEF RegionOf, Regions, Flags
    <3> QED
      BY <3>4 DEF h
  <2> QED
    BY <2>1, <2>2
<1> HIDE DEF s
<1>3. <<KernelRegion>> \in Seq(Regions) /\ <<StackRegion, PagesRegion>> \in Seq(Regions)
  BY <1>1
<1> QED
  BY <1>2, <1>3 DEF BootCalls, s

\* A call begins with one loop over the PML4.
LEMMA WalkFromType ==
    ASSUME NEW base \in Addrs, NEW end \in Addrs, WalkFrom(base, end)
    PROVE  /\ Stacked(loops') /\ Len(loops') = 1
           /\ loops'[1] = Loop(4, kernel_pml4, base, end)
           /\ pc' = "walk"
<1>1. Loop(4, kernel_pml4, base, end) \in LoopType
  BY PageTableAssumption DEF Loop, LoopType, Levels
<1>2. Loop(4, kernel_pml4, base, end).level = 4
  BY DEF Loop
<1> QED
  BY <1>1, <1>2, Single DEF WalkFrom

LEMMA WalkPageRangeType ==
    ASSUME NEW base \in Addrs, NEW end \in Nat, WalkPageRange(base, end)
    PROVE  /\ Stacked(loops') /\ Len(loops') = 1
           /\ loops'[1] = Loop(4, kernel_pml4, RoundDown(base),
                              (RoundUp(end % WORD) + WORD - 1) % WORD)
           /\ pc' = "walk"
<1>0. base \in Nat /\ base < WORD /\ WORD \in Nat
  BY PageTableAssumption DEF Addrs
<1>1. RoundDown(base) \in Addrs
  BY <1>0, RoundDownIsAddress DEF Addrs
<1>2. (RoundUp(end % WORD) + WORD - 1) % WORD \in Addrs
  <2>0. /\ end % WORD \in Nat
        /\ WORD \in Nat /\ WORD > 0
    BY <1>0, NextIsAddress DEF Addrs
  <2>1. PAGE_SIZE \in Nat /\ PAGE_SIZE >= 2
    BY SpanFacts, SpanAssumption DEF PAGE_SIZE, Levels
  <2>2. (end % WORD) + PAGE_SIZE - 1 \in Nat
    BY <2>0, <2>1
  <2>3. ((end % WORD) + PAGE_SIZE - 1) % WORD \in Nat
    BY <2>2, NextIsAddress DEF Addrs
  <2>4. RoundUp(end % WORD) \in Nat
    BY <2>3, RoundDownIsAddress DEF RoundUp
  <2>5. RoundUp(end % WORD) + WORD - 1 \in Nat
    BY <2>0, <2>4
  <2> QED
    BY <2>5, NextIsAddress
<1> QED
  BY <1>1, <1>2, WalkFromType DEF WalkPageRange

\* Where a walk is.
LEMMA Where ==
    ASSUME TypeOK, loops # <<>>
    PROVE  /\ Stacked(loops) /\ Top = loops[1]
           /\ Len(loops) \in Nat /\ Len(loops) >= 1
           /\ Top.level = 5 - Len(loops)
           /\ Top \in LoopType /\ Top.table \in Pages /\ Top.next \in Addrs
           /\ Slot \in Slots /\ Entry \in Entries
<1>1. /\ Stacked(loops) /\ loops \in Seq(LoopType)
      /\ Len(loops) \in Nat /\ Len(loops) >= 1 /\ Top = loops[1]
  BY DEF TypeOK, Stacked, Top
<1>2. Top \in LoopType /\ Top.level = 5 - Len(loops)
  BY <1>1 DEF Stacked
<1>3. Top.table \in Pages /\ Top.next \in Addrs /\ Top.level \in Levels
  BY <1>2 DEF LoopType
<1>4. Slot \in Slots
  BY <1>3, IndexInTable DEF Slot, Addrs
<1>5. Entry \in Entries
  BY <1>3, <1>4 DEF Entry, TypeOK
<1> QED
  BY <1>1, <1>2, <1>3, <1>4, <1>5

\* An entry is set.
LEMMA SetType ==
    ASSUME TypeOK, loops # <<>>, NEW e \in Entries, Set(e)
    PROVE  /\ entries' \in [Pages -> [Slots -> Entries]]
           /\ entries'[Top.table][Slot] = e
           /\ \A p \in Pages, i \in Slots :
                  <<p, i>> # <<Top.table, Slot>> => entries'[p][i] = entries[p][i]
           /\ leftover' = leftover \ {<<Top.table, Slot>>}
           /\ leftover' \subseteq Pages \X Slots
<1>1. Top.table \in Pages /\ Slot \in Slots
  BY Where
<1>2. entries' = [entries EXCEPT ![Top.table][Slot] = e]
  BY DEF Set
<1>3. entries \in [Pages -> [Slots -> Entries]] /\ leftover \subseteq Pages \X Slots
  BY DEF TypeOK
<1> DEFINE t == Top.table
           i == Slot
<1> HIDE DEF t, i
<1>4. t \in Pages /\ i \in Slots /\ entries' = [entries EXCEPT ![t][i] = e]
  BY <1>1, <1>2 DEF t, i
<1>5. /\ entries' \in [Pages -> [Slots -> Entries]]
      /\ entries'[t][i] = e
      /\ \A p \in Pages, j \in Slots : <<p, j>> # <<t, i>> => entries'[p][j] = entries[p][j]
  BY <1>3, <1>4
<1>6. leftover' = leftover \ {<<t, i>>}
  BY DEF Set, t, i
<1> QED
  BY <1>3, <1>5, <1>6 DEF t, i

\* The counts stay counts.
LEMMA CountTypes ==
    ASSUME NEW n \in 0 .. REF_LIM - 1
    PROVE  Plus(n) \in 0 .. REF_LIM - 1 /\ Minus(n) \in 0 .. REF_LIM - 1
BY PageTableAssumption DEF Plus, Minus

\* After its callbacks a walk steps, descends or is lost.
LEMMA Proceeds ==
    ASSUME TypeOK, InBody, Len(loops) \in 1 .. 4, Proceed,
           entries'[Top.table][Slot] \in Entries
    PROVE  LET e == entries'[Top.table][Slot]
           IN  \/ loops' = StepLoop(loops) /\ pc' = "walk" /\ ~ Descends(e)
                  /\ Stacked(loops') /\ Len(loops') = Len(loops)
               \/ /\ pc' = "walk" /\ Descends(e) /\ e.page \in Pages
                  /\ Stacked(loops') /\ Len(loops') = Len(loops) + 1 /\ Len(loops') <= 4
                  /\ loops'[1].table = e.page
                  /\ loops'[1].next = Top.next
                  /\ \A i \in 1 .. Len(loops) : loops'[i + 1] = loops[i]
               \/ loops' = loops /\ pc' = "wild"
<1> DEFINE e == entries'[Top.table][Slot]
           m == Loop(Top.level - 1, e.page, Top.next, End(Top.level, Top.next))
<1>0. loops # <<>>
  BY DEF InBody
<1>1. CASE ~ Descends(e)
  BY <1>0, <1>1, Where, Stepped DEF Proceed
<1>2. CASE Descends(e) /\ e.page \in Pages
  <2>1. loops' = <<m>> \o loops /\ pc' = "walk"
    BY <1>2 DEF Proceed
  <2>2. Top.level \in Levels /\ Top.level > 1 /\ Top.next \in Addrs
    BY <1>0, <1>2, Where DEF Descends, LoopType
  <2>3. End(Top.level, Top.next) \in Addrs
    BY <2>2, EndIsAddress
  <2>4. m \in LoopType /\ m.level = Top.level - 1 /\ m.table = e.page /\ m.next = Top.next
    BY <1>2, <2>2, <2>3 DEF Loop, LoopType, Levels
  <2> HIDE DEF m
  <2>5. /\ Stacked(loops') /\ Len(loops') = Len(loops) + 1 /\ loops'[1] = m
        /\ \A i \in 1 .. Len(loops) : loops'[i + 1] = loops[i]
    BY <1>0, <2>1, <2>4, Where, Pushed
  <2>6. Len(loops') <= 4
    BY <1>0, <2>2, <2>5, Where
  <2> QED
    BY <1>2, <2>1, <2>4, <2>5, <2>6
<1>3. CASE Descends(e) /\ e.page \notin Pages
  BY <1>3 DEF Proceed
<1> QED
  BY <1>1, <1>2, <1>3

MemoryType ==
    /\ entries \in [Pages -> [Slots -> Entries]]
    /\ pp_ref \in [Pages -> 0 .. REF_LIM - 1]
    /\ free \subseteq Pages
    /\ leftover \subseteq Pages \X Slots

LEMMA TypeOKParts ==
    TypeOK <=> /\ MemoryType /\ Stacked(loops) /\ astray \in BOOLEAN
               /\ setup \in 1 .. Len(BootCalls) + 1
               /\ pc \in {"idle", "walk", "panic", "wild"}
BY DEF TypeOK, MemoryType, Stacked

\* The records of the calls are told apart by their names.
LEMMA CallsByName ==
    ASSUME NEW c \in Calls
    PROVE  /\ c.name = "insert" => c \in InsertCall
           /\ c.name = "boot_map" => c \in BootMapCall
           /\ c.name = "dump" => c \in DumpCall
           /\ c.name = "remove" => c \in RemoveCall
           /\ c.name = "lookup" => c \in LookupCall
BY DEF Calls, InsertCall, BootMapCall, DumpCall, RemoveCall, LookupCall

\* An iteration leaves the types as they are if its callbacks do.
LEMMA ProceedType ==
    ASSUME TypeInv, pc = "walk", InBody, Proceed,
           MemoryType', setup' = setup, op' \in Calls
    PROVE  TypeInv'
<1>1. TypeOK /\ Len(loops) \in 1 .. 4 /\ loops # <<>>
  BY DEF TypeInv, CallType, InBody
<1>2. entries'[Top.table][Slot] \in Entries
  BY <1>1, Where DEF MemoryType
<1>3. Stacked(loops') /\ (pc' = "walk" => Len(loops') \in 1 .. 4)
      /\ pc' \in {"walk", "wild"}
  <2>1. CASE Stacked(loops') /\ Len(loops') = Len(loops) /\ pc' = "walk"
    BY <1>1, <2>1
  <2>2. CASE Stacked(loops') /\ Len(loops') = Len(loops) + 1 /\ Len(loops') <= 4
             /\ pc' = "walk"
    BY <1>1, <2>2
  <2>3. CASE loops' = loops /\ pc' = "wild"
    <3>1. Stacked(loops)
      BY <1>1, TypeOKParts
    <3> QED
      BY <2>3, <3>1
  <2> QED
    BY <1>1, <1>2, <2>1, <2>2, <2>3, Proceeds
<1>4. setup' \in 1 .. Len(BootCalls) + 1 /\ astray' \in BOOLEAN
  BY <1>1, TypeOKParts DEF Proceed
<1>5. TypeOK'
  BY <1>3, <1>4 DEF TypeOK, MemoryType, Stacked
<1> QED
  BY <1>3, <1>5 DEF TypeInv, CallType

\* One reference less, and the page freed if it was the last.
LEMMA DecrefType ==
    ASSUME MemoryType, NEW e, e.page \in Pages
    PROVE  /\ Decref(e) \in [Pages -> 0 .. REF_LIM - 1]
           /\ FreedBy(e) \subseteq Pages
<1>1. Minus(pp_ref[e.page]) \in 0 .. REF_LIM - 1
  BY CountTypes DEF MemoryType
<1> QED
  BY <1>1 DEF MemoryType, Decref, FreedBy

LEMMA InstallType ==
    ASSUME TypeOK, loops # <<>>, op \in InsertCall, ~ Unmanaged(Entry), Install
    PROVE  MemoryType'
<1> DEFINE new == [page |-> op.page, flags |-> op.flags]
           refs == IF Present(Entry) THEN Decref(Entry) ELSE pp_ref
<1>1. op.page \in Pages /\ new \in Entries
  BY PageTableAssumption DEF InsertCall, Entries, Pages
<1>2. entries' \in [Pages -> [Slots -> Entries]] /\ leftover' \subseteq Pages \X Slots
  BY <1>1, SetType DEF Install
<1>3. MemoryType
  BY TypeOKParts
<1>4. Present(Entry) => Entry.page \in Pages
  BY DEF Unmanaged
<1>5. refs \in [Pages -> 0 .. REF_LIM - 1] /\ free' \subseteq Pages
  BY <1>3, <1>4, DecrefType DEF Install, MemoryType
<1>6. pp_ref' = [refs EXCEPT ![op.page] = Plus(@)]
  BY DEF Install
<1> HIDE DEF refs
<1>7. Plus(refs[op.page]) \in 0 .. REF_LIM - 1
  BY <1>1, <1>5, CountTypes
<1>8. pp_ref' \in [Pages -> 0 .. REF_LIM - 1]
  BY <1>1, <1>5, <1>6, <1>7
<1> QED
  BY <1>2, <1>5, <1>8 DEF MemoryType

LEMMA NewTableType ==
    ASSUME TypeOK, loops # <<>>, free # {}, NewTable
    PROVE  MemoryType'
<1> DEFINE p == PickFree(free)
           new == [page |-> p, flags |-> {"PRESENT", "WRITE", "USER"}]
<1>1. MemoryType
  BY TypeOKParts
<1>2. p \in free /\ p \in Pages
  BY <1>1, PickFreeAssumption DEF MemoryType
<1>3. new \in Entries
  BY <1>2, PageTableAssumption DEF Entries, Pages, Flags
<1>4. Plus(pp_ref[p]) \in 0 .. REF_LIM - 1
  BY <1>1, <1>2, CountTypes DEF MemoryType
<1>5. entries' \in [Pages -> [Slots -> Entries]] /\ leftover' \subseteq Pages \X Slots
  BY <1>3, SetType DEF NewTable
<1> QED
  BY <1>1, <1>2, <1>4, <1>5 DEF MemoryType, NewTable

LEMMA ClearType ==
    ASSUME TypeOK, loops # <<>>, Entry.page \in Pages, Clear(Entry)
    PROVE  MemoryType'
<1>1. MemoryType
  BY TypeOKParts
<1>2. HOLE \in Entries
  BY DEF HOLE, Entries
<1>3. entries' \in [Pages -> [Slots -> Entries]] /\ leftover' \subseteq Pages \X Slots
  BY <1>2, SetType DEF Clear
<1> QED
  BY <1>1, <1>3, DecrefType DEF MemoryType, Clear

\* A call begins.
LEMMA BeginType ==
    ASSUME TypeInv, MemoryType', setup' \in 1 .. Len(BootCalls) + 1, op' \in Calls,
           astray' \in BOOLEAN, NEW base \in Addrs, NEW end \in Nat, WalkPageRange(base, end)
    PROVE  TypeInv'
<1>1. Stacked(loops') /\ Len(loops') = 1 /\ pc' = "walk"
  BY WalkPageRangeType
<1>2. TypeOK'
  BY <1>1 DEF TypeOK, MemoryType, Stacked
<1> QED
  BY <1>1, <1>2 DEF TypeInv, CallType

\* Nothing is under way after a step that ends or refuses a call.
LEMMA StopType ==
    ASSUME TypeInv, UNCHANGED memory, setup' \in 1 .. Len(BootCalls) + 1,
           astray' = astray, loops' = loops \/ loops' = <<>>, pc' \in {"idle", "panic", "wild"}
    PROVE  TypeInv'
<1>1. MemoryType /\ Stacked(loops) /\ astray \in BOOLEAN
  BY TypeOKParts DEF TypeInv
<1>2. MemoryType'
  BY <1>1 DEF MemoryType, memory
<1>3. Stacked(<<>>)
  BY DEF Stacked
<1>4. Stacked(loops')
  BY <1>1, <1>3
<1>5. TypeOK'
  BY <1>1, <1>2, <1>4 DEF TypeOK, MemoryType, Stacked
<1> QED
  BY <1>5 DEF TypeInv, CallType

LEMMA UnchangedMemoryType ==
    ASSUME TypeInv, UNCHANGED memory
    PROVE  MemoryType'
BY TypeOKParts DEF TypeInv, MemoryType, memory

\* What an iteration for a call named so finds.
LEMMA InType ==
    ASSUME TypeInv, NEW name, NEW ks, In(name, ks)
    PROVE  /\ TypeOK /\ pc = "walk" /\ InBody /\ loops # <<>>
           /\ op \in Calls /\ op.name = name /\ Top.level \in ks
           /\ Len(loops) \in 1 .. 4 /\ Entry \in Entries
<1>1. TypeOK /\ pc = "walk" /\ InBody /\ loops # <<>>
      /\ op \in Calls /\ op.name = name /\ Top.level \in ks /\ Len(loops) \in 1 .. 4
  BY DEF In, TypeInv, CallType, InBody
<1> QED
  BY <1>1, Where

LEMMA PageSizeIsNat == PAGE_SIZE \in Nat /\ PAGE_SIZE > 0
BY SpanFacts DEF PAGE_SIZE, Levels

LEMMA SetupType ==
    ASSUME TypeInv
    PROVE  /\ setup \in 1 .. Len(BootCalls) + 1 /\ Len(BootCalls) \in Nat
           /\ astray \in BOOLEAN
BY TypeOKParts, BootCallsAreRegions DEF TypeInv

\* The call of page_insert() with any flags the callers ask for.
LEMMA InsertCallType ==
    ASSUME NEW p \in Pages, NEW va \in InsertAddrs, NEW perms \in Permissions
    PROVE  /\ [name |-> "insert", page |-> p, va |-> va, flags |-> perms \cup {"PRESENT"}]
                  \in InsertCall
           /\ va \in Addrs /\ va + PAGE_SIZE \in Nat
<1>1. va \in Addrs
  BY PageTableAssumption
<1>2. perms \cup {"PRESENT"} \in {f \in SUBSET Flags : "PRESENT" \in f /\ "HUGE" \notin f}
  BY DEF Permissions, Flags
<1>3. va + PAGE_SIZE \in Nat
  BY <1>1, PageSizeIsNat DEF Addrs
<1> QED
  BY <1>1, <1>2, <1>3 DEF InsertCall

\* What a page just allocated may hold.
LEMMA ContentsType ==
    ASSUME NEW t \in {Empty} \cup PageData
    PROVE  t \in [Slots -> Entries]
<1>1. Empty \in [Slots -> Entries]
  BY DEF Empty, HOLE, Entries
<1> QED
  BY <1>1, PageTableAssumption

LEMMA FreshType ==
    ASSUME TypeInv, NEW va \in InsertAddrs, NEW perms \in Permissions,
           PageInsertFresh(va, perms)
    PROVE  TypeInv'
<1> DEFINE p == PickFree(free)
<1>1. MemoryType
  BY TypeOKParts DEF TypeInv
<1>2. p \in Pages
  BY <1>1, PickFreeAssumption DEF PageInsertFresh, MemoryType
<1>3. /\ free' = free \ {p}
      /\ \/ UNCHANGED <<entries, leftover>>
         \/ \E t \in {Empty} \cup PageData :
               /\ entries' = [entries EXCEPT ![p] = t]
               /\ leftover' = (leftover \ ({p} \X Slots)) \cup PresentIn(p, t)
      /\ op' = [name |-> "insert", page |-> p, va |-> va, flags |-> perms \cup {"PRESENT"}]
      /\ WalkPageRange(va, va + PAGE_SIZE) /\ pp_ref' = pp_ref /\ setup' = setup
      /\ astray' = astray
  BY DEF PageInsertFresh, Begin
<1> HIDE DEF p
<1>4. entries' \in [Pages -> [Slots -> Entries]] /\ leftover' \subseteq Pages \X Slots
  <2>1. CASE UNCHANGED <<entries, leftover>>
    BY <1>1, <2>1 DEF MemoryType
  <2>2. ASSUME NEW t \in {Empty} \cup PageData,
               entries' = [entries EXCEPT ![p] = t],
               leftover' = (leftover \ ({p} \X Slots)) \cup PresentIn(p, t)
        PROVE  <1>4!:
    <3>1. t \in [Slots -> Entries]
      BY ContentsType
    <3>2. PresentIn(p, t) \subseteq Pages \X Slots
      BY <1>2 DEF PresentIn
    <3> QED
      BY <1>1, <1>2, <2>2, <3>1, <3>2 DEF MemoryType
  <2> QED
    BY <1>3, <2>1, <2>2
<1>5. MemoryType'
  BY <1>1, <1>3, <1>4 DEF MemoryType
<1>6. op' \in Calls /\ va \in Addrs /\ va + PAGE_SIZE \in Nat
  BY <1>2, <1>3, InsertCallType DEF Calls
<1> QED
  BY <1>3, <1>5, <1>6, SetupType, BeginType

LEMMA AgainType ==
    ASSUME TypeInv, NEW a, NEW va \in InsertAddrs,
           NEW perms \in Permissions, PageInsertAgain(a, va, perms)
    PROVE  TypeInv'
<1>1. op' \in Calls /\ va \in Addrs /\ va + PAGE_SIZE \in Nat
  BY InsertCallType DEF PageInsertAgain, Calls
<1>2. astray' \in BOOLEAN
  BY DEF PageInsertAgain
<1> QED
  BY <1>1, <1>2, UnchangedMemoryType, SetupType, BeginType DEF PageInsertAgain, Begin

LEMMA RangeType ==
    ASSUME TypeInv, NEW r \in Ranges,
           UnmapPageRange(r[1], r[2]) \/ PageLookup(r[1])
    PROVE  TypeInv'
<1>1. r[1] \in Addrs /\ r[2] \in Nat /\ r[1] + r[2] \in Nat /\ r[1] + PAGE_SIZE \in Nat
  BY PageTableAssumption, PageSizeIsNat DEF Addrs
<1>2. CASE UnmapPageRange(r[1], r[2])
  <2>1. op' \in Calls
    BY <1>1, <1>2 DEF UnmapPageRange, Calls, RemoveCall
  <2> QED
    BY <1>1, <1>2, <2>1, UnchangedMemoryType, SetupType, BeginType DEF UnmapPageRange, Begin
<1>3. CASE PageLookup(r[1])
  <2>1. op' \in Calls
    BY <1>1, <1>3 DEF PageLookup, Calls, LookupCall
  <2> QED
    BY <1>1, <1>3, <2>1, UnchangedMemoryType, SetupType, BeginType DEF PageLookup, Begin
<1> QED
  BY <1>2, <1>3

LEMMA BootMapType ==
    ASSUME TypeInv, NEW b \in Regions, BootMapRegion(b),
           setup' \in 1 .. Len(BootCalls) + 1
    PROVE  TypeInv' /\ op' \in BootMapCall
<1>1. /\ b.va \in Addrs /\ b.size \in Nat /\ b.pa \in Nat /\ b.flags \in SUBSET Flags
      /\ b.va + b.size \in Nat
  BY DEF Regions, Addrs
<1>2. op' \in BootMapCall
  BY <1>1 DEF BootMapRegion, BootMapCall
<1>3. op' \in Calls
  BY <1>2 DEF Calls
<1> QED
  BY <1>1, <1>2, <1>3, UnchangedMemoryType, SetupType, BeginType DEF BootMapRegion

LEMMA DumpType ==
    ASSUME TypeInv, NEW mask \in DumpMasks, DumpPageTables(mask)
    PROVE  TypeInv'
<1>1. op' \in Calls
  BY PageTableAssumption DEF DumpPageTables, Calls, DumpCall, Flags
<1>2. 0 \in Addrs /\ WORD - 1 \in Addrs
  BY PageTableAssumption DEF Addrs
<1>3. Stacked(loops') /\ Len(loops') = 1 /\ pc' = "walk"
  BY <1>2, WalkFromType DEF DumpPageTables, WalkAllPages
<1>4. MemoryType' /\ setup' \in 1 .. Len(BootCalls) + 1 /\ astray' \in BOOLEAN
  BY UnchangedMemoryType, SetupType DEF DumpPageTables, Begin
<1>5. TypeOK'
  BY <1>3, <1>4 DEF TypeOK, MemoryType, Stacked
<1> QED
  BY <1>1, <1>3, <1>5 DEF TypeInv, CallType

\* A step of a walk keeps the types.
LEMMA WalkType ==
    ASSUME TypeInv, Walk
    PROVE  TypeInv'
<1>1. CASE InsertPte
  <2>1. In("insert", {1, 4}) /\ op' = op /\ setup' = setup
    BY <1>1 DEF InsertPte
  <2>2. op \in InsertCall
    BY <2>1, InType, CallsByName
  <2>3. MemoryType'
    BY <1>1, <2>1, <2>2, InType, InstallType DEF InsertPte
  <2> QED
    BY <1>1, <2>1, <2>3, InType, ProceedType DEF InsertPte
<1>2. CASE InsertPde
  <2>1. In("insert", {2, 3}) /\ op' = op /\ setup' = setup
    BY <1>2 DEF InsertPde
  <2>2. TypeOK /\ loops # <<>> /\ op \in InsertCall
    BY <2>1, InType, CallsByName
  <2>3. CASE Huge(Entry)
    <3>1. MemoryType'
      BY <1>2, <2>2, <2>3, InstallType DEF InsertPde
    <3> QED
      BY <1>2, <2>1, <3>1, InType, ProceedType DEF InsertPde
  <2>4. CASE ~ Huge(Entry) /\ Present(Entry)
    <3>1. MemoryType'
      BY <1>2, <2>4, UnchangedMemoryType DEF InsertPde, PtblAlloc
    <3> QED
      BY <1>2, <2>1, <3>1, InType, ProceedType DEF InsertPde
  <2>5. CASE ~ Huge(Entry) /\ ~ Present(Entry)
    <3>1. MemoryType'
      BY <1>2, <2>2, <2>5, NewTableType DEF InsertPde, PtblAlloc
    <3> QED
      BY <1>2, <2>1, <3>1, InType, ProceedType DEF InsertPde
  <2> QED
    BY <2>3, <2>4, <2>5
<1>3. CASE RemovePte
  <2>1. In("remove", {1}) /\ op' = op /\ setup' = setup
    BY <1>3 DEF RemovePte
  <2>2. MemoryType'
    <3>1. CASE Present(Entry)
      BY <1>3, <2>1, <3>1, InType, ClearType DEF RemovePte, Unmanaged
    <3>2. CASE ~ Present(Entry)
      BY <1>3, <3>2, UnchangedMemoryType DEF RemovePte
    <3> QED
      BY <3>1, <3>2
  <2> QED
    BY <1>3, <2>1, <2>2, InType, ProceedType DEF RemovePte
<1>4. CASE RemovePde
  <2>1. In("remove", {2}) /\ op' = op /\ setup' = setup
    BY <1>4 DEF RemovePde
  <2>2. MemoryType'
    <3>1. CASE Present(Entry) /\ Huge(Entry)
      BY <1>4, <2>1, <3>1, InType, ClearType DEF RemovePde, Unmanaged
    <3>2. CASE ~ (Present(Entry) /\ Huge(Entry))
      BY <1>4, <3>2, UnchangedMemoryType DEF RemovePde
    <3> QED
      BY <3>1, <3>2
  <2> QED
    BY <1>4, <2>1, <2>2, InType, ProceedType DEF RemovePde
<1>5. CASE LookupEntry
  BY <1>5, InType, UnchangedMemoryType, ProceedType DEF LookupEntry
<1>6. CASE BootMapPte
  <2>1. In("boot_map", {1}) /\ setup' = setup
    BY <1>6 DEF BootMapPte
  <2>2. TypeOK /\ loops # <<>> /\ op \in BootMapCall
    BY <2>1, InType, CallsByName
  <2>3. op' \in BootMapCall
    BY <1>6, <2>2 DEF BootMapPte, BootMapCall
  <2>4. [page |-> op.page, flags |-> op.flags] \in Entries
    BY <2>2 DEF BootMapCall, Entries
  <2>5. MemoryType'
    BY <1>6, <2>2, <2>4, SetType, TypeOKParts DEF BootMapPte, MemoryType
  <2> QED
    BY <1>6, <2>1, <2>3, <2>5, InType, ProceedType DEF BootMapPte, Calls
<1>7. CASE BootMapPde
  <2>1. In("boot_map", {2}) /\ setup' = setup
    BY <1>7 DEF BootMapPde
  <2>2. TypeOK /\ loops # <<>> /\ op \in BootMapCall
    BY <2>1, InType, CallsByName
  <2>3. op' \in BootMapCall
    <3>1. op.page + ENTRIES \in Nat
      BY <2>2, PageTableAssumption DEF BootMapCall
    <3> QED
      BY <1>7, <2>2, <3>1 DEF BootMapPde, BootMapCall
  <2>4. [page |-> op.page, flags |-> op.flags] \in Entries
    BY <2>2 DEF BootMapCall, Entries
  <2>5. MemoryType'
    <3>1. CASE "HUGE" \in op.flags \/ "PRESENT" \in op.flags
      BY <1>7, <2>2, <2>4, <3>1, SetType, TypeOKParts DEF BootMapPde, MemoryType
    <3>2. CASE ~ ("HUGE" \in op.flags \/ "PRESENT" \in op.flags)
      BY <1>7, <2>2, <3>2, NewTableType DEF BootMapPde
    <3> QED
      BY <3>1, <3>2
  <2> QED
    BY <1>7, <2>1, <2>3, <2>5, InType, ProceedType DEF BootMapPde, Calls
<1>8. CASE DumpEntry
  <2>1. In("dump", Levels) /\ setup' = setup
    BY <1>8 DEF DumpEntry
  <2>2. op \in DumpCall
    BY <2>1, InType, CallsByName
  <2>3. Present(Entry) \in BOOLEAN /\ Huge(Entry) \in BOOLEAN
    BY DEF Present, Huge
  <2>4. op' \in Calls
    BY <1>8, <2>2 DEF DumpEntry, DumpCall, Calls
  <2> QED
    BY <1>8, <2>1, <2>4, InType, UnchangedMemoryType, ProceedType DEF DumpEntry
<1>9. CASE Pass
  BY <1>9, InType, UnchangedMemoryType, ProceedType DEF Pass
<1>10. CASE LeaveLoop
  <2>1. TypeOK /\ Len(loops) \in 1 .. 4 /\ op \in Calls /\ Stacked(loops)
    BY <1>10, TypeOKParts DEF LeaveLoop, TypeInv, CallType
  <2>2. Stacked(loops') /\ Len(loops') \in 1 .. 4
    <3> DEFINE t == Tail(loops)
    <3>1. Stacked(t) /\ t # <<>> /\ Len(t) = Len(loops) - 1 /\ Len(loops) > 1
      BY <1>10, <2>1, Left DEF LeaveLoop
    <3>2. loops' = StepLoop(t)
      BY <1>10 DEF LeaveLoop
    <3> HIDE DEF t
    <3>3. Stacked(loops') /\ Len(loops') = Len(t)
      BY <3>1, <3>2, Stepped
    <3> QED
      BY <2>1, <3>1, <3>3
  <2>3. /\ MemoryType' /\ setup' \in 1 .. Len(BootCalls) + 1 /\ pc' = pc /\ op' = op
        /\ astray' \in BOOLEAN
    BY <1>10, UnchangedMemoryType, SetupType DEF LeaveLoop
  <2>4. TypeOK'
    BY <1>10, <2>2, <2>3 DEF TypeOK, MemoryType, Stacked, LeaveLoop
  <2> QED
    BY <2>1, <2>2, <2>3, <2>4 DEF TypeInv, CallType
<1>11. CASE LookupDone
  BY <1>11, SetupType, StopType DEF LookupDone
<1>12. CASE OtherDone
  BY <1>12, SetupType, StopType DEF OtherDone
<1>13. CASE NoSuchPage
  BY <1>13, SetupType, StopType DEF NoSuchPage
<1>14. CASE NoTable
  BY <1>14, SetupType, StopType DEF NoTable
<1>15. CASE FreeAgain
  BY <1>15, SetupType, StopType DEF FreeAgain
<1> QED
  BY <1>1, <1>2, <1>3, <1>4, <1>5, <1>6, <1>7, <1>8, <1>9, <1>10, <1>11, <1>12,
     <1>13, <1>14, <1>15 DEF Walk

\* A caller's step keeps them.
LEMMA CallKeepsType ==
    ASSUME TypeInv, Call
    PROVE  TypeInv'
<1>1. ASSUME NEW va \in InsertAddrs, PageInsertMisaligned(va)
      PROVE  TypeInv'
  BY <1>1, SetupType, StopType DEF PageInsertMisaligned, Begin
<1>2. ASSUME NEW b \in BootMaps, Begin, BootMapRegion(b)
      PROVE  TypeInv'
  BY <1>2, SetupType, BootMapType, PageTableAssumption DEF Begin
<1> QED
  BY <1>1, <1>2, FreshType, AgainType, RangeType, DumpType DEF Call

\* So does the next mapping of pml4_setup().
LEMMA Pml4SetupType ==
    ASSUME TypeInv, Pml4Setup
    PROVE  TypeInv'
<1>1. setup \in 1 .. Len(BootCalls) /\ setup' = setup + 1 /\ pc = "idle"
  BY SetupType DEF Pml4Setup
<1>2. setup' \in 1 .. Len(BootCalls) + 1
  BY <1>1, SetupType
<1>3. CASE PassedOver(setup)
  BY <1>1, <1>2, <1>3, StopType DEF Pml4Setup
<1>4. CASE ~ PassedOver(setup)
  <2>1. BootCalls[setup] \in Regions
    BY <1>1, BootCallsAreRegions
  <2> QED
    BY <1>2, <1>4, <2>1, BootMapType DEF Pml4Setup
<1> QED
  BY <1>3, <1>4

LEMMA InitType == Init => TypeInv
<1> SUFFICES ASSUME Init PROVE TypeInv
  OBVIOUS
<1>1. Empty \in [Slots -> Entries]
  BY DEF Empty, HOLE, Entries
<1>2. entries \in [Pages -> [Slots -> Entries]]
  <2>1. PICK m \in Leftovers : entries = [m EXCEPT ![kernel_pml4] = Empty]
    BY DEF Init
  <2>2. m \in [Pages -> [Slots -> Entries]]
    BY PageTableAssumption
  <2> QED
    BY <1>1, <2>1, <2>2
<1>3. leftover \subseteq Pages \X Slots
  BY DEF Init, PresentIn
<1>4. MemoryType
  BY <1>2, <1>3, PageTableAssumption DEF Init, MemoryType
<1>5. Stacked(<<>>)
  BY DEF Stacked
<1>6. Stacked(loops) /\ setup \in 1 .. Len(BootCalls) + 1 /\ pc = "idle"
  BY <1>5, BootCallsAreRegions DEF Init
<1>7. astray \in BOOLEAN
  BY DEF Init
<1> QED
  BY <1>4, <1>6, <1>7, TypeOKParts DEF TypeInv, CallType

LEMMA TypeStep == TypeInv /\ [Next]_vars => TypeInv'
<1> SUFFICES ASSUME TypeInv, [Next]_vars PROVE TypeInv'
  OBVIOUS
<1>1. CASE Next
  BY <1>1, WalkType, CallKeepsType, Pml4SetupType DEF Next
<1>2. CASE UNCHANGED vars
  BY <1>2 DEF vars, TypeInv, TypeOK, CallType
<1> QED
  BY <1>1, <1>2

\* Every variable keeps its type: a walk has at most one loop per level, and
\* every table it goes through is a page of memory, however often the callbacks
\* of insert.c, remove.c and map.c change the tables under it.
THEOREM TypeCorrect == Spec => []TypeOK
<1>1. Init => TypeInv
  BY InitType
<1>2. TypeInv /\ [Next]_vars => TypeInv'
  BY TypeStep
<1>3. TypeInv => TypeOK
  BY DEF TypeInv
<1> QED
  BY <1>1, <1>2, <1>3, PTL DEF Spec

-----------------------------------------------------------------------------
(* References and their counts *)

\* There are finitely many entries.
LEMMA ReferencesFinite ==
    ASSUME NEW p
    PROVE  /\ IsFiniteSet(References(p)) /\ Cardinality(References(p)) \in Nat
           /\ (Cardinality(References(p)) = 0 <=> References(p) = {})
<1>0. NPAGES - 1 \in Int /\ ENTRIES - 1 \in Int
  BY PageTableAssumption
<1>1. IsFiniteSet(Pages) /\ IsFiniteSet(Slots)
  BY <1>0, FS_Interval DEF Pages, Slots
<1>2. IsFiniteSet(Pages \X Slots)
  BY <1>1, FS_Product
<1>3. References(p) \subseteq Pages \X Slots
  BY DEF References
<1>4. IsFiniteSet(References(p))
  BY <1>2, <1>3, FS_Subset
<1> QED
  BY <1>4, FS_CardinalityType, FS_EmptySet

\* An entry set takes the place of one reference, at most, and adds one.
LEMMA SetReferences ==
    ASSUME TypeOK, loops # <<>>, NEW e \in Entries, Set(e), NEW p,
           <<Top.table, Slot>> \notin leftover
    PROVE  LET x == <<Top.table, Slot>>
           IN  /\ x \in References(p) <=> Present(Entry) /\ Entry.page = p
               /\ References(p)' = IF Present(e) /\ e.page = p
                                   THEN References(p) \cup {x} ELSE References(p) \ {x}
<1> DEFINE t == Top.table
           s == Slot
<1>1. t \in Pages /\ s \in Slots /\ Entry = entries[t][s]
  BY Where DEF Entry
<1>2. /\ entries'[t][s] = e
      /\ \A q \in Pages, i \in Slots :
            <<q, i>> # <<t, s>> => entries'[q][i] = entries[q][i]
      /\ leftover' = leftover \ {<<t, s>>} /\ <<t, s>> \notin leftover
  BY SetType
<1> HIDE DEF t, s
<1>3. <<t, s>> \in References(p) <=> Present(Entry) /\ Entry.page = p
  BY <1>1, <1>2 DEF References
<1>4. ASSUME NEW x \in Pages \X Slots, x # <<t, s>>
      PROVE  x \in References(p)' <=> x \in References(p)
  <2>1. entries'[x[1]][x[2]] = entries[x[1]][x[2]]
    BY <1>2, <1>4
  <2> QED
    BY <1>2, <1>4, <2>1 DEF References, Present
<1>5. <<t, s>> \in References(p)' <=> Present(e) /\ e.page = p
  BY <1>1, <1>2 DEF References, Present
<1>6. References(p) \subseteq Pages \X Slots /\ References(p)' \subseteq Pages \X Slots
  BY DEF References
<1>7. References(p)' = IF Present(e) /\ e.page = p
                      THEN References(p) \cup {<<t, s>>} ELSE References(p) \ {<<t, s>>}
  BY <1>1, <1>4, <1>5, <1>6
<1> QED
  BY <1>3, <1>7 DEF t, s

\* How one element more or less changes the number of references.
LEMMA OneMore ==
    ASSUME NEW S, IsFiniteSet(S), NEW x
    PROVE  /\ IsFiniteSet(S \cup {x})
           /\ Cardinality(S \cup {x}) =
                  IF x \in S THEN Cardinality(S) ELSE Cardinality(S) + 1
BY FS_AddElement

LEMMA OneLess ==
    ASSUME NEW S, IsFiniteSet(S), NEW x
    PROVE  /\ IsFiniteSet(S \ {x})
           /\ Cardinality(S \ {x}) =
                  IF x \in S THEN Cardinality(S) - 1 ELSE Cardinality(S)
BY FS_RemoveElement

\* Two different entries that refer to a page are counted as two.
LEMMA TwoReferences ==
    ASSUME NEW p, NEW x \in References(p), NEW y \in References(p), x # y
    PROVE  Cardinality(References(p)) >= 2
<1> DEFINE S == References(p)
<1>1. IsFiniteSet(S) /\ Cardinality(S) \in Nat
  BY ReferencesFinite
<1> HIDE DEF S
<1>2. x \in S /\ y \in S
  BY DEF S
<1>3. IsFiniteSet(S \ {x}) /\ Cardinality(S \ {x}) = Cardinality(S) - 1
  BY <1>1, <1>2, OneLess
<1>4. y \in S \ {x}
  BY <1>2
<1>5. Cardinality(S \ {x}) \in Nat /\ Cardinality(S \ {x}) # 0
  BY <1>3, <1>4, FS_CardinalityType, FS_EmptySet
<1> QED
  BY <1>1, <1>3, <1>5 DEF S

\* A page no free page, and no count 0, stands for an entry.
LEMMA Counted ==
    ASSUME CountsCover, FreeUncounted, MemoryType, NEW p \in Pages
    PROVE  /\ pp_ref[p] \in Nat
           /\ References(p) # {} => pp_ref[p] >= 1 /\ p \notin free
           /\ p \in free => References(p) = {} /\ pp_ref[p] = 0
<1>1. pp_ref[p] \in Nat /\ Cardinality(References(p)) <= pp_ref[p]
  BY PageTableAssumption DEF MemoryType, CountsCover
<1>2. References(p) # {} => pp_ref[p] >= 1
  BY <1>1, ReferencesFinite
<1> QED
  BY <1>1, <1>2 DEF FreeUncounted

\* Counting without overflow.
LEMMA PlainCounts ==
    ASSUME NEW n \in 0 .. REF_LIM - 1
    PROVE  /\ n >= 1 => Minus(n) = n - 1
           /\ n < REF_LIM - 1 => Plus(n) = n + 1
           /\ n >= 1 => Plus(Minus(n)) = n
<1>0. REF_LIM \in Nat /\ REF_LIM >= 2
  BY PageTableAssumption
<1>1. n >= 1 => Minus(n) = n - 1
  <2> SUFFICES ASSUME n >= 1 PROVE Minus(n) = n - 1
    OBVIOUS
  <2>1. n + REF_LIM - 1 = REF_LIM + (n - 1) /\ n - 1 \in 0 .. REF_LIM - 1
    BY <1>0
  <2> QED
    BY <1>0, <2>1 DEF Minus
<1>2. n < REF_LIM - 1 => Plus(n) = n + 1
  BY <1>0 DEF Plus
<1>3. n >= 1 => (n - 1) + 1 = n /\ n % REF_LIM = n
  BY <1>0
<1> QED
  BY <1>1, <1>2, <1>3 DEF Plus

-----------------------------------------------------------------------------
(* What the callbacks do to the counts *)

\* No count is about to wrap.
CountsBelowLimit == \A p \in Pages : pp_ref[p] < REF_LIM - 1

\* The page inserted is counted, the one it replaces no longer, and the two may
\* be the same if it has another reference.
LEMMA InstallCounts ==
    ASSUME TypeOK, loops # <<>>, MemoryInv, CountsBelowLimit,
           op \in InsertCall, op.page \notin free, op.page # kernel_pml4,
           ~ Unmanaged(Entry), Install, <<Top.table, Slot>> \notin leftover,
           Present(Entry) /\ Entry.page = op.page =>
               \E y \in References(op.page) : y # <<Top.table, Slot>>
    PROVE  MemoryInv' /\ op.page \notin free'
<1> DEFINE x == <<Top.table, Slot>>
           new == op.page
           old == Entry.page
           e == [page |-> op.page, flags |-> op.flags]
           refs == IF Present(Entry) THEN Decref(Entry) ELSE pp_ref
<1>1. /\ MemoryType /\ CountsCover /\ FreeUncounted /\ RootUnreferenced
      /\ REF_LIM \in Nat /\ REF_LIM >= 2
  BY TypeOKParts, PageTableAssumption DEF MemoryInv
<1>2. new \in Pages /\ e \in Entries /\ e.page = new /\ Present(e)
  BY PageTableAssumption DEF InsertCall, Entries, Pages, Present
<1>3. /\ Set(e) /\ pp_ref' = [refs EXCEPT ![new] = Plus(@)]
      /\ free' = free \cup (IF Present(Entry) THEN FreedBy(Entry) ELSE {})
  BY DEF Install
<1>4. Present(Entry) => old \in Pages
  BY DEF Unmanaged
<1>5. \A p : /\ x \in References(p) <=> Present(Entry) /\ old = p
             /\ References(p)' = IF p = new THEN References(p) \cup {x}
                                 ELSE References(p) \ {x}
  BY <1>2, <1>3, SetReferences
<1> HIDE DEF x, e
<1>6. Present(Entry) /\ old = new => pp_ref[new] >= 2
  <2> SUFFICES ASSUME Present(Entry), old = new PROVE pp_ref[new] >= 2
    OBVIOUS
  <2>1. PICK y \in References(new) : y # x
    BY DEF x
  <2>2. Cardinality(References(new)) >= 2
    BY <1>5, <2>1, TwoReferences
  <2> QED
    BY <1>1, <1>2, <2>2, ReferencesFinite DEF CountsCover, MemoryType
<1>7. Present(Entry) => pp_ref[old] >= 1 /\ old \notin free /\ old # kernel_pml4
  <2> SUFFICES ASSUME Present(Entry)
               PROVE  pp_ref[old] >= 1 /\ old \notin free /\ old # kernel_pml4
    OBVIOUS
  <2>1. x \in References(old)
    BY <1>5
  <2> QED
    BY <1>1, <1>4, <2>1, Counted DEF RootUnreferenced
<1>8. \A p \in Pages : pp_ref[p] \in 0 .. REF_LIM - 1
  BY <1>1 DEF MemoryType
<1>9. refs \in [Pages -> 0 .. REF_LIM - 1]
  BY <1>1, <1>4, DecrefType DEF MemoryType
<1>10. \A p \in Pages : refs[p] = IF Present(Entry) /\ p = old THEN pp_ref[p] - 1
                                  ELSE pp_ref[p]
  BY <1>1, <1>4, <1>7, <1>8, PlainCounts DEF Decref, MemoryType
<1> HIDE DEF refs
<1>11. \A p \in Pages : pp_ref'[p] = IF p = new THEN refs[p] + 1 ELSE refs[p]
  <2>1. refs[new] < REF_LIM - 1 /\ refs[new] \in 0 .. REF_LIM - 1
    BY <1>1, <1>2, <1>8, <1>9, <1>10 DEF CountsBelowLimit
  <2> QED
    BY <1>2, <1>3, <1>9, <2>1, PlainCounts
<1>12. free' = free \cup {p \in Pages : Present(Entry) /\ p = old /\ pp_ref[p] = 1}
  <2>1. CASE Present(Entry)
    <3>1. Decref(Entry)[old] = pp_ref[old] - 1
      BY <1>1, <1>4, <1>7, <1>8, <2>1, PlainCounts DEF Decref, MemoryType
    <3> QED
      BY <1>3, <1>4, <1>7, <1>8, <2>1, <3>1 DEF FreedBy
  <2>2. CASE ~ Present(Entry)
    BY <1>3, <2>2
  <2> QED
    BY <2>1, <2>2
<1>13. new \notin free'
  BY <1>2, <1>6, <1>8, <1>12
<1>14. CountsCover'
  <2> SUFFICES ASSUME NEW p \in Pages
               PROVE  Cardinality(References(p)') <= pp_ref'[p]
    BY DEF CountsCover
  <2> DEFINE R == References(p)
  <2>1. /\ IsFiniteSet(R) /\ Cardinality(R) \in Nat /\ Cardinality(R) <= pp_ref[p]
        /\ pp_ref[p] \in Nat
    BY <1>1, <1>8, ReferencesFinite DEF CountsCover
  <2>2. x \in R <=> Present(Entry) /\ old = p
    BY <1>5
  <2>3. References(p)' = IF p = new THEN R \cup {x} ELSE R \ {x}
    BY <1>5
  <2> HIDE DEF R
  <2>4. CASE p = new
    <3>1. Cardinality(References(p)') =
              IF x \in R THEN Cardinality(R) ELSE Cardinality(R) + 1
      BY <2>1, <2>3, <2>4, OneMore
    <3> QED
      BY <1>10, <1>11, <2>1, <2>2, <2>4, <3>1
  <2>5. CASE p # new
    <3>1. Cardinality(References(p)') =
              IF x \in R THEN Cardinality(R) - 1 ELSE Cardinality(R)
      BY <2>1, <2>3, <2>5, OneLess
    <3> QED
      BY <1>10, <1>11, <2>1, <2>2, <2>5, <3>1
  <2> QED
    BY <2>4, <2>5
<1>15. FreeUncounted'
  <2> SUFFICES ASSUME NEW p \in free' PROVE pp_ref'[p] = 0
    BY DEF FreeUncounted
  <2>1. p # new
    BY <1>13
  <2>2. CASE p \in free
    <3>1. p \in Pages /\ pp_ref[p] = 0 /\ ~ (Present(Entry) /\ p = old)
      BY <1>1, <1>7, <2>2 DEF FreeUncounted, MemoryType
    <3> QED
      BY <1>10, <1>11, <2>1, <3>1
  <2>3. CASE p \notin free
    <3>1. p \in Pages /\ Present(Entry) /\ p = old /\ pp_ref[p] = 1
      BY <1>12, <2>3
    <3> QED
      BY <1>10, <1>11, <2>1, <3>1
  <2> QED
    BY <2>2, <2>3
<1>16. RootUnreferenced'
  <2>1. kernel_pml4 \notin free'
    BY <1>1, <1>7, <1>12 DEF RootUnreferenced
  <2>2. References(kernel_pml4)' = {}
    BY <1>1, <1>5 DEF RootUnreferenced
  <2> QED
    BY <2>1, <2>2 DEF RootUnreferenced
<1> QED
  BY <1>13, <1>14, <1>15, <1>16 DEF MemoryInv

\* The table ptbl_alloc() puts in was free and now has the one reference.
LEMMA NewTableCounts ==
    ASSUME TypeOK, loops # <<>>, MemoryInv, free # {}, NewTable,
           <<Top.table, Slot>> \notin leftover
    PROVE  MemoryInv' /\ free' \subseteq free
<1> DEFINE x == <<Top.table, Slot>>
           new == PickFree(free)
           e == [page |-> new, flags |-> {"PRESENT", "WRITE", "USER"}]
<1>1. /\ MemoryType /\ CountsCover /\ FreeUncounted /\ RootUnreferenced
      /\ REF_LIM \in Nat /\ REF_LIM >= 2
  BY TypeOKParts, PageTableAssumption DEF MemoryInv
<1>2. new \in free /\ new \in Pages /\ new # kernel_pml4
  BY <1>1, PickFreeAssumption DEF MemoryType, RootUnreferenced
<1>3. e \in Entries /\ e.page = new /\ Present(e)
  BY <1>2, PageTableAssumption DEF Entries, Pages, Flags, Present
<1>4. Set(e) /\ pp_ref' = [pp_ref EXCEPT ![new] = Plus(@)] /\ free' = free \ {new}
  BY DEF NewTable
<1>5. \A p : References(p)' = IF p = new THEN References(p) \cup {x}
                              ELSE References(p) \ {x}
  BY <1>3, <1>4, SetReferences
<1> HIDE DEF x, e, new
<1>6. References(new) = {} /\ pp_ref[new] = 0
  BY <1>1, <1>2, Counted
<1>7. Plus(0) = 1
  BY <1>1 DEF Plus
<1>8. \A p \in Pages : pp_ref[p] \in Nat /\ pp_ref'[p] = IF p = new THEN 1 ELSE pp_ref[p]
  BY <1>1, <1>2, <1>4, <1>6, <1>7 DEF MemoryType
<1>9. CountsCover'
  <2> SUFFICES ASSUME NEW p \in Pages
               PROVE  Cardinality(References(p)') <= pp_ref'[p]
    BY DEF CountsCover
  <2>1. CASE p = new
    <3>1. References(p)' = {x}
      BY <1>5, <1>6, <2>1
    <3>2. Cardinality(References(p)') = 1
      BY <3>1, FS_Singleton
    <3>3. pp_ref'[p] = 1
      BY <1>8, <2>1
    <3> QED
      BY <3>2, <3>3
  <2>2. CASE p # new
    <3> DEFINE R == References(p)
    <3>1. /\ References(p)' = R \ {x}
          /\ IsFiniteSet(R) /\ Cardinality(R) \in Nat /\ Cardinality(R) <= pp_ref[p]
      BY <1>1, <1>5, <2>2, ReferencesFinite DEF CountsCover
    <3> HIDE DEF R
    <3>2. Cardinality(References(p)') =
              IF x \in R THEN Cardinality(R) - 1 ELSE Cardinality(R)
      BY <3>1, OneLess
    <3> QED
      BY <1>8, <2>2, <3>1, <3>2
  <2> QED
    BY <2>1, <2>2
<1>10. FreeUncounted' /\ RootUnreferenced'
  BY <1>1, <1>2, <1>4, <1>5, <1>8 DEF FreeUncounted, RootUnreferenced, MemoryType
<1> QED
  BY <1>4, <1>9, <1>10 DEF MemoryInv

\* A reference is given back, and the page with its last one.
LEMMA ClearCounts ==
    ASSUME TypeOK, loops # <<>>, MemoryInv, Present(Entry), Entry.page \in Pages,
           Clear(Entry), <<Top.table, Slot>> \notin leftover
    PROVE  MemoryInv'
<1> DEFINE x == <<Top.table, Slot>>
           old == Entry.page
<1>1. /\ MemoryType /\ CountsCover /\ FreeUncounted /\ RootUnreferenced
  BY TypeOKParts DEF MemoryInv
<1>2. HOLE \in Entries /\ ~ Present(HOLE)
  BY DEF HOLE, Entries, Present
<1>3. Set(HOLE) /\ pp_ref' = Decref(Entry) /\ free' = free \cup FreedBy(Entry)
  BY DEF Clear
<1>4. \A p : /\ x \in References(p) <=> old = p
             /\ References(p)' = References(p) \ {x}
  BY <1>2, <1>3, SetReferences
<1> HIDE DEF x
<1>5. pp_ref[old] >= 1 /\ old \notin free /\ old # kernel_pml4
  <2>1. x \in References(old)
    BY <1>4
  <2> QED
    BY <1>1, <2>1, Counted DEF RootUnreferenced
<1>6. \A p \in Pages : /\ pp_ref[p] \in Nat
                      /\ pp_ref'[p] = IF p = old THEN pp_ref[p] - 1 ELSE pp_ref[p]
  BY <1>1, <1>3, <1>5, PlainCounts, PageTableAssumption DEF Decref, MemoryType
<1>7. free' = free \cup {p \in Pages : p = old /\ pp_ref[p] = 1}
  BY <1>3, <1>5, <1>6 DEF FreedBy
<1>8. CountsCover'
  <2> SUFFICES ASSUME NEW p \in Pages
               PROVE  Cardinality(References(p)') <= pp_ref'[p]
    BY DEF CountsCover
  <2> DEFINE R == References(p)
  <2>1. IsFiniteSet(R) /\ Cardinality(R) \in Nat /\ Cardinality(R) <= pp_ref[p]
    BY <1>1, ReferencesFinite DEF CountsCover
  <2>2. (x \in R <=> p = old) /\ References(p)' = R \ {x}
    BY <1>4
  <2> HIDE DEF R
  <2>3. Cardinality(References(p)') = IF x \in R THEN Cardinality(R) - 1 ELSE Cardinality(R)
    BY <2>1, <2>2, OneLess
  <2> QED
    BY <1>6, <2>1, <2>2, <2>3
<1>9. FreeUncounted'
  <2> SUFFICES ASSUME NEW p \in free' PROVE pp_ref'[p] = 0
    BY DEF FreeUncounted
  <2>1. CASE p \in free
    BY <1>1, <1>5, <1>6, <2>1 DEF FreeUncounted, MemoryType
  <2>2. CASE p \notin free
    BY <1>6, <1>7, <2>2
  <2> QED
    BY <2>1, <2>2
<1>10. RootUnreferenced'
  BY <1>1, <1>4, <1>5, <1>7 DEF RootUnreferenced
<1> QED
  BY <1>8, <1>9, <1>10 DEF MemoryInv

\* Entries that go, or refer to nothing the allocator manages, need no count.
LEMMA FewerReferences ==
    ASSUME MemoryType, MemoryInv, pp_ref' = pp_ref, free' \subseteq free,
           \A p \in Pages : References(p)' \subseteq References(p)
    PROVE  MemoryInv'
<1>1. CountsCover'
  <2> SUFFICES ASSUME NEW p \in Pages
               PROVE  Cardinality(References(p)') <= pp_ref'[p]
    BY DEF CountsCover
  <2>1. /\ IsFiniteSet(References(p)) /\ Cardinality(References(p)) \in Nat
        /\ Cardinality(References(p)) <= pp_ref[p]
    BY ReferencesFinite DEF CountsCover, MemoryInv
  <2>2. References(p)' \in SUBSET References(p)
    OBVIOUS
  <2>3. /\ Cardinality(References(p)') <= Cardinality(References(p))
        /\ Cardinality(References(p)') \in Nat
    BY <2>1, <2>2, FS_Subset, FS_CardinalityType
  <2>4. pp_ref[p] \in Nat
    BY PageTableAssumption DEF MemoryType
  <2> QED
    BY <2>1, <2>3, <2>4
<1>2. RootUnreferenced'
  BY PageTableAssumption DEF MemoryInv, RootUnreferenced
<1>3. FreeUncounted'
  BY DEF MemoryInv, FreeUncounted
<1> QED
  BY <1>1, <1>2, <1>3 DEF MemoryInv

LEMMA UnchangedCounts ==
    ASSUME MemoryType, MemoryInv, UNCHANGED memory
    PROVE  MemoryInv'
<1>1. entries' = entries /\ pp_ref' = pp_ref /\ free' = free /\ leftover' = leftover
  BY DEF memory
<1>2. \A p : References(p)' = References(p)
  BY <1>1 DEF References, Present
<1> QED
  BY <1>1, <1>2, FewerReferences

LEMMA OverwriteCounts ==
    ASSUME TypeOK, loops # <<>>, MemoryInv, NEW e \in Entries, e.page \notin Pages,
           Set(e), pp_ref' = pp_ref, free' = free, <<Top.table, Slot>> \notin leftover
    PROVE  MemoryInv'
<1>1. MemoryType
  BY TypeOKParts
<1>2. \A p \in Pages : References(p)' \subseteq References(p)
  BY SetReferences
<1> QED
  BY <1>1, <1>2, FewerReferences

-----------------------------------------------------------------------------
(* Where the walk is *)

\* An iteration leaves the root's loop alone unless it is the one that steps,
\* and descends into tables other than the root.
LEMMA ProceedRoot ==
    ASSUME TypeInv, RootOnTop, Changing, InBody, Proceed, ~ astray',
           MemoryType', RootUnreferenced', leftover' \subseteq leftover, op'.name = op.name
    PROVE  /\ RootOnTop'
           /\ pc' = "walk" /\ Len(loops') > 1 => Root' = Root /\ Root.next < Root.end
           /\ pc' = "walk" => Len(loops) <= Len(loops')
           /\ pc' = "walk" /\ Len(loops') = Len(loops) =>
                  ~ Descends(entries'[Top.table][Slot])
           /\ Len(loops) = 1 => Root = Top
<1> DEFINE e == entries'[Top.table][Slot]
<1>1. /\ TypeOK /\ Len(loops) \in 1 .. 4 /\ loops # <<>> /\ Stacked(loops)
      /\ <<Top.table, Slot>> \notin leftover'
  BY TypeOKParts DEF TypeInv, CallType, InBody, Changing, Proceed
<1>2. Top.table \in Pages /\ Slot \in Slots /\ Top = loops[1] /\ Top.next < Top.end
  BY <1>1, Where DEF InBody
<1>3. e \in Entries
  BY <1>2 DEF MemoryType
<1>4. Present(e) => e.page # kernel_pml4
  <2> SUFFICES ASSUME Present(e), e.page = kernel_pml4 PROVE FALSE
    OBVIOUS
  <2>1. <<Top.table, Slot>> \in References(kernel_pml4)'
    BY <1>1, <1>2 DEF References, Present
  <2> QED
    BY <2>1 DEF RootUnreferenced
<1>5. /\ Root = loops[Len(loops)] /\ Root.table = kernel_pml4
      /\ \A i \in 1 .. Len(loops) - 1 : loops[i].table # kernel_pml4
      /\ \A i \in 2 .. Len(loops) : loops[i].next < loops[i].end
  BY DEF RootOnTop, Root
<1>6. CASE loops' = StepLoop(loops) /\ pc' = "walk" /\ ~ Descends(e)
  <2>1. /\ Len(loops') = Len(loops) /\ loops'[1].table = loops[1].table
        /\ \A i \in 2 .. Len(loops) : loops'[i] = loops[i]
    <3>1. loops[1] \in LoopType
      BY <1>1, Where
    <3> QED
      BY <1>1, <1>6, <3>1, Stepped DEF LoopType
  <2>2. \A i \in 1 .. Len(loops) : loops'[i].table = loops[i].table
    BY <1>1, <2>1
  <2>3. RootOnTop'
    BY <1>1, <1>5, <2>1, <2>2 DEF RootOnTop, Root
  <2>4. Len(loops) > 1 => Root' = Root /\ Root.next < Root.end
    BY <1>1, <1>5, <2>1 DEF Root
  <2> QED
    BY <1>1, <1>2, <1>5, <1>6, <2>1, <2>3, <2>4
<1>7. CASE /\ pc' = "walk" /\ Descends(e) /\ Len(loops') = Len(loops) + 1
           /\ loops'[1].table = e.page
           /\ \A i \in 1 .. Len(loops) : loops'[i + 1] = loops[i]
  <2>1. loops'[1].table # kernel_pml4
    BY <1>4, <1>7 DEF Descends
  <2>2. \A j \in 2 .. Len(loops) + 1 : loops'[j] = loops[j - 1]
    <3> TAKE j \in 2 .. Len(loops) + 1
    <3>1. j - 1 \in 1 .. Len(loops) /\ (j - 1) + 1 = j
      BY <1>1
    <3> QED
      BY <1>7, <3>1
  <2>3. Root' = Root
    BY <1>1, <1>5, <1>7, <2>2 DEF Root
  <2>4. \A j \in 1 .. Len(loops') - 1 : loops'[j].table # kernel_pml4
    <3> TAKE j \in 1 .. Len(loops') - 1
    <3>1. CASE j = 1
      BY <2>1, <3>1
    <3>2. CASE j # 1
      <4>1. j - 1 \in 1 .. Len(loops) - 1 /\ j \in 2 .. Len(loops) + 1
        BY <1>1, <1>7, <3>2
      <4> QED
        BY <1>5, <2>2, <4>1
    <3> QED
      BY <3>1, <3>2
  <2>5. \A j \in 2 .. Len(loops') : loops'[j].next < loops'[j].end
    <3> TAKE j \in 2 .. Len(loops')
    <3>1. CASE j = 2
      BY <1>1, <1>2, <1>7, <2>2, <3>1
    <3>2. CASE j # 2
      <4>1. j - 1 \in 2 .. Len(loops)
        BY <1>1, <1>7, <3>2
      <4> QED
        BY <1>1, <1>5, <1>7, <2>2, <4>1
    <3> QED
      BY <3>1, <3>2
  <2>6. RootOnTop'
    BY <1>5, <2>3, <2>4, <2>5 DEF RootOnTop
  <2>7. Root.next < Root.end
    BY <1>1, <1>2, <1>5
  <2> QED
    BY <1>1, <1>2, <1>5, <1>7, <2>3, <2>6, <2>7
<1>8. CASE pc' = "wild"
  <2>1. RootOnTop'
    BY <1>8 DEF RootOnTop, Changing
  <2>2. Len(loops) = 1 => Root = Top
    BY <1>2, <1>5
  <2> QED
    BY <1>8, <2>1, <2>2
<1> QED
  BY <1>1, <1>3, <1>6, <1>7, <1>8, Proceeds

\* So is the root's loop when an inner loop is left, unless it is the next.
LEMMA LeaveRoot ==
    ASSUME TypeInv, RootOnTop, LeaveLoop, Changing
    PROVE  /\ RootOnTop'
           /\ Len(loops') = Len(loops) - 1
           /\ Root.next < Root.end
           /\ Len(loops) > 2 => Root' = Root
           /\ Len(loops) = 2 =>
                  Root' = [Root EXCEPT !.next = (End(4, Root.next) + 1) % WORD]
           /\ Root \in LoopType /\ Root.level = 4
<1> DEFINE t == Tail(loops)
<1>1. TypeOK /\ Len(loops) \in 2 .. 4 /\ Stacked(loops) /\ pc = "walk" /\ pc' = "walk"
  <2>1. pc = "walk" /\ pc' = "walk" /\ Len(loops) > 1
    BY DEF LeaveLoop
  <2>2. TypeOK /\ Stacked(loops) /\ Len(loops) \in 1 .. 4
    BY <2>1, TypeOKParts DEF TypeInv, CallType
  <2> QED
    BY <2>1, <2>2, Lengths
<1>2. /\ Root = loops[Len(loops)] /\ Root.table = kernel_pml4
      /\ \A i \in 1 .. Len(loops) - 1 : loops[i].table # kernel_pml4
      /\ \A i \in 2 .. Len(loops) : loops[i].next < loops[i].end
  BY <1>1 DEF RootOnTop, Root
<1>3. /\ Stacked(t) /\ t # <<>> /\ Len(t) = Len(loops) - 1
      /\ \A i \in 1 .. Len(loops) - 1 : t[i] = loops[i + 1]
  <2>1. Len(loops) > 1
    BY <1>1
  <2> QED
    BY <1>1, <2>1, Left
<1>4. loops' = StepLoop(t)
  BY DEF LeaveLoop
<1> HIDE DEF t
<1>5. /\ Len(loops') = Len(t)
      /\ loops'[1] = [t[1] EXCEPT !.next = (End(t[1].level, t[1].next) + 1) % WORD]
      /\ \A i \in 2 .. Len(t) : loops'[i] = t[i]
  BY <1>3, <1>4, Stepped
<1>6. Root \in LoopType /\ Root.level = 4
  <2> DEFINE n == Len(loops)
  <2>1. /\ loops \in Seq(LoopType) /\ n \in 2 .. 4
        /\ \A i \in DOMAIN loops : loops[i].level = 4 - n + i
    BY <1>1 DEF Stacked
  <2>2. DOMAIN loops = 1 .. n /\ \A i \in 1 .. n : loops[i] \in LoopType
    BY <2>1
  <2> HIDE DEF n
  <2>3. n \in 1 .. n /\ 4 - n + n = 4
    BY <2>1
  <2>4. loops[n] \in LoopType /\ loops[n].level = 4
    BY <2>1, <2>2, <2>3
  <2> QED
    BY <1>2, <2>4 DEF n
<1>7. t[1] \in LoopType
  BY <1>3 DEF Stacked
<1>8. loops'[1].table = t[1].table
  BY <1>5, <1>7 DEF LoopType
<1>9. \A i \in 1 .. Len(t) : loops'[i].table = loops[i + 1].table
  <2> TAKE i \in 1 .. Len(t)
  <2>1. t[i] = loops[i + 1]
    BY <1>3
  <2>2. CASE i = 1
    BY <1>8, <2>1, <2>2
  <2>3. CASE i # 1
    BY <1>1, <1>3, <1>5, <2>1, <2>3
  <2> QED
    BY <2>2, <2>3
<1>10. Len(loops) = 2 => Root' = [Root EXCEPT !.next = (End(4, Root.next) + 1) % WORD]
  BY <1>1, <1>2, <1>3, <1>5, <1>6 DEF Root
<1>11. Len(loops) > 2 => Root' = Root
  BY <1>1, <1>2, <1>3, <1>5 DEF Root
<1>12. Root'.table = kernel_pml4
  BY <1>1, <1>2, <1>3, <1>5, <1>9 DEF Root
<1>13. \A i \in 1 .. Len(loops') - 1 : loops'[i].table # kernel_pml4
  <2> TAKE i \in 1 .. Len(loops') - 1
  <2>1. i \in 1 .. Len(t) /\ i + 1 \in 1 .. Len(loops) - 1
    BY <1>1, <1>3, <1>5
  <2> QED
    BY <1>2, <1>9, <2>1
<1>14. \A i \in 2 .. Len(loops') : loops'[i].next < loops'[i].end
  <2> TAKE i \in 2 .. Len(loops')
  <2>1. i \in 1 .. Len(loops) - 1 /\ i + 1 \in 2 .. Len(loops) /\ i \in 2 .. Len(t)
    BY <1>1, <1>3, <1>5
  <2>2. loops'[i] = loops[i + 1]
    BY <1>3, <1>5, <2>1
  <2> QED
    BY <1>2, <2>1, <2>2
<1>15. RootOnTop'
  BY <1>12, <1>13, <1>14 DEF RootOnTop
<1> QED
  BY <1>1, <1>2, <1>3, <1>5, <1>6, <1>10, <1>11, <1>15

-----------------------------------------------------------------------------
(* The steps of page_insert() *)

\* What an iteration of the insertion finds.
LEMMA InInsert ==
    ASSUME PageInv, NEW ks, In("insert", ks)
    PROVE  /\ Changing /\ TypeOK /\ pc = "walk" /\ InBody /\ loops # <<>> /\ Len(loops) \in 1 .. 4
           /\ op \in InsertCall /\ op.name = "insert" /\ Top.level \in ks
           /\ op.page \in Pages /\ op.page \notin free /\ op.page # kernel_pml4
           /\ Root = loops[Len(loops)] /\ Root.table = kernel_pml4
           /\ Len(loops) > 1 => Top.table # kernel_pml4
           /\ Len(loops) = 1 => Top = Root /\ Top.level = 4 /\ Slot = Index(4, Root.next)
           /\ Top.level = 5 - Len(loops)
<1>1. /\ TypeOK /\ pc = "walk" /\ InBody /\ loops # <<>> /\ Len(loops) \in 1 .. 4
      /\ op \in InsertCall /\ op.name = "insert" /\ Top.level \in ks /\ Changing
  BY InType, CallsByName DEF PageInv, Changing
<1>2. op.page \in Pages
  BY <1>1 DEF InsertCall
<1>3. op.page \notin free /\ op.page # kernel_pml4
  BY <1>1 DEF PageInv, InsertHeld, Walking
<1>4. Top = loops[1] /\ Top.level = 5 - Len(loops)
  BY <1>1, Where
<1>5. /\ Root.table = kernel_pml4
      /\ \A i \in 1 .. Len(loops) - 1 : loops[i].table # kernel_pml4
  BY <1>1 DEF PageInv, RootOnTop
<1>6. Len(loops) > 1 => Top.table # kernel_pml4
  BY <1>1, <1>4, <1>5
<1> QED
  BY <1>1, <1>2, <1>3, <1>4, <1>5, <1>6 DEF Root, Slot

\* An entry replaced by itself is not the page's only reference.
LEMMA SecondReference ==
    ASSUME PageInv, NEW ks, In("insert", ks), <<Top.table, Slot>> \notin leftover
    PROVE  Present(Entry) /\ Entry.page = op.page =>
               \E y \in References(op.page) : y # <<Top.table, Slot>>
<1> SUFFICES ASSUME Present(Entry), Entry.page = op.page
             PROVE  \E y \in References(op.page) : y # <<Top.table, Slot>>
  OBVIOUS
<1>1. Top.table \in Pages /\ Slot \in Slots
  BY InInsert, Where
<1>2. <<Top.table, Slot>> \in References(op.page)
  BY <1>1 DEF References, Entry
<1>3. CASE Len(loops) = 1
  <2>1. /\ Root.next < Root.end
        /\ <<Top.table, Slot>> = <<kernel_pml4, Index(4, Root.next)>>
    BY <1>3, InInsert DEF InBody
  <2> QED
    BY <1>2, <1>3, <2>1, InInsert DEF PageInv, InsertHeld, Walking
<1>4. CASE Len(loops) > 1
  <2> DEFINE y == <<kernel_pml4, Index(4, Root.next)>>
  <2>1. y \in References(op.page)
    BY <1>4, InInsert DEF PageInv, InsertHeld, Walking
  <2>2. y # <<Top.table, Slot>>
    BY <1>4, InInsert
  <2> QED
    BY <2>1, <2>2
<1>5. Len(loops) \in 1 .. 4
  BY InInsert
<1> QED
  BY <1>3, <1>4, <1>5, Lengths

\* The page stays held if the entry of the root still refers to it.
LEMMA HeldOn ==
    ASSUME PageInv, NEW ks, In("insert", ks), Proceed, ~ astray',
           MemoryType', RootUnreferenced', op' = op, setup' = setup,
           op.page \notin free', leftover' \subseteq leftover,
           <<kernel_pml4, Index(4, Root.next)>> \in References(op.page)',
           Len(loops) = 1 => Descends(entries'[Top.table][Slot])
    PROVE  RootOnTop' /\ InsertHeld'
<1>1. /\ RootOnTop'
      /\ pc' = "walk" /\ Len(loops') > 1 => Root' = Root /\ Root.next < Root.end
      /\ pc' = "walk" => Len(loops) <= Len(loops')
      /\ pc' = "walk" /\ Len(loops') = Len(loops) =>
             ~ Descends(entries'[Top.table][Slot])
  BY InInsert, ProceedRoot DEF PageInv
<1>2. InsertHeld'
  <2> SUFFICES ASSUME pc' = "walk" PROVE InsertHeld'
    BY DEF InsertHeld, Walking
  <2>1. Len(loops') \in 1 .. 4
    <3>1. TypeInv'
      BY InInsert, ProceedType DEF PageInv, Calls
    <3> QED
      BY <3>1 DEF TypeInv, CallType
  <2>2. Len(loops') > 1
    <3>1. Len(loops) \in 1 .. 4 /\ Len(loops) <= Len(loops')
      BY <1>1, InInsert
    <3>2. Len(loops) = 1 => Len(loops') # Len(loops)
      BY <1>1
    <3> DEFINE n == Len(loops)
               m == Len(loops')
    <3>3. n \in 1 .. 4 /\ m \in 1 .. 4 /\ n <= m /\ (n = 1 => m # n)
      BY <2>1, <3>1, <3>2
    <3> HIDE DEF n, m
    <3>4. m > 1
      BY <3>3
    <3> QED
      BY <3>4 DEF m
  <2>3. Root' = Root
    BY <1>1, <2>2
  <2>6. Index(4, Root.next)' = Index(4, Root.next)
    BY <2>3 DEF Index
  <2>7. (<<kernel_pml4, Index(4, Root.next)>> \in References(op.page))'
    BY <2>3, <2>6 DEF References, Present
  <2>8. op'.page \notin free' /\ op'.page # kernel_pml4
    BY InInsert
  <2>9. Len(loops') # 1
    <3> DEFINE n == Len(loops')
    <3>1. n \in 1 .. 4 /\ n > 1
      BY <2>1, <2>2
    <3> HIDE DEF n
    <3>2. n # 1
      BY <3>1
    <3> QED
      BY <3>2 DEF n
  <2> QED
    BY <2>7, <2>8, <2>9 DEF InsertHeld, Walking
<1> QED
  BY <1>1, <1>2

\* Nothing else than boot_map_region() is of concern to BootMapsNothing.
LEMMA BootMapsOther ==
    ASSUME BootMapsNothing, pc = "walk", op.name # "boot_map", op'.name = op.name,
           setup' = setup, setup \in Int, Len(BootCalls) \in Nat
    PROVE  BootMapsNothing'
BY DEF BootMapsNothing, Walking

\* The page of the call stays what it was.
LEMMA ReferencesOfPage ==
    ASSUME NEW q, q = op'.page
    PROVE  References(op.page)' = References(q)'
BY DEF References, Present

\* The page put in at the level of the page table, of the root, or for a huge page.
LEMMA InstallKeeps ==
    ASSUME PageInv, CountsBelowLimit, NEW ks, In("insert", ks),
           ~ Unmanaged(Entry), Install, Proceed, ~ astray', op' = op, setup' = setup
    PROVE  PageInv'
<1> DEFINE x == <<Top.table, Slot>>
           y == <<kernel_pml4, Index(4, Root.next)>>
           e == [page |-> op.page, flags |-> op.flags]
<1>0. /\ <<Top.table, Slot>> \notin leftover
      /\ leftover' = leftover \ {<<Top.table, Slot>>}
  BY InInsert DEF Proceed, Install, Set
<1>1. TypeInv' /\ MemoryType'
  <2>1. MemoryType'
    BY InInsert, InstallType
  <2>2. op' \in Calls
    BY InInsert DEF Calls
  <2> QED
    BY <2>1, <2>2, InInsert, ProceedType DEF PageInv
<1>2. MemoryInv' /\ op.page \notin free'
  BY <1>0, InInsert, SecondReference, InstallCounts DEF PageInv
<1>3. e \in Entries /\ Set(e) /\ e.page = op.page /\ Present(e) /\ ~ Huge(e)
  BY InInsert, PageTableAssumption DEF InsertCall, Entries, Pages, Present, Huge, Install
<1>4. References(op.page)' = References(op.page) \cup {x} /\ entries'[Top.table][Slot] = e
  <2>1. PICK q : q = op.page
    OBVIOUS
  <2>2. References(q)' = References(q) \cup {x} /\ entries'[Top.table][Slot] = e
    BY <1>0, <1>3, <2>1, InInsert, SetReferences, SetType
  <2> QED
    BY <2>1, <2>2, ReferencesOfPage
<1> HIDE DEF e
<1>5. y \in References(op.page)'
  <2>1. CASE Len(loops) = 1
    BY <1>4, <2>1, InInsert
  <2>2. CASE Len(loops) > 1
    <3>1. y \in References(op.page)
      BY <2>2, InInsert DEF PageInv, InsertHeld, Walking
    <3> QED
      BY <1>4, <3>1
  <2>3. Len(loops) = 1 \/ Len(loops) > 1
    <3>1. PICK n \in 1 .. 4 : n = Len(loops)
      BY InInsert
    <3> QED
      BY <3>1
  <2> QED
    BY <2>1, <2>2, <2>3
<1>6. Len(loops) = 1 => Descends(entries'[Top.table][Slot])
  BY <1>3, <1>4, InInsert DEF Descends
<1>7. RootOnTop' /\ InsertHeld'
  BY <1>0, <1>1, <1>2, <1>5, <1>6, HeldOn DEF MemoryInv
<1>8. BootMapsNothing'
  BY InInsert, BootMapsOther, SetupType DEF PageInv
<1> QED
  BY <1>1, <1>2, <1>7, <1>8 DEF PageInv

\* The tables on the way to it.
LEMMA TablesKeep ==
    ASSUME PageInv, In("insert", {2, 3}), PtblAlloc, Proceed, ~ astray', op' = op,
           setup' = setup
    PROVE  PageInv'
<1> DEFINE x == <<Top.table, Slot>>
           y == <<kernel_pml4, Index(4, Root.next)>>
           p == PickFree(free)
           e == [page |-> p, flags |-> {"PRESENT", "WRITE", "USER"}]
<1>0. /\ Len(loops) > 1 /\ x # y /\ y \in References(op.page) /\ MemoryType
      /\ x \notin leftover
  <2>1. Len(loops) > 1
    BY InInsert
  <2> QED
    BY <2>1, InInsert, TypeOKParts DEF PageInv, InsertHeld, Walking, Proceed
<1>1. /\ MemoryType' /\ MemoryInv' /\ op.page \notin free' /\ y \in References(op.page)'
      /\ leftover' \subseteq leftover
  <2>1. CASE Present(Entry)
    <3>1. UNCHANGED memory
      BY <2>1 DEF PtblAlloc
    <3>2. MemoryType' /\ MemoryInv'
      BY <1>0, <3>1, UnchangedMemoryType, UnchangedCounts DEF PageInv
    <3>3. entries' = entries /\ free' = free /\ leftover' = leftover
      BY <3>1 DEF memory
    <3>4. op.page \notin free'
      BY <3>3, InInsert
    <3>5. References(op.page)' = References(op.page)
      BY <3>3 DEF References, Present
    <3> QED
      BY <1>0, <3>2, <3>3, <3>4, <3>5
  <2>2. CASE ~ Present(Entry)
    <3>1. free # {} /\ NewTable
      BY <2>2 DEF PtblAlloc
    <3>2. MemoryType' /\ MemoryInv' /\ free' \subseteq free
      BY <1>0, <3>1, InInsert, NewTableType, NewTableCounts DEF PageInv
    <3>3. p \in free /\ p \in Pages
      BY <1>0, <3>1, PickFreeAssumption DEF MemoryType
    <3>4. e \in Entries /\ Set(e) /\ e.page = p
      BY <3>1, <3>3, PageTableAssumption DEF Entries, Pages, Flags, NewTable
    <3>6. leftover' \subseteq leftover
      BY <3>4 DEF Set
    <3> HIDE DEF e
    <3>5. References(op.page)' = References(op.page) \ {x}
          \/ References(op.page)' = References(op.page) \cup {x}
      <4>1. PICK q : q = op.page
        OBVIOUS
      <4>2. References(q)' = References(q) \ {x} \/ References(q)' = References(q) \cup {x}
        BY <1>0, <3>4, InInsert, SetReferences
      <4> QED
        BY <4>1, <4>2, ReferencesOfPage
    <3> QED
      BY <1>0, <3>2, <3>5, <3>6, InInsert
  <2> QED
    BY <2>1, <2>2
<1>2. TypeInv'
  BY <1>1, InInsert, ProceedType DEF PageInv, Calls
<1>3. RootOnTop' /\ InsertHeld'
  <2>1. Len(loops) # 1
    BY InInsert
  <2> QED
    BY <1>1, <2>1, HeldOn DEF MemoryInv
<1>4. BootMapsNothing'
  BY InInsert, BootMapsOther, SetupType DEF PageInv
<1> QED
  BY <1>1, <1>2, <1>3, <1>4 DEF PageInv

LEMMA InsertKeeps ==
    ASSUME PageInv, CountsBelowLimit, InsertPte \/ InsertPde, ~ astray'
    PROVE  PageInv'
<1>1. CASE InsertPte
  BY <1>1, InstallKeeps DEF InsertPte
<1>2. CASE InsertPde /\ Huge(Entry)
  BY <1>2, InstallKeeps DEF InsertPde
<1>3. CASE InsertPde /\ ~ Huge(Entry)
  BY <1>3, TablesKeep DEF InsertPde
<1> QED
  BY <1>1, <1>2, <1>3

-----------------------------------------------------------------------------
(* The steps of other walks *)

\* No walk of another call than boot_map_region() and page_insert() needs more.
LEMMA OtherWalkKeeps ==
    ASSUME PageInv, pc = "walk", InBody, Proceed, ~ astray',
           op.name \notin {"insert", "boot_map"}, op'.name = op.name, op' \in Calls,
           setup' = setup, MemoryType', MemoryInv', leftover' \subseteq leftover
    PROVE  PageInv'
<1>1. TypeInv'
  BY ProceedType DEF PageInv
<1>2. RootOnTop'
  <2>1. CASE Changing
    BY <2>1, ProceedRoot DEF PageInv, MemoryInv
  <2>2. CASE ~ Changing
    BY <2>2 DEF RootOnTop, Changing
  <2> QED
    BY <2>1, <2>2
<1>3. BootMapsNothing'
  BY SetupType DEF PageInv, BootMapsNothing, Walking
<1>4. InsertHeld'
  BY DEF InsertHeld, Walking
<1> QED
  BY <1>1, <1>2, <1>3, <1>4 DEF PageInv

LEMMA RemoveKeeps ==
    ASSUME PageInv, RemovePte \/ RemovePde, ~ astray'
    PROVE  PageInv'
<1>1. /\ In("remove", {1, 2}) /\ op' = op /\ setup' = setup /\ Proceed
      /\ \/ Present(Entry) /\ Entry.page \in Pages /\ Clear(Entry)
         \/ UNCHANGED memory
  BY DEF RemovePte, RemovePde, In, Unmanaged
<1>2. /\ TypeOK /\ pc = "walk" /\ InBody /\ loops # <<>> /\ op \in Calls
      /\ op.name = "remove" /\ <<Top.table, Slot>> \notin leftover
  <2>1. /\ TypeOK /\ pc = "walk" /\ InBody /\ loops # <<>> /\ op \in Calls
        /\ op.name = "remove"
    BY <1>1, InType DEF PageInv
  <2> QED
    BY <1>1, <2>1 DEF Proceed
<1>3. MemoryType' /\ MemoryInv' /\ leftover' \subseteq leftover
  <2>1. CASE Present(Entry) /\ Entry.page \in Pages /\ Clear(Entry)
    BY <1>2, <2>1, ClearType, ClearCounts DEF PageInv, Clear, Set
  <2>2. CASE UNCHANGED memory
    BY <1>2, <2>2, UnchangedMemoryType, UnchangedCounts, TypeOKParts DEF PageInv, memory
  <2> QED
    BY <1>1, <2>1, <2>2
<1> QED
  BY <1>1, <1>2, <1>3, OtherWalkKeeps

\* Callbacks that only look.
LEMMA LookKeeps ==
    ASSUME PageInv, LookupEntry \/ DumpEntry \/ (Pass /\ op.name # "boot_map"), ~ astray'
    PROVE  PageInv'
<1>1. pc = "walk" /\ InBody /\ op.name \in {"lookup", "dump", "remove"} /\ op \in Calls
      /\ TypeOK
  BY DEF LookupEntry, DumpEntry, Pass, In, PageInv, TypeInv, CallType
<1>2. UNCHANGED memory /\ setup' = setup /\ Proceed
  BY DEF LookupEntry, DumpEntry, Pass
<1>3. MemoryType' /\ MemoryInv' /\ leftover' \subseteq leftover
  BY <1>1, <1>2, UnchangedMemoryType, UnchangedCounts, TypeOKParts DEF PageInv, memory
<1>4. op' \in Calls /\ op'.name = op.name
  <2>1. CASE DumpEntry
    <3>1. op \in DumpCall
      BY <1>1, <2>1, CallsByName DEF DumpEntry, In
    <3>2. Present(Entry) \in BOOLEAN /\ Huge(Entry) \in BOOLEAN
      BY DEF Present, Huge
    <3> QED
      BY <2>1, <3>1, <3>2 DEF DumpEntry, DumpCall, Calls
  <2>2. CASE op' = op
    BY <1>1, <2>2
  <2> QED
    BY <2>1, <2>2 DEF LookupEntry, Pass
<1> QED
  BY <1>1, <1>2, <1>3, <1>4, OtherWalkKeeps

\* boot_map_region() at a level without a callback: an empty root keeps it there.
LEMMA BootPassKeeps ==
    ASSUME PageInv, Pass, op.name = "boot_map", ~ astray'
    PROVE  PageInv'
<1>1. /\ pc = "walk" /\ InBody /\ op \in Calls /\ TypeOK /\ loops # <<>>
      /\ Len(loops) \in 1 .. 4 /\ Changing
  BY DEF Pass, In, PageInv, TypeInv, CallType, InBody, Changing
<1>2. /\ UNCHANGED memory /\ entries' = entries /\ setup' = setup /\ op' = op /\ Proceed
      /\ leftover' = leftover
  BY DEF Pass, memory
<1>3. MemoryType' /\ MemoryInv'
  BY <1>1, <1>2, UnchangedMemoryType, UnchangedCounts, TypeOKParts DEF PageInv
<1>4. TypeInv' /\ RootOnTop'
  BY <1>1, <1>2, <1>3, ProceedType, ProceedRoot DEF PageInv, MemoryInv
<1>5. RootEmpty' = RootEmpty
  BY <1>2 DEF RootEmpty, Present
<1>6. RootEmpty /\ pc' = "walk" => Len(loops') = 1
  <2> SUFFICES ASSUME RootEmpty, pc' = "walk" PROVE Len(loops') = 1
    OBVIOUS
  <2>1. Len(loops) = 1
    BY <1>1 DEF PageInv, BootMapsNothing, Walking
  <2>2. Top.table = kernel_pml4 /\ Slot \in Slots
    BY <1>1, <2>1, Where DEF PageInv, RootOnTop, Root
  <2>3. ~ Descends(entries'[Top.table][Slot])
    BY <1>2, <2>2 DEF RootEmpty, Descends
  <2>4. entries'[Top.table][Slot] \in Entries
    BY <1>1, <1>2, Where DEF Entry
  <2> QED
    BY <1>1, <1>2, <2>1, <2>3, <2>4, Proceeds
<1>7. BootMapsNothing'
  BY <1>1, <1>2, <1>5, <1>6 DEF PageInv, BootMapsNothing, Walking
<1>8. InsertHeld'
  BY <1>2 DEF InsertHeld, Walking
<1> QED
  BY <1>3, <1>4, <1>7, <1>8 DEF PageInv

\* It gets below the root only after boot, and then for memory nobody counts.
LEMMA BootEntryKeeps ==
    ASSUME PageInv, BootMapPte \/ BootMapPde, ~ astray'
    PROVE  PageInv'
<1> DEFINE e == [page |-> op.page, flags |-> op.flags]
<1>1. /\ In("boot_map", {1, 2}) /\ setup' = setup /\ Proceed
      /\ op' = [op EXCEPT !.page = @ + 1] \/ op' = [op EXCEPT !.page = @ + ENTRIES]
             \/ op' = op
      /\ \/ Set(e) /\ pp_ref' = pp_ref /\ free' = free
         \/ free # {} /\ NewTable
  BY DEF BootMapPte, BootMapPde, In
<1>2. /\ TypeOK /\ pc = "walk" /\ InBody /\ loops # <<>> /\ op \in BootMapCall
      /\ op.name = "boot_map" /\ Top.level \in {1, 2} /\ Len(loops) \in 1 .. 4
      /\ Changing /\ <<Top.table, Slot>> \notin leftover
  <2>1. /\ TypeOK /\ pc = "walk" /\ InBody /\ loops # <<>> /\ op \in Calls
        /\ op.name = "boot_map" /\ Top.level \in {1, 2} /\ Len(loops) \in 1 .. 4
    BY <1>1, InType DEF PageInv
  <2>2. op \in BootMapCall /\ Changing
    BY <2>1, CallsByName DEF Changing
  <2> QED
    BY <1>1, <2>1, <2>2 DEF Proceed
<1>3. Len(loops) > 1 /\ Top = loops[1] /\ Top.table \in Pages /\ Slot \in Slots
  BY <1>2, Where
<1>4. Top.table # kernel_pml4
  BY <1>2, <1>3 DEF PageInv, RootOnTop
<1>5. ~ RootEmpty /\ op.page >= NPAGES /\ ~ (setup <= Len(BootCalls))
  <2>1. Len(loops) # 1
    BY <1>2, <1>3, Lengths
  <2>2. ~ RootEmpty
    BY <1>2, <2>1 DEF PageInv, BootMapsNothing, Walking
  <2>3. ~ (op.page < NPAGES)
    BY <1>2, <2>2 DEF PageInv, BootMapsNothing, Walking
  <2>4. op.page \in Nat /\ NPAGES \in Nat
    BY <1>2, PageTableAssumption DEF BootMapCall
  <2> QED
    BY <2>2, <2>3, <2>4 DEF PageInv, BootMapsNothing
<1>6. e \in Entries /\ e.page \notin Pages
  BY <1>2, <1>5, PageTableAssumption DEF BootMapCall, Entries, Pages
<1>7. /\ op' \in BootMapCall /\ op'.name = "boot_map" /\ op'.page \in Nat
      /\ op'.page >= NPAGES
  <2>1. ENTRIES \in Nat /\ NPAGES \in Nat
    BY PageTableAssumption
  <2> QED
    BY <1>1, <1>2, <1>5, <2>1 DEF BootMapCall
<1>8. /\ MemoryType' /\ MemoryInv' /\ leftover' \subseteq leftover
      /\ \A i \in Slots : entries'[kernel_pml4][i] = entries[kernel_pml4][i]
  <2>1. CASE Set(e) /\ pp_ref' = pp_ref /\ free' = free
    <3> HIDE DEF e
    <3>1. MemoryInv'
      BY <1>2, <1>6, <2>1, OverwriteCounts DEF PageInv
    <3>2. /\ entries' \in [Pages -> [Slots -> Entries]]
          /\ \A p \in Pages, i \in Slots :
                <<p, i>> # <<Top.table, Slot>> => entries'[p][i] = entries[p][i]
          /\ leftover' \subseteq leftover
      BY <1>2, <1>6, <2>1, SetType
    <3> QED
      BY <1>2, <1>4, <2>1, <3>1, <3>2, PageTableAssumption, TypeOKParts DEF MemoryType
  <2>2. CASE free # {} /\ NewTable
    <3>1. MemoryType' /\ MemoryInv'
      BY <1>2, <2>2, NewTableType, NewTableCounts DEF PageInv
    <3>2. /\ entries' = [entries EXCEPT ![Top.table][Slot] =
                         [page |-> PickFree(free), flags |-> {"PRESENT", "WRITE", "USER"}]]
          /\ leftover' \subseteq leftover
      BY <2>2 DEF NewTable, Set
    <3>3. entries'[kernel_pml4] = entries[kernel_pml4]
      BY <1>2, <1>4, <3>2, PageTableAssumption DEF TypeOK
    <3> QED
      BY <3>1, <3>2, <3>3
  <2> QED
    BY <1>1, <2>1, <2>2
<1>9. TypeInv' /\ RootOnTop'
  BY <1>1, <1>2, <1>7, <1>8, ProceedType, ProceedRoot DEF PageInv, MemoryInv, Calls
<1>10. ~ RootEmpty'
  BY <1>5, <1>8 DEF RootEmpty, Present
<1>11. BootMapsNothing'
  <2>1. ~ (op'.page < NPAGES)
    BY <1>7, PageTableAssumption
  <2> QED
    BY <1>1, <1>5, <1>10, <2>1 DEF BootMapsNothing, Walking
<1>12. InsertHeld'
  BY <1>7 DEF InsertHeld, Walking
<1> QED
  BY <1>8, <1>9, <1>11, <1>12 DEF PageInv

\* What is left of a multiple and a remainder.
LEMMA ModOfMultiple ==
    ASSUME NEW s \in Nat, s > 0, NEW k \in Nat, NEW r \in 0 .. s - 1
    PROVE  (k * s + r) % s = r
<1> DEFINE n == k * s + r
<1>1. k * s \in Nat /\ n \in Nat
  OBVIOUS
<1>2. PICK i \in Nat : n = (i * s) + (n % s)
  BY <1>1, DivMod
<1>3. n % s \in 0 .. s - 1
  BY <1>1, DivMod
<1>4. i * s \in Nat
  BY <1>2
<1>5. ~ (k * s < i * s)
  <2> SUFFICES ASSUME k * s < i * s PROVE FALSE
    OBVIOUS
  <2>1. k * s + s <= i * s
    BY <1>2, NextMultiple
  <2> QED
    BY <1>1, <1>2, <1>3, <1>4, <2>1
<1>6. ~ (i * s < k * s)
  <2> SUFFICES ASSUME i * s < k * s PROVE FALSE
    OBVIOUS
  <2>1. i * s + s <= k * s
    BY <1>2, NextMultiple
  <2> QED
    BY <1>1, <1>2, <1>3, <1>4, <2>1
<1> QED
  BY <1>1, <1>2, <1>3, <1>4, <1>5, <1>6

\* Their quotient.
LEMMA Quotient ==
    ASSUME NEW s \in Nat, s > 0, NEW k \in Nat, NEW r \in 0 .. s - 1
    PROVE  (k * s + r) \div s = k
<1> DEFINE n == k * s + r
<1>1. k * s \in Nat /\ n \in Nat
  OBVIOUS
<1>2. n % s = r
  BY ModOfMultiple
<1>3. n = (n \div s) * s + (n % s) /\ n \div s \in Nat
  <2>1. \A m \in Nat : m = (m \div s) * s + (m % s) /\ m \div s \in Nat
    BY SMT
  <2> QED
    BY <1>1, <2>1
<1>4. (n \div s) * s = k * s
  BY <1>1, <1>2, <1>3
<1> DEFINE q == n \div s
<1>5. q \in Nat /\ q * s = k * s
  BY <1>3, <1>4
<1> HIDE DEF q, n
<1>6. ~ (q < k)
  <2> SUFFICES ASSUME q < k PROVE FALSE
    OBVIOUS
  <2>1. (k - q) * s > 0 /\ (k - q) * s = k * s - q * s
    BY <1>5
  <2> QED
    BY <1>5, <2>1
<1>7. ~ (k < q)
  <2> SUFFICES ASSUME k < q PROVE FALSE
    OBVIOUS
  <2>1. (q - k) * s > 0 /\ (q - k) * s = q * s - k * s
    BY <1>5
  <2> QED
    BY <1>5, <2>1
<1>8. q = k
  BY <1>5, <1>6, <1>7
<1> QED
  BY <1>8 DEF q, n

\* A number and the next differ modulo 2 or more.
LEMMA NextModulo ==
    ASSUME NEW n \in Nat, n >= 2, NEW i \in Nat
    PROVE  (i + 1) % n # i % n
<1> DEFINE m == i % n
<1>0. n > 0
  OBVIOUS
<1>1. PICK k \in Nat : i = (k * n) + m
  BY <1>0, DivMod
<1>2. m \in 0 .. n - 1
  BY <1>0, DivMod
<1> HIDE DEF m
<1>3. CASE m < n - 1
  <2>1. m + 1 \in 0 .. n - 1 /\ k * n \in Nat
    BY <1>2, <1>3
  <2>2. (k * n + (m + 1)) % n = m + 1
    BY <1>0, <2>1, ModOfMultiple
  <2>3. i + 1 = k * n + (m + 1)
    BY <1>1, <1>2, <2>1
  <2>4. (i + 1) % n = m + 1
    BY <2>2, <2>3
  <2> QED
    BY <1>2, <2>4 DEF m
<1>4. CASE m = n - 1
  <2>1. 0 \in 0 .. n - 1 /\ k * n \in Nat /\ k + 1 \in Nat
    OBVIOUS
  <2>2. ((k + 1) * n + 0) % n = 0
    BY <2>1, ModOfMultiple
  <2>3. i + 1 = (k + 1) * n + 0
    BY <1>1, <1>4, <2>1
  <2>4. (i + 1) % n = 0
    BY <2>2, <2>3
  <2> QED
    BY <1>4, <2>4 DEF m
<1> QED
  BY <1>2, <1>3, <1>4

\* The entry of the root after another one, or the first after the last of all,
\* is a different one.
LEMMA NextIndex ==
    ASSUME NEW a \in Addrs
    PROVE  Index(4, (End(4, a) + 1) % WORD) # Index(4, a)
<1> DEFINE s == Span[4]
           n == ENTRIES
<1>1. /\ s \in Nat /\ s > 0 /\ n \in Nat /\ n >= 2 /\ WORD \in Nat /\ WORD > 0
      /\ WORD % (n * s) = 0 /\ a \in Nat /\ a < WORD
  <2>0. ENTRIES \in Nat \ {0, 1} /\ WORD \in Nat \ {0}
    BY PageTableAssumption
  <2>1. 4 \in Levels /\ ENTRIES \in Nat /\ ENTRIES >= 2 /\ a \in Nat /\ a < WORD
    BY <2>0 DEF Levels, Addrs
  <2>2. Span[4] \in Nat /\ Span[4] > 0
    BY <2>1, SpanFacts
  <2>3. WORD % (ENTRIES * Span[4]) = 0
    BY SpanAssumption
  <2> QED
    BY <2>0, <2>1, <2>2, <2>3
<1> HIDE DEF s, n
<1>2. PICK i \in Nat : a = (i * s) + (a % s)
  BY <1>1, DivMod
<1>3. a % s \in 0 .. s - 1
  BY <1>1, DivMod
<1>4. n * s \in Nat /\ n * s > 0
  BY <1>1
<1>5. PICK j \in Nat : WORD = (j * (n * s)) + (WORD % (n * s))
  BY <1>1, <1>4, DivMod
<1>6. WORD = (j * n) * s /\ j * n \in Nat
  <2>1. j * (n * s) = (j * n) * s /\ j * (n * s) \in Nat
    BY <1>1
  <2> QED
    BY <1>1, <1>5, <2>1
<1>7. i * s \in Nat /\ i * s < (j * n) * s
  BY <1>1, <1>2, <1>3, <1>6
<1>8. i * s + s <= (j * n) * s
  BY <1>1, <1>6, <1>7, NextMultiple
<1>9. End(4, a) + 1 = i * s + s /\ i * s + s = (i + 1) * s
  BY <1>1, <1>2, <1>3, <1>7 DEF End, s
<1>10. \A k \in Nat : (k * s) \div s = k /\ (k * s + (a % s)) \div s = k
  <2> TAKE k \in Nat
  <2>1. /\ \A r \in 0 .. s - 1 : (k * s + r) \div s = k
    BY <1>1, Quotient
  <2>2. k * s + 0 = k * s
    BY <1>1
  <2>3. 0 \in 0 .. s - 1
    BY <1>1
  <2> QED
    BY <1>3, <2>1, <2>2, <2>3
<1>11. Index(4, a) = i % n
  BY <1>2, <1>10 DEF Index, s, n
<1>12. CASE (i + 1) * s < WORD
  <2>1. (i + 1) * s \in Nat
    BY <1>1
  <2>2. (End(4, a) + 1) % WORD = (i + 1) * s
    BY <1>1, <1>9, <1>12, <2>1
  <2>3. Index(4, (End(4, a) + 1) % WORD) = (i + 1) % n
    BY <1>10, <2>2 DEF Index, s, n
  <2>4. (i + 1) % n # i % n
    BY <1>1, NextModulo
  <2> QED
    BY <1>11, <2>3, <2>4
<1>13. CASE (i + 1) * s = WORD
  <2>1. i + 1 = j * n
    <3>1. (i + 1) * s = (j * n) * s
      BY <1>6, <1>13
    <3> DEFINE m == j * n
    <3>2. m \in Nat /\ (i + 1) * s = m * s
      BY <1>6, <3>1
    <3> HIDE DEF m
    <3>3. ((i + 1) * s) \div s = i + 1 /\ (m * s) \div s = m
      BY <1>10, <3>2
    <3>4. i + 1 = m
      BY <3>2, <3>3
    <3> QED
      BY <3>4 DEF m
  <2>2. (End(4, a) + 1) % WORD = 0
    BY <1>1, <1>9, <1>13
  <2>3. 0 * s = 0
    BY <1>1
  <2>4. Index(4, (End(4, a) + 1) % WORD) = 0 % n
    BY <1>10, <2>2, <2>3 DEF Index, s, n
  <2>5. i % n # 0 % n
    <3>1. j * n + 0 = i + 1 /\ 0 \in 0 .. n - 1 /\ 0 = 0 * n + 0
      BY <1>1, <1>6, <2>1
    <3>2. (i + 1) % n = 0 /\ 0 % n = 0
      BY <1>1, <3>1, ModOfMultiple
    <3>3. (i + 1) % n # i % n
      BY <1>1, NextModulo
    <3> QED
      BY <3>2, <3>3
  <2> QED
    BY <1>11, <2>4, <2>5
<1>14. (i + 1) * s <= WORD
  BY <1>6, <1>8, <1>9
<1> QED
  BY <1>1, <1>12, <1>13, <1>14

\* An inner loop is left.
LEMMA LeaveKeeps ==
    ASSUME PageInv, LeaveLoop
    PROVE  PageInv'
<1>1. /\ pc = "walk" /\ pc' = "walk" /\ op' = op /\ setup' = setup /\ UNCHANGED memory
      /\ entries' = entries /\ free' = free /\ leftover' = leftover /\ Len(loops) > 1
  BY DEF LeaveLoop, memory
<1>2. TypeInv' /\ MemoryInv' /\ Len(loops) \in 2 .. 4
  <2>1. TypeInv'
    BY WalkType DEF PageInv, Walk
  <2>2. MemoryInv'
    BY <1>1, UnchangedCounts, TypeOKParts DEF PageInv, TypeInv
  <2>3. Len(loops) \in 1 .. 4
    BY <1>1 DEF PageInv, TypeInv, CallType
  <2> QED
    BY <1>1, <2>1, <2>2, <2>3, Lengths
<1>3. Changing =>
      /\ RootOnTop'
      /\ Len(loops') = Len(loops) - 1
      /\ Root.next < Root.end
      /\ Len(loops) > 2 => Root' = Root
      /\ Len(loops) = 2 => Root' = [Root EXCEPT !.next = (End(4, Root.next) + 1) % WORD]
      /\ Root \in LoopType /\ Root.level = 4
  BY LeaveRoot DEF PageInv
<1>4. \A p : References(p)' = References(p)
  BY <1>1 DEF References, Present
<1>5. BootMapsNothing'
  <2>1. RootEmpty' = RootEmpty
    BY <1>1 DEF RootEmpty, Present
  <2>2. op.name = "boot_map" => ~ RootEmpty
    <3>1. Len(loops) # 1
      BY <1>2
    <3> QED
      BY <1>1, <3>1 DEF PageInv, BootMapsNothing, Walking
  <2> QED
    BY <1>1, <2>1, <2>2 DEF PageInv, BootMapsNothing, Walking
<1>6. InsertHeld'
  <2> SUFFICES ASSUME op.name = "insert" PROVE InsertHeld'
    BY <1>1 DEF InsertHeld, Walking
  <2>1. /\ op.page \notin free /\ op.page # kernel_pml4 /\ Changing
        /\ <<kernel_pml4, Index(4, Root.next)>> \in References(op.page)
    BY <1>1 DEF PageInv, InsertHeld, Walking, Changing
  <2>4. Len(loops) \in Nat /\ (Len(loops) = 2 \/ Len(loops) > 2)
    <3> DEFINE n == Len(loops)
    <3>1. n \in 2 .. 4
      BY <1>2
    <3> HIDE DEF n
    <3>2. n \in Nat /\ (n = 2 \/ n > 2)
      BY <3>1
    <3> QED
      BY <3>2 DEF n
  <2>2. CASE Len(loops) > 2
    <3>1. Root' = Root
      BY <1>3, <2>1, <2>2
    <3>2. Index(4, Root.next)' = Index(4, Root.next)
      BY <3>1 DEF Index
    <3>3. (<<kernel_pml4, Index(4, Root.next)>> \in References(op.page))'
      BY <1>1, <1>4, <2>1, <3>2
    <3>4. Len(loops') # 1
      <4> DEFINE n == Len(loops)
                 m == Len(loops')
      <4>1. n \in Nat /\ n > 2 /\ m = n - 1
        BY <1>3, <2>1, <2>2, <2>4
      <4> HIDE DEF n, m
      <4>2. m # 1
        BY <4>1
      <4> QED
        BY <4>2 DEF m
    <3> QED
      BY <1>1, <2>1, <3>3, <3>4 DEF InsertHeld, Walking
  <2>3. CASE Len(loops) = 2
    <3>1. Root.next \in Addrs
      BY <1>3, <2>1 DEF LoopType
    <3>2. Root'.next = (End(4, Root.next) + 1) % WORD
      BY <1>3, <2>1, <2>3 DEF LoopType
    <3>3. Index(4, Root.next)' = Index(4, (End(4, Root.next) + 1) % WORD)
      BY <3>2 DEF Index
    <3>4. Index(4, Root.next)' # Index(4, Root.next)
      BY <3>1, <3>3, NextIndex
    <3>5. /\ <<kernel_pml4, Index(4, Root.next)>> \in References(op.page)'
          /\ <<kernel_pml4, Index(4, Root.next)>> # <<kernel_pml4, Index(4, Root.next)'>>
      <4>1. <<kernel_pml4, Index(4, Root.next)>> \in References(op.page)'
        BY <1>1, <2>1 DEF References, Present
      <4> QED
        BY <3>4, <4>1
    <3>6. Len(loops') = 1
      BY <1>3, <2>1, <2>3
    <3>7. (\E y \in References(op.page) : y # <<kernel_pml4, Index(4, Root.next)>>)'
      BY <3>5
    <3> QED
      BY <1>1, <2>1, <3>6, <3>7 DEF InsertHeld, Walking
  <2> QED
    BY <2>2, <2>3, <2>4
<1>7. RootOnTop'
  BY <1>1, <1>3 DEF RootOnTop, Changing
<1> QED
  BY <1>2, <1>5, <1>6, <1>7 DEF PageInv

\* A call that ends, or a kernel that does.
LEMMA StopKeeps ==
    ASSUME PageInv, TypeInv', UNCHANGED memory, pc' # "walk",
           setup' = setup \/ (setup' = setup + 1 /\ setup <= Len(BootCalls))
    PROVE  PageInv'
<1>1. MemoryInv' /\ entries' = entries
  BY UnchangedCounts, TypeOKParts DEF PageInv, TypeInv, memory
<1>2. setup' <= Len(BootCalls) => setup <= Len(BootCalls)
  BY SetupType DEF PageInv
<1>3. BootMapsNothing'
  BY <1>1, <1>2 DEF PageInv, BootMapsNothing, Walking, RootEmpty, Present
<1> QED
  BY <1>1, <1>3 DEF PageInv, RootOnTop, Changing, InsertHeld, Walking

LEMMA WalkKeeps ==
    ASSUME PageInv, CountsBelowLimit, Walk, ~ astray'
    PROVE  PageInv'
<1>1. TypeInv'
  BY WalkType DEF PageInv
<1>2. CASE LookupDone \/ OtherDone \/ NoSuchPage \/ FreeAgain \/ NoTable
  BY <1>1, <1>2, StopKeeps DEF LookupDone, OtherDone, NoSuchPage, FreeAgain, NoTable
<1> QED
  BY <1>2, InsertKeeps, RemoveKeeps, LookKeeps, BootPassKeeps, BootEntryKeeps, LeaveKeeps
     DEF Walk

-----------------------------------------------------------------------------
(* The calls begin *)

\* The walk begins at the root.
LEMMA StartsAtRoot ==
    ASSUME NEW b, NEW e, Len(loops') = 1, loops'[1] = Loop(4, kernel_pml4, b, e)
    PROVE  RootOnTop' /\ Root'.next = b /\ Root'.end = e
<1>1. Root' = Loop(4, kernel_pml4, b, e)
  BY DEF Root
<1>2. Root'.table = kernel_pml4 /\ Root'.next = b /\ Root'.end = e
  BY <1>1 DEF Loop
<1> QED
  BY <1>2 DEF RootOnTop

\* A reference to p from a table.
ReferredBelow(p) == \E x \in References(p) : x[1] # kernel_pml4

\* page_insert() begins with a page that is not mapped, or mapped by a table.
LEMMA InsertBegins ==
    ASSUME PageInv, TypeInv', MemoryInv', Begin,
           NEW va \in Addrs, WalkPageRange(va, va + PAGE_SIZE),
           op'.name = "insert", op'.page \notin free', op'.page # kernel_pml4,
           References(op.page)' = {} \/ ReferredBelow(op.page)'
    PROVE  PageInv'
<1> DEFINE b == RoundDown(va)
           e == (RoundUp((va + PAGE_SIZE) % WORD) + WORD - 1) % WORD
<1>1. va + PAGE_SIZE \in Nat
  BY PageSizeIsNat DEF Addrs
<1>2. Len(loops') = 1 /\ loops'[1] = Loop(4, kernel_pml4, b, e)
  BY <1>1, WalkPageRangeType
<1> HIDE DEF b, e
<1>3. RootOnTop'
  BY <1>2, StartsAtRoot
<1>4. ReferredBelow(op.page)' =>
          (\E y \in References(op.page) : y # <<kernel_pml4, Index(4, Root.next)>>)'
  BY DEF ReferredBelow
<1>5. InsertHeld'
  BY <1>2, <1>4 DEF InsertHeld, Walking
<1>6. BootMapsNothing'
  BY SetupType DEF BootMapsNothing, Walking, PageInv, Begin
<1> QED
  BY <1>3, <1>5, <1>6 DEF PageInv

\* A page just allocated loses what it referred to, and is not referred to.
LEMMA FreshKeeps ==
    ASSUME PageInv, NEW va \in InsertAddrs, NEW perms \in Permissions,
           PageInsertFresh(va, perms)
    PROVE  PageInv'
<1>0. PICK p : p = PickFree(free)
  OBVIOUS
<1>1. MemoryType /\ MemoryInv /\ TypeInv'
  BY TypeOKParts, FreshType DEF PageInv, TypeInv
<1>2. p \in free /\ p \in Pages /\ p # kernel_pml4
  BY <1>0, <1>1, PickFreeAssumption
     DEF PageInsertFresh, MemoryType, MemoryInv, RootUnreferenced
<1>3. /\ free' = free \ {p} /\ pp_ref' = pp_ref
      /\ \/ UNCHANGED <<entries, leftover>>
         \/ \E t \in {Empty} \cup PageData :
               /\ entries' = [entries EXCEPT ![p] = t]
               /\ leftover' = (leftover \ ({p} \X Slots)) \cup PresentIn(p, t)
      /\ op'.name = "insert" /\ op'.page = p
      /\ Begin /\ WalkPageRange(va, va + PAGE_SIZE)
  BY <1>0 DEF PageInsertFresh
<1>4. \A q : References(q)' \subseteq References(q)
  <2>1. CASE UNCHANGED <<entries, leftover>>
    BY <2>1 DEF References, Present
  <2>2. ASSUME NEW t \in {Empty} \cup PageData,
               entries' = [entries EXCEPT ![p] = t],
               leftover' = (leftover \ ({p} \X Slots)) \cup PresentIn(p, t)
        PROVE  <1>4!:
    <3> SUFFICES ASSUME NEW q, NEW x \in References(q)' PROVE x \in References(q)
      OBVIOUS
    <3>1. /\ x \in Pages \X Slots /\ x \notin leftover'
          /\ Present(entries'[x[1]][x[2]]) /\ entries'[x[1]][x[2]].page = q
      BY DEF References, Present
    <3>2. PICK r \in Pages, i \in Slots : x = <<r, i>>
      BY <3>1
    <3>3. x[1] = r /\ x[2] = i
      BY <3>2
    <3>4. r # p
      <4> SUFFICES ASSUME r = p PROVE FALSE
        OBVIOUS
      <4>1. entries'[r] = t
        BY <1>1, <1>2, <2>2 DEF MemoryType
      <4>2. x \in PresentIn(p, t)
        BY <3>1, <3>2, <3>3, <4>1 DEF PresentIn
      <4> QED
        BY <2>2, <3>1, <4>2
    <3>5. entries'[r] = entries[r]
      BY <1>1, <2>2, <3>4 DEF MemoryType
    <3>6. x \notin leftover
      BY <2>2, <3>1, <3>2, <3>4
    <3> QED
      BY <3>1, <3>3, <3>5, <3>6 DEF References
  <2> QED
    BY <1>3, <2>1, <2>2
<1>5. MemoryInv'
  BY <1>1, <1>3, <1>4, FewerReferences
<1>6. References(p)' = {}
  BY <1>1, <1>2, <1>4, Counted DEF MemoryInv
<1>7. References(op.page)' = {}
  BY <1>3, <1>6 DEF References, Present
<1>8. va \in Addrs
  BY PageTableAssumption
<1> QED
  BY <1>1, <1>2, <1>3, <1>5, <1>7, <1>8, InsertBegins

\* The table an entry leads to is not the root, if the code has written the entry.
LEMMA EntryBelow ==
    ASSUME TypeOK, RootUnreferenced, NEW k \in Levels, NEW a \in Addrs,
           NEW x \in Pages \X Slots, x \notin leftover,
           NEW e, Present(e) => e = entries[x[1]][x[2]],
           Present(Below(k, e, a))
    PROVE  /\ e.page # kernel_pml4 /\ <<e.page, Index(k, a)>> \in Pages \X Slots
           /\ Below(k, e, a) = entries[e.page][Index(k, a)]
           /\ Present(e)
<1>1. Present(e) /\ e.page \in Pages /\ Below(k, e, a) = entries[e.page][Index(k, a)]
  BY DEF Below, Present, HOLE
<1>2. x \in References(e.page)
  BY <1>1 DEF References
<1>3. e.page # kernel_pml4
  BY <1>2 DEF RootUnreferenced
<1>4. Index(k, a) \in Slots
  BY IndexInTable DEF Addrs
<1> QED
  BY <1>1, <1>3, <1>4

\* What is mapped by way of entries that the code has written has a reference
\* from a table below the root.
LEMMA LeafBelow ==
    ASSUME TypeOK, RootUnreferenced, NEW a \in Addrs, Present(Leaf(a)),
           Way(a) \cap leftover = {}
    PROVE  ReferredBelow(Leaf(a).page)
<1> DEFINE e4 == entries[kernel_pml4][Index(4, a)]
           e3 == Below(3, e4, a)
           e2 == Below(2, e3, a)
           e1 == Below(1, e2, a)
           x4 == <<kernel_pml4, Index(4, a)>>
           x3 == <<e4.page, Index(3, a)>>
           x2 == <<e3.page, Index(2, a)>>
           x1 == <<e2.page, Index(1, a)>>
<1>1. 1 \in Levels /\ 2 \in Levels /\ 3 \in Levels /\ 4 \in Levels /\ a \in Nat
  BY DEF Levels, Addrs
<1>2. x4 \in Pages \X Slots
  BY <1>1, IndexInTable, PageTableAssumption
<1>3. Pde(a) = e2 /\ Directory(a) = e3
      /\ Leaf(a) = IF Present(e2) /\ Huge(e2) THEN e2 ELSE e1
  BY DEF Directory, Pde, Leaf
<1>4. /\ x4 \notin leftover /\ x3 \notin leftover /\ x2 \notin leftover
      /\ ~ Huge(e2) => x1 \notin leftover
  BY <1>3 DEF Way
<1>5. e4 = entries[x4[1]][x4[2]]
  OBVIOUS
<1> HIDE DEF e4, x4
<1>6. Present(e3) => x3 \in Pages \X Slots /\ e3 = entries[x3[1]][x3[2]]
  BY <1>1, <1>2, <1>4, <1>5, EntryBelow
<1>7. Present(e2) => Present(e3)
  BY DEF Below, Present, HOLE
<1>8. Present(e1) => Present(e2) /\ ~ Huge(e2)
  BY DEF Below, Present, HOLE
<1> HIDE DEF e3, x3
<1>9. Present(e2) => /\ e3.page # kernel_pml4 /\ x2 \in Pages \X Slots
                     /\ e2 = entries[x2[1]][x2[2]]
  BY <1>1, <1>4, <1>6, <1>7, EntryBelow
<1>10. x2[1] = e3.page
  OBVIOUS
<1> HIDE DEF e2, x2
<1>11. Present(e1) => /\ e2.page # kernel_pml4 /\ x1 \in Pages \X Slots
                      /\ e1 = entries[x1[1]][x1[2]]
  BY <1>1, <1>4, <1>8, <1>9, EntryBelow
<1>12. x1[1] = e2.page
  OBVIOUS
<1> HIDE DEF e1, x1
<1>13. CASE Present(e2) /\ Huge(e2)
  <2>1. Leaf(a) = e2
    BY <1>3, <1>13
  <2>2. x2 \in References(Leaf(a).page) /\ x2[1] # kernel_pml4
    BY <1>4, <1>9, <1>10, <1>13, <2>1 DEF References
  <2> QED
    BY <2>2 DEF ReferredBelow
<1>14. CASE ~ (Present(e2) /\ Huge(e2))
  <2>1. Leaf(a) = e1 /\ Present(e1)
    BY <1>3, <1>14
  <2>2. x1 \in References(Leaf(a).page) /\ x1[1] # kernel_pml4
    BY <1>4, <1>8, <1>11, <1>12, <2>1 DEF References
  <2> QED
    BY <2>2 DEF ReferredBelow
<1> QED
  BY <1>13, <1>14

LEMMA AgainKeeps ==
    ASSUME PageInv, NEW a \in InsertAddrs, NEW va \in InsertAddrs,
           NEW perms \in Permissions, PageInsertAgain(a, va, perms), ~ astray'
    PROVE  PageInv'
<1> DEFINE p == Leaf(a).page
<1>1. MemoryType /\ MemoryInv /\ TypeInv' /\ TypeOK /\ RootUnreferenced
  BY TypeOKParts, AgainType DEF PageInv, TypeInv, MemoryInv
<1>2. a \in Addrs /\ va \in Addrs
  BY PageTableAssumption
<1>3. ReferredBelow(p)
  BY <1>1, <1>2, LeafBelow DEF PageInsertAgain
<1>4. /\ Begin /\ op'.name = "insert" /\ op'.page = p /\ p \in Pages
      /\ UNCHANGED memory /\ WalkPageRange(va, va + PAGE_SIZE)
  BY DEF PageInsertAgain
<1> HIDE DEF p
<1>5. References(p) # {}
  BY <1>3 DEF ReferredBelow
<1>6. p \notin free /\ p # kernel_pml4
  BY <1>1, <1>4, <1>5, Counted DEF MemoryInv, RootUnreferenced
<1>7. MemoryInv' /\ free' = free /\ entries' = entries /\ leftover' = leftover
  BY <1>1, <1>4, UnchangedCounts DEF memory
<1>8. ReferredBelow(op.page)'
  BY <1>3, <1>4, <1>7 DEF ReferredBelow, References, Present
<1> QED
  BY <1>1, <1>2, <1>4, <1>6, <1>7, <1>8, InsertBegins

\* Calls that do not change memory when they begin, and do not insert.
LEMMA OtherBegins ==
    ASSUME PageInv, TypeInv', UNCHANGED memory, Begin,
           NEW b, NEW e, Len(loops') = 1, loops'[1] = Loop(4, kernel_pml4, b, e),
           op'.name \notin {"insert", "boot_map"}
    PROVE  PageInv'
<1>1. MemoryInv'
  BY UnchangedCounts, TypeOKParts DEF PageInv, TypeInv
<1>2. RootOnTop'
  BY StartsAtRoot
<1>3. BootMapsNothing'
  BY SetupType DEF BootMapsNothing, Walking, PageInv, Begin
<1> QED
  BY <1>1, <1>2, <1>3 DEF PageInv, InsertHeld, Walking

\* boot_map_region() is called while the root is empty, or for memory nobody counts.
LEMMA BootMapBegins ==
    ASSUME PageInv, NEW r \in Regions, BootMapRegion(r), TypeInv',
           \/ setup <= Len(BootCalls) /\ setup' = setup + 1
           \/ setup > Len(BootCalls) /\ setup' = setup /\ r.pa >= NPAGES
    PROVE  PageInv'
<1>1. r.va \in Addrs /\ r.va + r.size \in Nat /\ r.pa \in Nat
  BY DEF Regions, Addrs
<1>2. /\ UNCHANGED memory /\ WalkPageRange(r.va, r.va + r.size)
      /\ op'.name = "boot_map" /\ op'.page = r.pa
  BY DEF BootMapRegion
<1>3. Len(loops') = 1 /\ loops'[1] = Loop(4, kernel_pml4, RoundDown(r.va),
                              (RoundUp((r.va + r.size) % WORD) + WORD - 1) % WORD)
  BY <1>1, <1>2, WalkPageRangeType
<1>4. RootOnTop'
  BY <1>3, StartsAtRoot
<1>5. MemoryInv' /\ entries' = entries
  BY <1>2, UnchangedCounts, TypeOKParts DEF PageInv, TypeInv, memory
<1>6. RootEmpty' = RootEmpty
  BY <1>5 DEF RootEmpty, Present
<1>7. BootMapsNothing'
  <2>1. setup \in Int /\ Len(BootCalls) \in Nat /\ NPAGES \in Nat
    BY SetupType, PageTableAssumption DEF PageInv
  <2>2. setup' <= Len(BootCalls) => RootEmpty
    BY <2>1 DEF PageInv, BootMapsNothing
  <2>3. op'.page < NPAGES => RootEmpty
    BY <1>1, <1>2, <2>1 DEF PageInv, BootMapsNothing
  <2> QED
    BY <1>2, <1>3, <1>6, <2>2, <2>3 DEF BootMapsNothing, Walking
<1> QED
  BY <1>2, <1>4, <1>5, <1>7 DEF PageInv, InsertHeld, Walking

LEMMA CallKeeps ==
    ASSUME PageInv, Call, ~ astray'
    PROVE  PageInv'
<1>0. TypeInv'
  BY CallKeepsType DEF PageInv
<1>1. ASSUME NEW va \in InsertAddrs, PageInsertMisaligned(va)
      PROVE  PageInv'
  BY <1>0, <1>1, StopKeeps DEF PageInsertMisaligned, Begin
<1>2. ASSUME NEW r \in Ranges, UnmapPageRange(r[1], r[2]) \/ PageLookup(r[1])
      PROVE  PageInv'
  <2>1. r[1] \in Addrs /\ r[1] + r[2] \in Nat /\ r[1] + PAGE_SIZE \in Nat
    BY PageTableAssumption, PageSizeIsNat DEF Addrs
  <2>2. CASE UnmapPageRange(r[1], r[2])
    BY <1>0, <2>1, <2>2, WalkPageRangeType, OtherBegins DEF UnmapPageRange
  <2>3. CASE PageLookup(r[1])
    BY <1>0, <2>1, <2>3, WalkPageRangeType, OtherBegins DEF PageLookup
  <2> QED
    BY <1>2, <2>2, <2>3
<1>3. ASSUME NEW b \in BootMaps, Begin, BootMapRegion(b)
      PROVE  PageInv'
  <2>1. b \in Regions /\ b.pa >= NPAGES
    BY PageTableAssumption
  <2> QED
    BY <1>0, <1>3, <2>1, BootMapBegins DEF Begin
<1>4. ASSUME NEW mask \in DumpMasks, DumpPageTables(mask)
      PROVE  PageInv'
  <2>1. 0 \in Addrs /\ WORD - 1 \in Addrs
    BY PageTableAssumption DEF Addrs
  <2>2. Len(loops') = 1 /\ loops'[1] = Loop(4, kernel_pml4, 0, WORD - 1)
    BY <1>4, <2>1, WalkFromType DEF DumpPageTables, WalkAllPages
  <2> QED
    BY <1>0, <1>4, <2>2, OtherBegins DEF DumpPageTables
<1> QED
  BY <1>1, <1>2, <1>3, <1>4, FreshKeeps, AgainKeeps DEF Call

LEMMA Pml4SetupKeeps ==
    ASSUME PageInv, Pml4Setup
    PROVE  PageInv'
<1>1. TypeInv'
  BY Pml4SetupType DEF PageInv
<1>2. /\ setup \in 1 .. Len(BootCalls) /\ setup <= Len(BootCalls)
      /\ setup' = setup + 1 /\ pc = "idle"
  BY SetupType DEF Pml4Setup, PageInv
<1>3. CASE PassedOver(setup)
  BY <1>1, <1>2, <1>3, StopKeeps DEF Pml4Setup
<1>4. CASE ~ PassedOver(setup)
  <2>1. BootCalls[setup] \in Regions
    BY <1>2, BootCallsAreRegions
  <2> QED
    BY <1>1, <1>2, <1>4, <2>1, BootMapBegins DEF Pml4Setup
<1> QED
  BY <1>3, <1>4

LEMMA InitPage == Init => PageInv
<1> SUFFICES ASSUME Init PROVE PageInv
  OBVIOUS
<1>1. TypeInv
  BY InitType
<1>2. \A p \in Pages, i \in Slots : Present(entries[p][i]) => <<p, i>> \in leftover
  <2> SUFFICES ASSUME NEW p \in Pages, NEW i \in Slots, Present(entries[p][i])
               PROVE  <<p, i>> \in leftover
    OBVIOUS
  <2>1. <<p, i>> \in PresentIn(p, entries[p])
    BY DEF PresentIn
  <2> QED
    BY <2>1 DEF Init
<1>3. \A p : References(p) = {}
  BY <1>2 DEF References
<1>4. \A p \in Pages : pp_ref[p] = 0
  BY DEF Init
<1>5. MemoryInv
  <2>1. CountsCover
    BY <1>3, <1>4, FS_EmptySet DEF CountsCover
  <2>2. RootUnreferenced /\ FreeUncounted
    BY <1>3, <1>4 DEF Init, RootUnreferenced, FreeUncounted
  <2> QED
    BY <2>1, <2>2 DEF MemoryInv
<1>6. RootEmpty
  <2>1. PICK m \in Leftovers : entries = [m EXCEPT ![kernel_pml4] = Empty]
    BY DEF Init
  <2>2. m \in [Pages -> [Slots -> Entries]] /\ kernel_pml4 \in Pages
    BY PageTableAssumption
  <2>3. entries[kernel_pml4] = Empty
    BY <2>1, <2>2
  <2> QED
    BY <2>3 DEF RootEmpty, Empty, HOLE, Present
<1>7. BootMapsNothing
  BY <1>6 DEF BootMapsNothing, Walking, Init
<1> QED
  BY <1>1, <1>5, <1>7 DEF PageInv, RootOnTop, Changing, InsertHeld, Walking, Init

LEMMA PageStep ==
    ASSUME PageInv, CountsBelowLimit, [Next]_vars, ~ astray'
    PROVE  PageInv'
<1>1. CASE Next
  BY <1>1, WalkKeeps, CallKeeps, Pml4SetupKeeps DEF Next
<1>2. CASE UNCHANGED vars
  <2>1. /\ entries' = entries /\ pp_ref' = pp_ref /\ free' = free /\ op' = op
        /\ loops' = loops /\ setup' = setup /\ pc' = pc /\ leftover' = leftover
        /\ astray' = astray
    BY <1>2 DEF vars
  <2>2. \A p : References(p)' = References(p)
    BY <2>1 DEF References, Present
  <2>3. TypeInv'
    BY <2>1 DEF PageInv, TypeInv, TypeOK, CallType
  <2>4. MemoryInv'
    BY <2>1, <2>2 DEF PageInv, MemoryInv, RootUnreferenced, CountsCover, FreeUncounted
  <2>5. RootOnTop' /\ BootMapsNothing'
    BY <2>1
       DEF PageInv, RootOnTop, Changing, Root, BootMapsNothing, Walking, RootEmpty, Present
  <2>6. InsertHeld'
    BY <2>1, <2>2 DEF PageInv, InsertHeld, Walking, Root, Index
  <2> QED
    BY <2>3, <2>4, <2>5, <2>6 DEF PageInv
<1> QED
  BY <1>1, <1>2

\* A call that has gone astray stays so.
LEMMA AstrayStays ==
    ASSUME TypeInv, [Next]_vars, astray
    PROVE  astray'
<1>1. CASE Pml4Setup
  BY <1>1 DEF Pml4Setup, BootMapRegion
<1>2. CASE Call
  BY <1>2 DEF Call, PageInsertFresh, PageInsertAgain, PageInsertMisaligned,
              UnmapPageRange, PageLookup, BootMapRegion, DumpPageTables
<1>3. CASE Walk
  BY <1>3 DEF Walk, InsertPte, InsertPde, RemovePte, RemovePde, LookupEntry, BootMapPte,
              BootMapPde, DumpEntry, Pass, LeaveLoop, LookupDone, OtherDone, NoSuchPage,
              FreeAgain, NoTable, Proceed
<1>4. CASE UNCHANGED vars
  BY <1>4 DEF vars
<1> QED
  BY <1>1, <1>2, <1>3, <1>4 DEF Next

LEMMA NoneFree == PageInv => MappedNotFree /\ CountsCover
<1> SUFFICES ASSUME PageInv PROVE MappedNotFree /\ CountsCover
  OBVIOUS
<1>1. MemoryType /\ CountsCover /\ FreeUncounted
  BY TypeOKParts DEF PageInv, TypeInv, MemoryInv
<1>2. MappedNotFree
  BY <1>1, Counted DEF MappedNotFree, MemoryType
<1> QED
  BY <1>1, <1>2

\* The types always, the rest until a call goes astray.
IndInv == TypeInv /\ (~ astray => PageInv)

LEMMA InductiveInvariant ==
    /\ Init => IndInv
    /\ IndInv /\ CountsBelowLimit /\ [Next]_vars => IndInv'
    /\ IndInv => MappedKept /\ (~ astray => CountsCover)
<1>1. Init => IndInv
  BY InitType, InitPage DEF IndInv
<1>2. ASSUME IndInv, CountsBelowLimit, [Next]_vars
      PROVE  IndInv'
  <2>1. TypeInv'
    BY <1>2, TypeStep DEF IndInv
  <2>2. ASSUME ~ astray' PROVE PageInv'
    BY <1>2, <2>2, AstrayStays, PageStep DEF IndInv
  <2> QED
    BY <2>1, <2>2 DEF IndInv
<1>3. IndInv => MappedKept /\ (~ astray => CountsCover)
  BY NoneFree DEF IndInv, MappedKept
<1> QED
  BY <1>1, <1>2, <1>3

\* Whatever memory holds when the kernel starts and whatever callers write into
\* their pages: as long as no count of 16 bits is about to wrap, and no call has
\* changed entries by way of one that the code has not written, no page that an
\* entry points to is free.  page_insert(), page_remove() and the tables they
\* allocate give no page out twice, although insert_pte() unreferences the old
\* page before it references the new one, and although a walk that begins in
\* the last entry of the PML4 goes round and inserts the page everywhere.
THEOREM MappedPagesKept == Spec /\ []CountsBelowLimit => []MappedKept
<1> QED
  BY InductiveInvariant, PTL DEF Spec

\* Under the same conditions pp_ref never counts fewer entries than there are,
\* those of pages used as tables included.
THEOREM CountsCorrect == Spec /\ []CountsBelowLimit => [](~ astray => CountsCover)
<1> QED
  BY InductiveInvariant, PTL DEF Spec
=============================================================================
