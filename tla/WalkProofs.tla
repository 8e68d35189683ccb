----------------------------- MODULE WalkProofs -----------------------------
(***************************************************************************)
(* What walks leave behind or report: unmap_page_range(), page_lookup()    *)
(* and dump_page_tables(), for every size of memory and of the tables, and *)
(* whatever the tables hold.                                               *)
(*                                                                         *)
(* The loops of a walk lie inside each other and follow the way the        *)
(* processor takes to the addresses they are at (Shape).  Hence the        *)
(* entry an iteration handles is the one that decides for every address    *)
(* it is about to pass, and what is true of the addresses passed can be    *)
(* carried from iteration to iteration, out of inner loops and into them.  *)
(***************************************************************************)
EXTENDS PageTableProofs

-----------------------------------------------------------------------------
(* Arithmetic of spans *)

LEMMA SameMultiple ==
    ASSUME NEW s \in Nat, s > 0, NEW i \in Int, NEW j \in Int, i * s = j * s
    PROVE  i = j
<1>1. ASSUME NEW a \in Int, NEW b \in Int, a * s = b * s
      PROVE  ~ (a < b)
  <2> SUFFICES ASSUME a < b PROVE FALSE
    OBVIOUS
  <2>1. (b - a - 1) * s >= 0
    OBVIOUS
  <2>2. (b - a - 1) * s = b * s - a * s - s
    OBVIOUS
  <2> QED
    BY <1>1, <2>1, <2>2
<1> QED
  BY <1>1

\* An entry of level k stands for the i-th span of memory.
Spanned(k, i, a) == i * Span[k] <= a /\ a <= (i * Span[k]) + Span[k] - 1

LEMMA SpanOf ==
    ASSUME NEW k \in Levels, NEW a \in Nat
    PROVE  \E i \in Nat : Spanned(k, i, a)
<1>1. Span[k] \in Nat /\ Span[k] > 0
  BY SpanFacts
<1>2. PICK i \in Nat : a = (i * Span[k]) + (a % Span[k])
  BY <1>1, DivMod
<1>3. a % Span[k] \in 0 .. Span[k] - 1
  BY <1>1, DivMod
<1>4. i * Span[k] \in Nat
  BY <1>1
<1> QED
  BY <1>1, <1>2, <1>3, <1>4 DEF Spanned

LEMMA OfSpan ==
    ASSUME NEW k \in Levels, NEW a \in Nat, NEW i \in Nat, Spanned(k, i, a)
    PROVE  /\ End(k, a) = (i * Span[k]) + Span[k] - 1
           /\ Index(k, a) = i % ENTRIES
           /\ End(k, a) \in Nat /\ a <= End(k, a)
<1> DEFINE s == Span[k]
           r == a - (i * s)
<1>1. s \in Nat /\ s > 0
  BY SpanFacts
<1> HIDE DEF s
<1>2. i * s \in Nat
  BY <1>1
<1>3. r \in 0 .. s - 1 /\ a = (i * s) + r
  BY <1>1, <1>2 DEF Spanned, s
<1> HIDE DEF r
<1>4. a % s = r
  BY <1>1, <1>3, ModOfMultiple
<1>5. a = ((a \div s) * s) + (a % s) /\ a \div s \in Nat
  BY <1>1, SMT
<1> DEFINE q == a \div s
<1>6. q \in Nat /\ q * s \in Nat /\ a = (q * s) + r
  BY <1>1, <1>4, <1>5
<1> HIDE DEF q
<1>7. q * s = i * s
  <2>1. PICK x \in Nat : x = q * s
    BY <1>6
  <2>2. PICK y \in Nat : y = i * s
    BY <1>2
  <2>3. a = x + r /\ a = y + r
    BY <1>3, <1>6, <2>1, <2>2
  <2> HIDE DEF r
  <2> QED
    BY <1>3, <2>1, <2>2, <2>3
<1>8. q = i
  BY <1>1, <1>6, <1>7, SameMultiple
<1>9. Index(k, a) = i % ENTRIES
  BY <1>8 DEF Index, q, s
<1>10. End(k, a) = (i * s) + s - 1
  BY <1>1, <1>2, <1>3, <1>4 DEF End, s
<1> QED
  BY <1>1, <1>2, <1>3, <1>9, <1>10 DEF s

\* Addresses up to the end of an entry belong to it.
LEMMA SameEntry ==
    ASSUME NEW k \in Levels, NEW a \in Nat, NEW b \in Nat, a <= b, b <= End(k, a)
    PROVE  End(k, b) = End(k, a) /\ Index(k, b) = Index(k, a)
<1>1. PICK i \in Nat : Spanned(k, i, a)
  BY SpanOf
<1>2. End(k, a) = (i * Span[k]) + Span[k] - 1
  BY <1>1, OfSpan
<1>3. Spanned(k, i, b)
  <2>1. i * Span[k] \in Nat /\ Span[k] \in Nat
    BY SpanFacts
  <2> QED
    BY <1>1, <1>2, <2>1 DEF Spanned
<1> QED
  BY <1>1, <1>3, OfSpan

LEMMA SameEnd ==
    ASSUME NEW k \in Levels, NEW a \in Nat, NEW b \in Nat, End(k, a) = End(k, b)
    PROVE  Index(k, b) = Index(k, a)
<1>1. a <= End(k, a) /\ b <= End(k, b)
  BY SpanOf, OfSpan
<1>2. CASE a <= b
  BY <1>1, <1>2, SameEntry
<1>3. CASE b <= a
  BY <1>1, <1>3, SameEntry
<1> QED
  BY <1>2, <1>3

LEMMA EndsInOrder ==
    ASSUME NEW k \in Levels, NEW a \in Nat, NEW b \in Nat, a <= b
    PROVE  End(k, a) <= End(k, b) /\ End(k, a) \in Nat /\ End(k, b) \in Nat
<1>1. /\ a <= End(k, a) /\ b <= End(k, b)
      /\ End(k, a) \in Nat /\ End(k, b) \in Nat
  BY SpanOf, OfSpan
<1>2. CASE b <= End(k, a)
  BY <1>1, <1>2, SameEntry
<1>3. CASE End(k, a) < b
  BY <1>1, <1>3
<1> QED
  BY <1>1, <1>2, <1>3

\* Entries lie within one entry of the level above.
LEMMA EndAbove ==
    ASSUME NEW k \in 1 .. 3, NEW a \in Nat
    PROVE  End(k, a) <= End(k + 1, a) /\ End(k + 1, End(k, a)) = End(k + 1, a)
<1>1. k \in Levels /\ k + 1 \in Levels
  BY DEF Levels
<1> DEFINE s == Span[k]
           z == Span[k + 1]
<1>2. s \in Nat /\ s > 0 /\ z \in Nat /\ z > 0 /\ ENTRIES \in Nat /\ z = ENTRIES * s
  BY <1>1, SpanFacts, SpanAssumption
<1>3. PICK i \in Nat : Spanned(k, i, a)
  BY <1>1, SpanOf
<1>4. PICK j \in Nat : Spanned(k + 1, j, a)
  BY <1>1, SpanOf
<1>5. End(k, a) = (i * s) + s - 1 /\ End(k + 1, a) = (j * z) + z - 1
      /\ End(k, a) \in Nat /\ a <= End(k, a)
  BY <1>1, <1>3, <1>4, OfSpan
<1>6. i * s <= a /\ a <= (j * z) + z - 1
  BY <1>3, <1>4 DEF Spanned
<1> HIDE DEF s, z
<1>7. (j * z) + z = ((j + 1) * ENTRIES) * s
  BY <1>2
<1>8. i * s < ((j + 1) * ENTRIES) * s
  <2>1. i * s \in Nat /\ j * z \in Nat
    BY <1>2
  <2> QED
    BY <1>2, <1>6, <1>7, <2>1
<1>9. (i * s) + s <= ((j + 1) * ENTRIES) * s
  <2>1. (j + 1) * ENTRIES \in Int
    BY <1>2
  <2> QED
    BY <1>2, <1>8, <2>1, NextMultiple
<1>10. End(k, a) <= End(k + 1, a)
  <2>1. i * s \in Nat /\ j * z \in Nat
    BY <1>2
  <2> QED
    BY <1>2, <1>5, <1>7, <1>9, <2>1
<1> QED
  BY <1>1, <1>5, <1>10, SameEntry

LEMMA EndBelowTop ==
    ASSUME NEW k \in Levels, NEW a \in Nat
    PROVE  /\ End(k, a) <= End(4, a) /\ End(4, End(k, a)) = End(4, a)
           /\ a <= End(k, a) /\ End(k, a) \in Nat /\ End(4, a) \in Nat
<1>1. /\ End(1, a) <= End(2, a) /\ End(2, a) <= End(3, a) /\ End(3, a) <= End(4, a)
  BY EndAbove
<1>2. \A j \in Levels : End(j, a) \in Nat /\ a <= End(j, a)
  BY SpanOf, OfSpan
<1>3. End(k, a) <= End(4, a)
  BY <1>1, <1>2 DEF Levels
<1>4. 4 \in Levels
  BY DEF Levels
<1> QED
  BY <1>2, <1>3, <1>4, SameEntry

\* Every span is a number of pages.
LEMMA SpanInPages ==
    ASSUME NEW k \in Levels
    PROVE  \E c \in Nat : Span[k] = c * PAGE_SIZE
<1> DEFINE s == Span[1]
<1>1. s \in Nat /\ ENTRIES \in Nat /\ PAGE_SIZE = s
  BY SpanFacts DEF Levels, PAGE_SIZE
<1>2. Span[2] = ENTRIES * s /\ Span[3] = ENTRIES * Span[2] /\ Span[4] = ENTRIES * Span[3]
  <2>1. \A j \in 1 .. 3 : Span[j + 1] = ENTRIES * Span[j]
    BY SpanAssumption
  <2>2. Span[1 + 1] = ENTRIES * Span[1] /\ Span[2 + 1] = ENTRIES * Span[2]
        /\ Span[3 + 1] = ENTRIES * Span[3]
    BY <2>1
  <2> QED
    BY <2>2
<1>3. Span[1] = 1 * s
  BY <1>1
<1> HIDE DEF s
<1>4. Span[3] = (ENTRIES * ENTRIES) * s /\ ENTRIES * ENTRIES \in Nat
  BY <1>1, <1>2
<1>5. Span[4] = (ENTRIES * (ENTRIES * ENTRIES)) * s /\ ENTRIES * (ENTRIES * ENTRIES) \in Nat
  BY <1>1, <1>2, <1>4
<1>6. CASE k = 1
  BY <1>1, <1>3, <1>6
<1>7. CASE k = 2
  BY <1>1, <1>2, <1>7
<1>8. CASE k = 3
  BY <1>1, <1>4, <1>8
<1>9. CASE k = 4
  BY <1>1, <1>5, <1>9
<1> QED
  BY <1>6, <1>7, <1>8, <1>9 DEF Levels

LEMMA PageSizeFacts ==
    PAGE_SIZE \in Nat /\ PAGE_SIZE >= 2 /\ PAGE_SIZE > 0 /\ WORD \in Nat /\ WORD > 0
BY SpanFacts, SpanAssumption DEF PAGE_SIZE, Levels

LEMMA MultipleOfPage ==
    ASSUME NEW c \in Nat
    PROVE  (c * PAGE_SIZE) % PAGE_SIZE = 0
<1>1. c * PAGE_SIZE \in Nat /\ (c * PAGE_SIZE) + 0 = c * PAGE_SIZE
  BY PageSizeFacts
<1>2. ((c * PAGE_SIZE) + 0) % PAGE_SIZE = 0
  BY PageSizeFacts, ModOfMultiple
<1> QED
  BY <1>1, <1>2

LEMMA PageMultiple ==
    ASSUME NEW a \in Nat, a % PAGE_SIZE = 0
    PROVE  \E c \in Nat : a = c * PAGE_SIZE
<1>1. PICK c \in Nat : a = (c * PAGE_SIZE) + (a % PAGE_SIZE)
  BY PageSizeFacts, DivMod
<1> QED
  BY <1>1, PageSizeFacts

\* A page begins after an entry.
LEMMA EndOfPage ==
    ASSUME NEW k \in Levels, NEW a \in Nat
    PROVE  (End(k, a) + 1) % PAGE_SIZE = 0
<1>1. PICK i \in Nat : Spanned(k, i, a)
  BY SpanOf
<1>2. PICK c \in Nat : Span[k] = c * PAGE_SIZE
  BY SpanInPages
<1>3. End(k, a) + 1 = ((i + 1) * c) * PAGE_SIZE /\ (i + 1) * c \in Nat
  <2>1. End(k, a) = (i * Span[k]) + Span[k] - 1 /\ Span[k] \in Nat
    BY <1>1, OfSpan, SpanFacts
  <2>2. (i * Span[k]) + Span[k] = ((i + 1) * c) * PAGE_SIZE
    BY <1>2, PageSizeFacts
  <2>3. (i * Span[k]) \in Nat /\ (i + 1) * c \in Nat
    BY <2>1
  <2> QED
    BY <2>1, <2>2, <2>3
<1> QED
  BY <1>3, MultipleOfPage

\* A page that begins no later than an entry ends begins before it ends.
LEMMA PageBefore ==
    ASSUME NEW a \in Nat, NEW b \in Nat, a % PAGE_SIZE = 0, (b + 1) % PAGE_SIZE = 0,
           a <= b
    PROVE  a < b
<1>1. PICK c \in Nat : a = c * PAGE_SIZE
  BY PageMultiple
<1>2. PICK d \in Nat : b + 1 = d * PAGE_SIZE
  BY PageMultiple
<1>3. c * PAGE_SIZE < d * PAGE_SIZE
  BY <1>1, <1>2
<1>4. c * PAGE_SIZE + PAGE_SIZE <= d * PAGE_SIZE
  BY <1>3, PageSizeFacts, NextMultiple
<1> QED
  BY <1>1, <1>2, <1>4, PageSizeFacts

-----------------------------------------------------------------------------
(* The way to an address *)

\* The entries the processor reads on its way to address a, from the root's on,
\* when memory holds the tables E.
Beneath(E, k, e, a) ==
    IF Present(e) /\ ~ Huge(e) /\ e.page \in Pages THEN E[e.page][Index(k, a)] ELSE HOLE

Way4(E, a) == E[kernel_pml4][Index(4, a)]
Way3(E, a) == Beneath(E, 3, Way4(E, a), a)
Way2(E, a) == Beneath(E, 2, Way3(E, a), a)
Way1(E, a) == Beneath(E, 1, Way2(E, a), a)

WayOf(E, k, a) ==
    IF k = 4 THEN Way4(E, a) ELSE IF k = 3 THEN Way3(E, a)
    ELSE IF k = 2 THEN Way2(E, a) ELSE Way1(E, a)

\* What maps the address: the last entry, unless the one before is a huge page.
Mapping(E, a) ==
    IF Present(Way2(E, a)) /\ Huge(Way2(E, a)) THEN Way2(E, a) ELSE Way1(E, a)

LEMMA MappingIsLeaf ==
    ASSUME NEW a
    PROVE  /\ Leaf(a) = Mapping(entries, a) /\ Pde(a) = WayOf(entries, 2, a)
           /\ Leaf(a)' = Mapping(entries', a) /\ Pde(a)' = WayOf(entries', 2, a)
<1>1. Pde(a) = Way2(entries, a)
  BY DEF Directory, Pde, Below, Beneath, Way2, Way3, Way4
<1>2. Pde(a)' = Way2(entries', a)
  BY DEF Directory, Pde, Below, Beneath, Way2, Way3, Way4, Present, Huge, HOLE, Index
<1>3. Leaf(a) = Mapping(entries, a)
  BY <1>1 DEF Leaf, Below, Beneath, Mapping, Way1
<1>4. Leaf(a)' = Mapping(entries', a)
  BY <1>2 DEF Leaf, Below, Beneath, Mapping, Way1, Present, Huge, HOLE, Index
<1> QED
  BY <1>1, <1>2, <1>3, <1>4 DEF WayOf

\* An entry leads to table t or, when it has been cleared, nowhere.
Leads(e, t) == Present(e) => ~ Huge(e) /\ e.page = t

\* What is beneath entry e lies in the table it leads to.
LEMMA BeneathLeads ==
    ASSUME NEW E, NEW k \in 1 .. 3, NEW e, NEW a, NEW t, Leads(e, t),
           Present(Beneath(E, k, e, a))
    PROVE  /\ Present(e) /\ t \in Pages
           /\ Beneath(E, k, e, a) = E[t][Index(k, a)]
BY DEF Beneath, Leads, Present, HOLE

LEMMA WayBeneath ==
    ASSUME NEW E, NEW k \in 1 .. 3, NEW a
    PROVE  WayOf(E, k, a) = Beneath(E, k, WayOf(E, k + 1, a), a)
<1>1. k = 1 \/ k = 2 \/ k = 3
  OBVIOUS
<1> QED
  BY <1>1 DEF WayOf, Way1, Way2, Way3

LEMMA BeneathHole ==
    ASSUME NEW E, NEW k, NEW e, NEW a, ~ Present(e) \/ Huge(e)
    PROVE  ~ Present(Beneath(E, k, e, a))
BY DEF Beneath, Present, HOLE

\* Where the way ends above the page table, nothing is mapped.
LEMMA WayEnds ==
    ASSUME NEW E, NEW k \in Levels, NEW a,
           ~ Present(WayOf(E, k, a)) \/ (k > 2 /\ Huge(WayOf(E, k, a)))
    PROVE  /\ k > 1 => ~ Present(Mapping(E, a))
           /\ k > 2 => ~ Present(WayOf(E, 2, a))
<1>1. k = 4 => ~ Present(WayOf(E, 3, a))
  <2>1. WayOf(E, 3, a) = Beneath(E, 3, WayOf(E, 4, a), a)
    BY WayBeneath
  <2> QED
    BY <2>1, BeneathHole
<1>2. k >= 3 => ~ Present(WayOf(E, 2, a))
  <2> SUFFICES ASSUME k >= 3 PROVE ~ Present(WayOf(E, 2, a))
    OBVIOUS
  <2>1. ~ Present(WayOf(E, 3, a)) \/ Huge(WayOf(E, 3, a))
    BY <1>1 DEF Levels
  <2>2. WayOf(E, 2, a) = Beneath(E, 2, WayOf(E, 3, a), a)
    BY WayBeneath
  <2> QED
    BY <2>1, <2>2, BeneathHole
<1>3. k >= 2 => ~ Present(WayOf(E, 2, a))
  BY <1>2 DEF Levels
<1>4. k >= 2 => ~ Present(WayOf(E, 1, a))
  <2>1. WayOf(E, 1, a) = Beneath(E, 1, WayOf(E, 2, a), a)
    BY WayBeneath
  <2> QED
    BY <1>3, <2>1, BeneathHole
<1> QED
  BY <1>2, <1>3, <1>4 DEF Mapping, WayOf, Levels

\* F is E with some entries cleared.
Cleared(E, F) ==
    \A p \in Pages, i \in Slots : F[p][i] = E[p][i] \/ F[p][i] = HOLE

\* What is still on the way was there before.
LEMMA BeneathKept ==
    ASSUME NEW E, NEW F, Cleared(E, F), NEW k \in Levels, NEW a \in Addrs,
           NEW e, NEW f, Present(f) => f = e, Present(Beneath(F, k, f, a))
    PROVE  Beneath(F, k, f, a) = Beneath(E, k, e, a)
<1>1. Index(k, a) \in Slots
  BY IndexInTable DEF Addrs
<1> QED
  BY <1>1 DEF Cleared, Beneath, Present, HOLE

LEMMA WayKept ==
    ASSUME NEW E, NEW F, Cleared(E, F), NEW k \in Levels, NEW a \in Addrs,
           Present(WayOf(F, k, a))
    PROVE  WayOf(F, k, a) = WayOf(E, k, a)
<1>1. Present(Way4(F, a)) => Way4(F, a) = Way4(E, a)
  <2>1. Index(4, a) \in Slots /\ kernel_pml4 \in Pages
    BY IndexInTable, PageTableAssumption DEF Levels, Addrs
  <2> QED
    BY <2>1 DEF Cleared, Way4, Present, HOLE
<1>2. Present(Way3(F, a)) => Way3(F, a) = Way3(E, a)
  BY <1>1, BeneathKept DEF Way3, Levels
<1>3. Present(Way2(F, a)) => Way2(F, a) = Way2(E, a)
  BY <1>2, BeneathKept DEF Way2, Levels
<1>4. Present(Way1(F, a)) => Way1(F, a) = Way1(E, a)
  BY <1>3, BeneathKept DEF Way1, Levels
<1> QED
  BY <1>1, <1>2, <1>3, <1>4 DEF WayOf, Levels

\* So is what is still mapped.
LEMMA MappingKept ==
    ASSUME NEW E, NEW F, Cleared(E, F), NEW a \in Addrs, Present(Mapping(F, a))
    PROVE  Present(Mapping(E, a))
<1>1. 1 \in Levels /\ 2 \in Levels
  BY DEF Levels
<1>2. Present(Way2(F, a)) => Way2(F, a) = Way2(E, a)
  BY <1>1, WayKept DEF WayOf
<1>3. Present(Way1(F, a)) => Way1(F, a) = Way1(E, a)
  BY <1>1, WayKept DEF WayOf
<1> QED
  BY <1>2, <1>3 DEF Mapping

-----------------------------------------------------------------------------
(* The loops of a walk *)

\* A loop over the table all addresses it is for lead to; it is at a page and
\* ends before one.
OnWay(E, m) ==
    m.level < 4 =>
        \A a \in Addrs :
            End(m.level + 1, a) = m.end => Leads(WayOf(E, m.level + 1, a), m.table)

Sound(E, m) ==
    /\ m.next % PAGE_SIZE = 0 /\ (m.end + 1) % PAGE_SIZE = 0
    /\ OnWay(E, m)

\* Loop m is in the body of loop n.
Inside(m, n) ==
    /\ n.next < n.end
    /\ m.end = End(n.level, n.next)
    /\ n.next <= m.next /\ m.next <= m.end + 1

Shape(E, l) ==
    /\ Stacked(l) /\ Len(l) \in 1 .. 4
    /\ \A i \in 1 .. Len(l) : Sound(E, l[i])
    /\ \A i \in 1 .. Len(l) - 1 : Inside(l[i], l[i + 1])
    /\ l[Len(l)].table = kernel_pml4

LEMMA ShapeKept ==
    ASSUME NEW E, NEW F, Cleared(E, F), NEW l, Shape(E, l)
    PROVE  Shape(F, l)
<1>1. ASSUME NEW i \in 1 .. Len(l)
      PROVE  OnWay(F, l[i])
  <2> DEFINE m == l[i]
  <2>1. OnWay(E, m) /\ m.level \in Levels
    <3>1. OnWay(E, m) /\ l \in Seq(LoopType) /\ i \in DOMAIN l
      BY DEF Shape, Sound, Stacked
    <3>2. m \in LoopType
      BY <3>1
    <3> QED
      BY <3>1, <3>2 DEF LoopType
  <2> HIDE DEF m
  <2> SUFFICES ASSUME m.level < 4, NEW a \in Addrs, End(m.level + 1, a) = m.end
               PROVE  Leads(WayOf(F, m.level + 1, a), m.table)
    BY DEF OnWay, m
  <2>2. Leads(WayOf(E, m.level + 1, a), m.table)
    BY <2>1 DEF OnWay
  <2>3. m.level + 1 \in Levels
    BY <2>1 DEF Levels
  <2> QED
    BY <2>2, <2>3, WayKept DEF Leads
<1> QED
  BY <1>1 DEF Shape, Sound

\* What the shape says of the innermost loop.
LEMMA ShapeTop ==
    ASSUME NEW E, NEW l, Shape(E, l)
    PROVE  /\ l[1] \in LoopType /\ l[1].level \in Levels /\ l[1].level = 5 - Len(l)
           /\ l[1].next \in Nat /\ l[1].end \in Nat /\ l[1].next \in Addrs
           /\ Sound(E, l[1]) /\ Len(l) \in Nat /\ l # <<>>
           /\ l[1].level = 4 => l[1].table = kernel_pml4
<1>1. l \in Seq(LoopType) /\ Len(l) \in 1 .. 4 /\ l[1] \in LoopType
      /\ l[1].level = 5 - Len(l) /\ Sound(E, l[1]) /\ l # <<>>
  BY DEF Shape, Stacked
<1>2. l[1].level \in Levels /\ l[1].next \in Addrs /\ l[1].end \in Addrs
  BY <1>1 DEF LoopType
<1>3. l[1].level = 4 => Len(l) = 1
  <2>1. PICK n \in 1 .. 4 : n = Len(l)
    BY <1>1
  <2> QED
    BY <1>1, <2>1
<1> QED
  BY <1>1, <1>2, <1>3 DEF Shape, Addrs

\* The entry at hand is the one on the way to every address it stands for.
LEMMA AtEntry ==
    ASSUME NEW E, NEW l, Shape(E, l), l[1].next < l[1].end, NEW a \in Addrs,
           End(l[1].level, a) = End(l[1].level, l[1].next)
    PROVE  LET k == l[1].level
           IN  /\ Index(k, a) = Index(k, l[1].next)
               /\ k < 4 => /\ End(k + 1, a) = l[1].end
                           /\ Leads(WayOf(E, k + 1, a), l[1].table)
               /\ Present(WayOf(E, k, a)) => WayOf(E, k, a) = E[l[1].table][Index(k, l[1].next)]
<1> DEFINE m == l[1]
           k == m.level
<1>1. /\ k \in Levels /\ m.next \in Nat /\ m.end \in Nat /\ Sound(E, m)
      /\ k = 4 => m.table = kernel_pml4
      /\ m.next < m.end /\ End(k, a) = End(k, m.next)
  BY ShapeTop
<1>0. PICK n \in 1 .. 4 : n = Len(l) /\ k = 5 - n
  BY ShapeTop DEF Shape
<1>a. a \in Nat
  BY DEF Addrs
<1>2. k < 4 => Inside(m, l[2]) /\ l[2].level = k + 1 /\ l[2].next \in Nat
  <2> SUFFICES ASSUME k < 4 PROVE Inside(m, l[2]) /\ l[2].level = k + 1 /\ l[2].next \in Nat
    OBVIOUS
  <2>1. Len(l) \in 2 .. 4
    BY <1>0
  <2>2. l[2] \in LoopType /\ l[2].level = 4 - Len(l) + 2
    BY <2>1 DEF Shape, Stacked
  <2>3. Inside(l[1], l[1 + 1])
    BY <2>1 DEF Shape
  <2>4. l[2].level = k + 1
    BY <1>0, <2>2
  <2> QED
    BY <2>2, <2>3, <2>4 DEF LoopType, Addrs
<1> HIDE DEF m
<1> HIDE DEF k
<1>3. Index(k, a) = Index(k, m.next)
  BY <1>1, <1>a, SameEnd
<1>4. k < 4 => End(k + 1, a) = m.end /\ Leads(WayOf(E, k + 1, a), m.table)
  <2> SUFFICES ASSUME k < 4
               PROVE  End(k + 1, a) = m.end /\ Leads(WayOf(E, k + 1, a), m.table)
    OBVIOUS
  <2>1. k \in 1 .. 3 /\ k + 1 \in Levels
    BY <1>1 DEF Levels
  <2>2. /\ m.end = End(k + 1, l[2].next) /\ l[2].next <= m.next
    BY <1>2 DEF Inside
  <2>3. End(k + 1, m.next) = m.end
    BY <1>1, <1>a, <1>2, <2>1, <2>2, SameEntry
  <2>4. End(k + 1, a) = End(k + 1, m.next)
    BY <1>1, <1>a, <2>1, EndAbove
  <2>5. End(k + 1, a) = m.end
    BY <2>3, <2>4
  <2> QED
    BY <1>1, <1>a, <2>5 DEF Sound, OnWay, k
<1>5. Present(WayOf(E, k, a)) => WayOf(E, k, a) = E[m.table][Index(k, m.next)]
  <2>1. CASE k = 4
    BY <1>1, <1>a, <1>3, <2>1 DEF WayOf, Way4
  <2>2. CASE k < 4
    <3>1. k \in 1 .. 3
      BY <1>1, <1>a, <2>2 DEF Levels
    <3>2. WayOf(E, k, a) = Beneath(E, k, WayOf(E, k + 1, a), a)
      BY <3>1, WayBeneath
    <3> QED
      BY <1>3, <1>4, <2>2, <3>1, <3>2, BeneathLeads
  <2> QED
    BY <1>1, <1>a, <2>1, <2>2 DEF Levels
<1> QED
  BY <1>3, <1>4, <1>5 DEF m, k

\* An iteration that does not descend passes nothing that is mapped but the page
\* or the huge page it has at hand.
LEMMA MappedHere ==
    ASSUME NEW E, NEW l, Shape(E, l), l[1].next < l[1].end, NEW a \in Addrs,
           End(l[1].level, a) = End(l[1].level, l[1].next), Present(Mapping(E, a))
    PROVE  LET e == E[l[1].table][Index(l[1].level, l[1].next)]
           IN  ~ (l[1].level > 1 /\ Present(e) /\ ~ Huge(e)) =>
               /\ Mapping(E, a) = e /\ Present(e) /\ Present(WayOf(E, 2, a))
               /\ l[1].level = 1 \/ (l[1].level = 2 /\ Huge(e))
<1> DEFINE k == l[1].level
           e == E[l[1].table][Index(l[1].level, l[1].next)]
<1> SUFFICES ASSUME ~ (k > 1 /\ Present(e) /\ ~ Huge(e))
             PROVE  /\ Mapping(E, a) = e /\ Present(e) /\ Present(WayOf(E, 2, a))
                    /\ k = 1 \/ (k = 2 /\ Huge(e))
  OBVIOUS
<1>1. k \in Levels
  BY ShapeTop
<1>2. /\ k < 4 => Leads(WayOf(E, k + 1, a), l[1].table)
      /\ Present(WayOf(E, k, a)) => WayOf(E, k, a) = e
  BY AtEntry
<1> HIDE DEF e, k
<1>3. k <= 2
  <2> SUFFICES ASSUME k > 2 PROVE FALSE
    BY <1>1 DEF Levels
  <2>1. ~ Present(WayOf(E, k, a)) \/ (k > 2 /\ Huge(WayOf(E, k, a)))
    BY <1>1, <1>2 DEF Levels
  <2>2. ~ Present(Mapping(E, a))
    BY <1>1, <2>1, WayEnds DEF Levels
  <2> QED
    BY <2>2
<1>4. CASE k = 2
  <2>1. Present(WayOf(E, 2, a))
    BY <1>1, <1>4, WayEnds
  <2>2. WayOf(E, 2, a) = e /\ Huge(e)
    BY <1>2, <1>4, <2>1
  <2> QED
    BY <1>4, <2>1, <2>2 DEF Mapping, WayOf
<1>5. CASE k = 1
  <2>1. Leads(WayOf(E, 2, a), l[1].table)
    BY <1>2, <1>5
  <2>2. Mapping(E, a) = WayOf(E, 1, a)
    BY <2>1 DEF Mapping, WayOf, Leads
  <2>3. WayOf(E, 1, a) = e
    BY <1>2, <1>5, <2>2
  <2>4. WayOf(E, 1, a) = Beneath(E, 1, WayOf(E, 2, a), a)
    BY WayBeneath
  <2>5. Present(WayOf(E, 2, a))
    BY <2>2, <2>4, BeneathHole
  <2> QED
    BY <1>5, <2>2, <2>3, <2>5
<1> QED
  BY <1>1, <1>3, <1>4, <1>5 DEF Levels

\* The next entry ends where the loop does, at the latest.
LEMMA EndsInside ==
    ASSUME NEW E, NEW l, Shape(E, l), l[1].next < l[1].end
    PROVE  /\ l[1].level < 4 => End(l[1].level, l[1].next) <= l[1].end
           /\ l[1].next < End(l[1].level, l[1].next)
           /\ End(l[1].level, l[1].next) \in Nat
           /\ (End(l[1].level, l[1].next) + 1) % PAGE_SIZE = 0
<1> DEFINE m == l[1]
           k == m.level
<1>1. /\ k \in Levels /\ m.next \in Nat /\ m.end \in Nat /\ m.next \in Addrs
      /\ m.next % PAGE_SIZE = 0
  BY ShapeTop DEF Sound
<1>2. k < 4 => End(k + 1, m.next) = m.end
  BY <1>1, AtEntry
<1> HIDE DEF k
<1> HIDE DEF m
<1>3. k < 4 => End(k, m.next) <= m.end
  <2>1. k < 4 => k \in 1 .. 3
    BY <1>1 DEF Levels
  <2> QED
    BY <1>1, <1>2, <2>1, EndAbove
<1>4. m.next <= End(k, m.next) /\ End(k, m.next) \in Nat
      /\ (End(k, m.next) + 1) % PAGE_SIZE = 0
  BY <1>1, EndBelowTop, EndOfPage
<1>5. m.next < End(k, m.next)
  BY <1>1, <1>4, PageBefore
<1> QED
  BY <1>3, <1>4, <1>5 DEF k, m

\* The loops n are those of l, one entry further.
NextEntry(E, l, n) ==
    /\ Shape(E, n) /\ Len(n) = Len(l)
    /\ n[1] = [l[1] EXCEPT !.next = End(l[1].level, l[1].next) + 1]
    /\ \A i \in 2 .. Len(l) : n[i] = l[i]

\* On to the next entry, unless the last address is passed.
LEMMA Advanced ==
    ASSUME NEW E, NEW l, Shape(E, l), l[1].next < l[1].end,
           End(l[1].level, l[1].next) < WORD - 1
    PROVE  NextEntry(E, l, StepLoop(l))
<1> DEFINE n == StepLoop(l)
           m == l[1]
           x == End(m.level, m.next)
<1>1. /\ m \in LoopType /\ m.next \in Nat /\ Sound(E, m) /\ Stacked(l) /\ l # <<>>
      /\ Len(l) \in 1 .. 4
  BY ShapeTop DEF Shape
<1>2. /\ m.level < 4 => x <= m.end
      /\ m.next < x /\ x \in Nat /\ x < WORD - 1 /\ (x + 1) % PAGE_SIZE = 0
  BY EndsInside
<1>3. (x + 1) % WORD = x + 1
  BY <1>2, PageSizeFacts
<1>4. /\ Stacked(n) /\ Len(n) = Len(l)
      /\ n[1] = [m EXCEPT !.next = x + 1]
      /\ \A i \in 2 .. Len(l) : n[i] = l[i]
  BY <1>1, <1>3, Stepped
<1> HIDE DEF n, m, x
<1>5. n[1].level = m.level /\ n[1].table = m.table /\ n[1].end = m.end /\ n[1].next = x + 1
  BY <1>1, <1>4 DEF LoopType
<1>6. Sound(E, n[1])
  <2>1. OnWay(E, n[1])
    BY <1>1, <1>5 DEF Sound, OnWay
  <2> QED
    BY <1>1, <1>2, <1>5, <2>1 DEF Sound
<1>7. \A i \in 1 .. Len(n) : Sound(E, n[i])
  BY <1>1, <1>4, <1>6 DEF Shape
<1>8. ASSUME NEW i \in 1 .. Len(n) - 1
      PROVE  Inside(n[i], n[i + 1])
  <2>1. PICK c \in 1 .. 4 : c = Len(l)
    BY <1>1
  <2>2. i \in 1 .. c - 1 /\ n[i + 1] = l[i + 1] /\ Inside(l[i], l[i + 1])
    BY <1>4, <2>1 DEF Shape
  <2>3. CASE i = 1
    <3>1. m.level < 4
      <4>1. m.level = 5 - c
        BY <2>1, ShapeTop DEF m
      <4> QED
        BY <2>2, <2>3, <4>1
    <3>2. x + 1 <= m.end + 1 /\ l[2].next <= x + 1
      <4>1. l[2].next <= m.next /\ m.end \in Nat
        BY <2>2, <2>3, ShapeTop DEF Inside, m
      <4>2. l[2] \in LoopType
        BY <2>1, <2>2, <2>3 DEF Shape, Stacked
      <4>3. l[2].next \in Nat
        BY <4>2 DEF LoopType, Addrs
      <4> QED
        BY <1>1, <1>2, <3>1, <4>1, <4>3
    <3> QED
      BY <1>5, <2>2, <2>3, <3>2 DEF Inside, m
  <2>4. CASE i # 1
    BY <1>4, <2>1, <2>2, <2>4
  <2> QED
    BY <2>3, <2>4
<1>9. n[Len(n)].table = kernel_pml4
  <2>1. PICK c \in 1 .. 4 : c = Len(l)
    BY <1>1
  <2>2. l[c].table = kernel_pml4
    BY <2>1 DEF Shape
  <2>3. CASE c = 1
    BY <1>4, <1>5, <2>1, <2>2, <2>3 DEF m
  <2>4. CASE c # 1
    BY <1>4, <2>1, <2>2, <2>4
  <2> QED
    BY <2>3, <2>4
<1>10. Shape(E, n)
  BY <1>1, <1>4, <1>7, <1>8, <1>9 DEF Shape
<1>11. /\ Shape(E, n) /\ Len(n) = Len(l)
       /\ n[1] = [l[1] EXCEPT !.next = End(l[1].level, l[1].next) + 1]
       /\ \A i \in 2 .. Len(l) : n[i] = l[i]
  BY <1>4, <1>10 DEF m, x
<1>12. NextEntry(E, l, n)
  BY <1>11, Zenon DEF NextEntry
<1> QED
  BY <1>12, Zenon DEF n

\* Into the table the entry at hand leads to.
LEMMA Entered ==
    ASSUME NEW E, NEW l, Shape(E, l), l[1].next < l[1].end, l[1].level > 1,
           NEW e, e = E[l[1].table][Index(l[1].level, l[1].next)],
           Present(e), ~ Huge(e), e.page \in Pages
    PROVE  LET m == Loop(l[1].level - 1, e.page, l[1].next, End(l[1].level, l[1].next))
               n == <<m>> \o l
           IN  /\ Shape(E, n) /\ Len(n) = Len(l) + 1 /\ n[1] = m
               /\ \A i \in 1 .. Len(l) : n[i + 1] = l[i]
<1> DEFINE k == l[1].level
           x == End(k, l[1].next)
           m == Loop(k - 1, e.page, l[1].next, x)
           n == <<m>> \o l
<1>1. /\ l[1].next \in Nat /\ l[1].next \in Addrs /\ Sound(E, l[1]) /\ Stacked(l) /\ l # <<>>
      /\ k \in Levels /\ k > 1 /\ k - 1 \in Levels
  BY ShapeTop DEF Shape, Levels
<1>2. l[1].next < x /\ x \in Nat /\ (x + 1) % PAGE_SIZE = 0 /\ x \in Addrs
  BY <1>1, EndsInside, EndIsAddress
<1>3. /\ m \in LoopType /\ m.level = k - 1 /\ m.table = e.page /\ m.next = l[1].next
      /\ m.end = x
  BY <1>1, <1>2 DEF Loop, LoopType
<1>0. PICK c \in 1 .. 4 : c = Len(l) /\ k = 5 - c
  BY ShapeTop DEF Shape
<1>4. \A a \in Addrs : End(k, a) = x => Leads(WayOf(E, k, a), e.page)
  BY AtEntry DEF Leads
<1> HIDE DEF m, x
<1>5. /\ Stacked(n) /\ Len(n) = Len(l) + 1 /\ n[1] = m
      /\ \A i \in 1 .. Len(l) : n[i + 1] = l[i]
  BY <1>1, <1>3, Pushed
<1> HIDE DEF n, k
<1>6. Sound(E, m)
  <2>1. OnWay(E, m)
    <3>1. m.level + 1 = k
      BY <1>1, <1>3 DEF Levels
    <3> QED
      BY <1>3, <1>4, <3>1 DEF OnWay
  <2> QED
    BY <1>1, <1>2, <1>3, <2>1 DEF Sound
<1>7. ASSUME NEW i \in 1 .. Len(n)
      PROVE  Sound(E, n[i])
  <2>1. CASE i = 1
    BY <1>5, <1>6, <2>1
  <2>2. CASE i # 1
    <3>1. i - 1 \in 1 .. Len(l) /\ (i - 1) + 1 = i
      BY <1>0, <1>5, <2>2
    <3>2. n[i] = l[i - 1] /\ Sound(E, l[i - 1])
      BY <1>5, <3>1 DEF Shape
    <3> QED
      BY <3>2
  <2> QED
    BY <2>1, <2>2
<1>8. ASSUME NEW i \in 1 .. Len(n) - 1
      PROVE  Inside(n[i], n[i + 1])
  <2>0. i \in 1 .. c /\ n[i + 1] = l[i]
    BY <1>0, <1>5
  <2>1. CASE i = 1
    BY <1>1, <1>2, <1>3, <1>5, <2>0, <2>1 DEF Inside, x, k
  <2>2. CASE i # 1
    <3>1. i - 1 \in 1 .. Len(l) - 1 /\ (i - 1) + 1 = i /\ i - 1 \in 1 .. Len(l)
      BY <1>0, <2>0, <2>2
    <3>2. n[i] = l[i - 1] /\ Inside(l[i - 1], l[i])
      BY <1>5, <3>1 DEF Shape
    <3> QED
      BY <2>0, <3>2
  <2> QED
    BY <2>1, <2>2
<1>9. n[Len(n)].table = kernel_pml4
  BY <1>0, <1>5 DEF Shape
<1>10. Len(n) \in 1 .. 4
  BY <1>0, <1>1, <1>5
<1>11. Shape(E, n)
  BY <1>5, <1>7, <1>8, <1>9, <1>10 DEF Shape
<1> QED
  BY <1>5, <1>11 DEF n, m, x, k

\* Out of a loop, whose addresses are all passed.
LEMMA Dropped ==
    ASSUME NEW E, NEW l, Shape(E, l), Len(l) > 1, ~ (l[1].next < l[1].end),
           l[1].end < WORD - 1
    PROVE  LET n == StepLoop(Tail(l))
           IN  /\ Shape(E, n) /\ Len(n) = Len(l) - 1
               /\ n[1] = [l[2] EXCEPT !.next = l[1].next]
               /\ l[1].next = End(l[2].level, l[2].next) + 1
               /\ \A i \in 2 .. Len(n) : n[i] = l[i + 1]
<1> DEFINE t == Tail(l)
<1>0. PICK c \in 2 .. 4 : c = Len(l)
  BY DEF Shape
<1>1. /\ Stacked(t) /\ Len(t) = Len(l) - 1 /\ t # <<>>
      /\ \A i \in 1 .. Len(l) - 1 : t[i] = l[i + 1]
  BY Left DEF Shape
<1> HIDE DEF t
<1>2. t[1] = l[2] /\ Inside(l[1], l[2])
  <2>1. 1 \in 1 .. Len(l) - 1 /\ 1 + 1 = 2
    BY <1>0
  <2> QED
    BY <1>1, <2>1 DEF Shape
<1>3. Shape(E, t)
  <2>1. \A i \in 1 .. Len(t) : Sound(E, t[i])
    <3> TAKE i \in 1 .. Len(t)
    <3>1. t[i] = l[i + 1] /\ i + 1 \in 1 .. Len(l)
      BY <1>0, <1>1
    <3> QED
      BY <3>1 DEF Shape
  <2>2. \A i \in 1 .. Len(t) - 1 : Inside(t[i], t[i + 1])
    <3> TAKE i \in 1 .. Len(t) - 1
    <3>1. t[i] = l[i + 1] /\ t[i + 1] = l[i + 1 + 1] /\ i + 1 \in 1 .. Len(l) - 1
      BY <1>0, <1>1
    <3> QED
      BY <3>1 DEF Shape
  <2>3. Len(t) \in 1 .. 4 /\ t[Len(t)] = l[Len(l)]
    BY <1>0, <1>1
  <2> QED
    BY <1>1, <2>1, <2>2, <2>3 DEF Shape
<1>4. l[1].next = l[1].end + 1
  <2>1. /\ l[1].next \in Nat /\ l[1].end \in Nat
        /\ l[1].next % PAGE_SIZE = 0 /\ (l[1].end + 1) % PAGE_SIZE = 0
    BY ShapeTop DEF Sound
  <2>2. ~ (l[1].next <= l[1].end)
    BY <2>1, PageBefore
  <2>3. l[1].next <= l[1].end + 1
    BY <1>2 DEF Inside
  <2> QED
    BY <2>1, <2>2, <2>3
<1>5. t[1].next < t[1].end /\ End(t[1].level, t[1].next) = l[1].end
  BY <1>2 DEF Inside
<1>6. /\ Shape(E, StepLoop(t)) /\ Len(StepLoop(t)) = Len(t)
      /\ StepLoop(t)[1] = [t[1] EXCEPT !.next = l[1].end + 1]
      /\ \A i \in 2 .. Len(t) : StepLoop(t)[i] = t[i]
  <2>1. End(t[1].level, t[1].next) < WORD - 1
    BY <1>5
  <2>2. StepLoop(t)[1] = [t[1] EXCEPT !.next = End(t[1].level, t[1].next) + 1]
        /\ Shape(E, StepLoop(t)) /\ Len(StepLoop(t)) = Len(t)
        /\ \A i \in 2 .. Len(t) : StepLoop(t)[i] = t[i]
    BY <1>3, <1>5, <2>1, Advanced DEF NextEntry
  <2> QED
    BY <1>5, <2>2
<1>7. \A i \in 2 .. Len(StepLoop(t)) : StepLoop(t)[i] = l[i + 1]
  <2> TAKE i \in 2 .. Len(StepLoop(t))
  <2>1. i \in 2 .. Len(t) /\ i \in 1 .. Len(l) - 1
    BY <1>0, <1>1, <1>6
  <2> QED
    BY <1>1, <1>6, <2>1
<1> QED
  BY <1>1, <1>2, <1>4, <1>5, <1>6, <1>7 DEF t

-----------------------------------------------------------------------------
(* Steps of a walk *)

\* The innermost loop goes on to the next entry ...
Passes ==
    /\ Len(loops') = Len(loops)
    /\ loops'[1] = [loops[1] EXCEPT !.next = End(Top.level, Top.next) + 1]
    /\ \A i \in 2 .. Len(loops) : loops'[i] = loops[i]

\* ... or into the table the entry leads to ...
Enters ==
    /\ Len(loops') = Len(loops) + 1
    /\ \E t \in Pages :
           loops'[1] = Loop(Top.level - 1, t, Top.next, End(Top.level, Top.next))
    /\ \A i \in 1 .. Len(loops) : loops'[i + 1] = loops[i]

\* ... or it ends, and the one around it goes on.
Leaves ==
    /\ Len(loops') = Len(loops) - 1
    /\ loops'[1] = [loops[2] EXCEPT !.next = Top.next]
    /\ Top.next = End(loops[2].level, loops[2].next) + 1
    /\ \A i \in 2 .. Len(loops') : loops'[i] = loops[i + 1]

LEMMA TopOf ==
    ASSUME NEW E, Shape(E, loops)
    PROVE  /\ Top = loops[1] /\ loops # <<>>
           /\ Top \in LoopType /\ Top.level \in Levels /\ Top.level = 5 - Len(loops)
           /\ Top.next \in Nat /\ Top.end \in Nat /\ Top.next \in Addrs
BY ShapeTop DEF Top

\* An iteration, as long as it does not pass the last address.
LEMMA Iterated ==
    ASSUME TypeOK, InBody, Proceed, pc' = "walk", Shape(entries', loops),
           ~ Descends(entries'[Top.table][Slot]) => End(Top.level, Top.next) < WORD - 1
    PROVE  /\ Shape(entries', loops')
           /\ \/ ~ Descends(entries'[Top.table][Slot]) /\ Passes
              \/ Descends(entries'[Top.table][Slot]) /\ Enters
<1> DEFINE e == entries'[Top.table][Slot]
<1>1. Top = loops[1] /\ loops # <<>> /\ Top.next < Top.end /\ Slot = Index(Top.level, Top.next)
  BY TopOf DEF InBody, Slot
<1>2. CASE ~ Descends(e)
  <2>1. loops' = StepLoop(loops)
    BY <1>2 DEF Proceed
  <2>a. End(loops[1].level, loops[1].next) < WORD - 1 /\ loops[1].next < loops[1].end
    BY <1>1, <1>2
  <2>b. NextEntry(entries', loops, StepLoop(loops))
    BY <2>a, Advanced
  <2>2. /\ Shape(entries', StepLoop(loops)) /\ Len(StepLoop(loops)) = Len(loops)
        /\ StepLoop(loops)[1] = [loops[1] EXCEPT !.next = End(Top.level, Top.next) + 1]
        /\ \A i \in 2 .. Len(loops) : StepLoop(loops)[i] = loops[i]
    BY <1>1, <2>b DEF NextEntry
  <2> QED
    BY <1>2, <2>1, <2>2 DEF Passes
<1>3. CASE Descends(e)
  <2> DEFINE m == Loop(Top.level - 1, e.page, Top.next, End(Top.level, Top.next))
  <2>1. e.page \in Pages /\ loops' = <<m>> \o loops
    BY <1>3 DEF Proceed
  <2>2. Present(e) /\ ~ Huge(e) /\ Top.level > 1
    BY <1>3 DEF Descends
  <2>3. e = entries'[loops[1].table][Index(loops[1].level, loops[1].next)]
    BY <1>1
  <2> HIDE DEF e
  <2>4. /\ Shape(entries', <<m>> \o loops) /\ Len(<<m>> \o loops) = Len(loops) + 1
        /\ (<<m>> \o loops)[1] = m
        /\ \A i \in 1 .. Len(loops) : (<<m>> \o loops)[i + 1] = loops[i]
    BY <1>1, <2>1, <2>2, <2>3, Entered
  <2>5. Enters
    BY <2>1, <2>4 DEF Enters
  <2> QED
    BY <1>3, <2>1, <2>4, <2>5 DEF e
<1> QED
  BY <1>2, <1>3

\* The end of a loop, unless the last address is passed.
LEMMA LeftBehind ==
    ASSUME LeaveLoop, Shape(entries, loops), Top.end < WORD - 1
    PROVE  Shape(entries', loops') /\ Leaves
<1>1. Top = loops[1] /\ Len(loops) > 1 /\ ~ (loops[1].next < loops[1].end)
      /\ loops' = StepLoop(Tail(loops)) /\ entries' = entries
  BY TopOf DEF LeaveLoop, InBody, memory
<1>2. /\ Shape(entries, loops') /\ Len(loops') = Len(loops) - 1
      /\ loops'[1] = [loops[2] EXCEPT !.next = loops[1].next]
      /\ loops[1].next = End(loops[2].level, loops[2].next) + 1
      /\ \A i \in 2 .. Len(loops') : loops'[i] = loops[i + 1]
  BY <1>1, Dropped
<1> QED
  BY <1>1, <1>2 DEF Leaves

\* What walks of a range from a page on have in common: they do not go behind the
\* entry of the root the range ends in, and pass such an entry as a whole.
Bounded(l, base, end) ==
    /\ \A i \in 1 .. Len(l) : base <= l[i].next /\ End(4, l[i].end) <= End(4, end)
    /\ l[Len(l)].end = end
    /\ l[Len(l)].next = base \/ End(4, base) < l[Len(l)].next

LEMMA NoWrap ==
    ASSUME NEW E, NEW base, NEW end \in Nat, Shape(E, loops), Bounded(loops, base, end),
           End(4, end) < WORD - 1
    PROVE  /\ InBody => End(Top.level, Top.next) < WORD - 1
           /\ Top.end < WORD - 1
<1>1. /\ Top = loops[1] /\ Top.level \in Levels /\ Top.next \in Nat /\ Top.end \in Nat
      /\ 1 \in 1 .. Len(loops)
  BY TopOf DEF Shape
<1>3. 4 \in Levels /\ WORD \in Nat
  BY PageSizeFacts DEF Levels
<1>2. End(4, Top.end) < WORD - 1
  <2>1. End(4, Top.end) <= End(4, end)
    BY <1>1 DEF Bounded
  <2>2. End(4, Top.end) \in Nat /\ End(4, end) \in Nat
    BY <1>1, <1>3, EndBelowTop
  <2> QED
    BY <1>3, <2>1, <2>2
<1>4. Top.end <= End(4, Top.end) /\ End(4, Top.end) \in Nat
  BY <1>1, <1>3, EndBelowTop
<1>5. Top.next < Top.end => End(4, Top.next) <= End(4, Top.end)
  BY <1>1, <1>3, EndsInOrder
<1>6. End(Top.level, Top.next) <= End(4, Top.next)
      /\ End(Top.level, Top.next) \in Nat /\ End(4, Top.next) \in Nat
  BY <1>1, EndBelowTop
<1>7. Top.end < WORD - 1
  BY <1>1, <1>2, <1>3, <1>4
<1>8. InBody => End(Top.level, Top.next) < WORD - 1
  BY <1>2, <1>3, <1>4, <1>5, <1>6 DEF InBody
<1> QED
  BY <1>7, <1>8

\* An entry passed by the root's loop.
LEMMA RootPasses ==
    ASSUME NEW base \in Nat, NEW x \in Nat, base <= x
    PROVE  base <= End(4, x) + 1 /\ End(4, base) < End(4, x) + 1
<1>1. 4 \in Levels
  BY DEF Levels
<1>2. End(4, base) <= End(4, x) /\ End(4, base) \in Nat /\ End(4, x) \in Nat
  BY <1>1, EndsInOrder
<1>3. x <= End(4, x)
  BY <1>1, EndBelowTop
<1> QED
  BY <1>2, <1>3

LEMMA BoundedPasses ==
    ASSUME NEW E, NEW base \in Nat, NEW end, Shape(E, loops), InBody,
           Bounded(loops, base, end), Passes
    PROVE  Bounded(loops', base, end)
<1>0. PICK c \in 1 .. 4 : c = Len(loops) /\ Top.level = 5 - c
  BY TopOf DEF Shape
<1>1. Top = loops[1] /\ loops[1] \in LoopType /\ Top.next \in Nat /\ Top.level \in Levels
  BY TopOf
<1>2. /\ loops'[1].end = loops[1].end
      /\ loops'[1].next = End(Top.level, Top.next) + 1
  BY <1>1 DEF Passes, LoopType
<1>3. base <= loops'[1].next
  <2>1. base <= Top.next
    BY <1>0, <1>1 DEF Bounded
  <2>2. Top.next <= End(Top.level, Top.next) /\ End(Top.level, Top.next) \in Nat
    BY <1>1, EndBelowTop
  <2> QED
    BY <1>1, <1>2, <2>1, <2>2
<1>4. \A i \in 1 .. Len(loops') :
          base <= loops'[i].next /\ End(4, loops'[i].end) <= End(4, end)
  <2> TAKE i \in 1 .. Len(loops')
  <2>1. i \in 1 .. c
    BY <1>0 DEF Passes
  <2>2. CASE i = 1
    BY <1>0, <1>2, <1>3, <2>1, <2>2 DEF Bounded
  <2>3. CASE i # 1
    <3>1. i \in 2 .. Len(loops)
      BY <1>0, <2>1, <2>3
    <3> QED
      BY <1>0, <2>1, <3>1 DEF Passes, Bounded
  <2> QED
    BY <2>2, <2>3
<1>5. CASE c = 1
  <2>1. Top.level = 4 /\ base <= Top.next
    BY <1>0, <1>1, <1>5 DEF Bounded
  <2>2. base <= End(4, Top.next) + 1 /\ End(4, base) < End(4, Top.next) + 1
    BY <1>1, <2>1, RootPasses
  <2> QED
    BY <1>0, <1>2, <1>4, <1>5, <2>1, <2>2 DEF Passes, Bounded
<1>6. CASE c # 1
  <2>1. loops'[Len(loops')] = loops[Len(loops)]
    BY <1>0, <1>6 DEF Passes
  <2> QED
    BY <1>4, <2>1 DEF Bounded
<1> QED
  BY <1>5, <1>6

LEMMA BoundedEnters ==
    ASSUME NEW E, NEW base \in Nat, NEW end \in Nat, Shape(E, loops), InBody,
           Bounded(loops, base, end), Enters
    PROVE  Bounded(loops', base, end)
<1>0. PICK c \in 1 .. 4 : c = Len(loops)
  BY DEF Shape
<1>1. /\ Top = loops[1] /\ Top.next \in Nat /\ Top.end \in Nat /\ Top.level \in Levels
      /\ Top.next < Top.end /\ 4 \in Levels
  BY TopOf DEF InBody, Levels
<1>2. loops'[1].end = End(Top.level, Top.next) /\ loops'[1].next = Top.next
  BY DEF Enters, Loop
<1>3. End(4, loops'[1].end) <= End(4, end)
  <2>1. End(4, Top.end) <= End(4, end)
    BY <1>0, <1>1 DEF Bounded
  <2>2. /\ End(4, Top.next) <= End(4, Top.end)
        /\ End(4, Top.next) \in Nat /\ End(4, Top.end) \in Nat
    BY <1>1, EndsInOrder
  <2>3. End(4, loops'[1].end) = End(4, Top.next)
    BY <1>1, <1>2, EndBelowTop
  <2>4. End(4, end) \in Nat
    BY <1>1, EndBelowTop
  <2> QED
    BY <2>1, <2>2, <2>3, <2>4
<1>4. \A i \in 1 .. Len(loops') :
          base <= loops'[i].next /\ End(4, loops'[i].end) <= End(4, end)
  <2> TAKE i \in 1 .. Len(loops')
  <2>1. CASE i = 1
    <3>1. base <= Top.next
      BY <1>0, <1>1 DEF Bounded
    <3> QED
      BY <1>2, <1>3, <2>1, <3>1
  <2>2. CASE i # 1
    <3>1. i - 1 \in 1 .. Len(loops) /\ (i - 1) + 1 = i
      BY <1>0, <2>2 DEF Enters
    <3>2. loops'[i] = loops[i - 1]
      BY <3>1 DEF Enters
    <3> QED
      BY <3>1, <3>2 DEF Bounded
  <2> QED
    BY <2>1, <2>2
<1>5. loops'[Len(loops')] = loops[Len(loops)]
  BY <1>0 DEF Enters
<1> QED
  BY <1>4, <1>5 DEF Bounded

LEMMA BoundedLeaves ==
    ASSUME NEW E, NEW base \in Nat, NEW end, Shape(E, loops), Len(loops) > 1,
           Bounded(loops, base, end), Leaves
    PROVE  Bounded(loops', base, end)
<1>0. PICK c \in 2 .. 4 : c = Len(loops) /\ Len(loops') = c - 1
  BY DEF Shape, Leaves
<1>1. loops[2] \in LoopType /\ loops[2].level = 6 - c /\ loops[2].next \in Nat
  <2>1. loops[2] \in LoopType /\ loops[2].level = 4 - Len(loops) + 2
    BY <1>0 DEF Shape, Stacked
  <2> QED
    BY <1>0, <2>1 DEF LoopType, Addrs
<1>2. /\ loops'[1].end = loops[2].end
      /\ loops'[1].next = Top.next
      /\ loops'[1].next = End(loops[2].level, loops[2].next) + 1
  BY <1>1 DEF Leaves, LoopType
<1>3. \A i \in 1 .. Len(loops') :
          base <= loops'[i].next /\ End(4, loops'[i].end) <= End(4, end)
  <2> TAKE i \in 1 .. Len(loops')
  <2>1. i + 1 \in 1 .. Len(loops) /\ 1 \in 1 .. Len(loops)
    BY <1>0
  <2>2. CASE i = 1
    <3>1. base <= Top.next
      BY <2>1, TopOf DEF Bounded
    <3> QED
      BY <1>2, <2>1, <2>2, <3>1 DEF Bounded
  <2>3. CASE i # 1
    <3>1. i \in 2 .. Len(loops')
      BY <1>0, <2>3
    <3> QED
      BY <2>1, <3>1 DEF Leaves, Bounded
  <2> QED
    BY <2>2, <2>3
<1>5. CASE c = 2
  <2>1. loops[2].level = 4 /\ base <= loops[2].next
    BY <1>0, <1>1, <1>5 DEF Bounded
  <2>2. base <= End(4, loops[2].next) + 1 /\ End(4, base) < End(4, loops[2].next) + 1
    BY <1>1, <2>1, RootPasses
  <2> QED
    BY <1>0, <1>2, <1>3, <1>5, <2>1, <2>2 DEF Bounded
<1>6. CASE c # 2
  <2>1. loops'[Len(loops')] = loops[Len(loops)]
    <3>1. Len(loops') \in 2 .. Len(loops') /\ Len(loops') + 1 = Len(loops)
      BY <1>0, <1>6
    <3> QED
      BY <3>1 DEF Leaves
  <2> QED
    BY <1>3, <2>1 DEF Bounded
<1> QED
  BY <1>5, <1>6

-----------------------------------------------------------------------------
(* Ranges *)

\* Addresses of one page are of one entry at every level.
LEMMA SamePage ==
    ASSUME NEW a \in Nat, NEW b \in Nat, End(1, a) = End(1, b), NEW k \in Levels
    PROVE  End(k, a) = End(k, b) /\ Index(k, a) = Index(k, b)
<1>1. /\ End(1 + 1, End(1, a)) = End(1 + 1, a) /\ End(1 + 1, End(1, b)) = End(1 + 1, b)
      /\ End(2 + 1, End(2, a)) = End(2 + 1, a) /\ End(2 + 1, End(2, b)) = End(2 + 1, b)
      /\ End(3 + 1, End(3, a)) = End(3 + 1, a) /\ End(3 + 1, End(3, b)) = End(3 + 1, b)
  BY EndAbove
<1>2. End(2, a) = End(2, b)
  BY <1>1
<1>3. End(3, a) = End(3, b)
  BY <1>1, <1>2
<1>4. End(4, a) = End(4, b)
  BY <1>1, <1>3
<1>5. End(k, a) = End(k, b)
  BY <1>2, <1>3, <1>4 DEF Levels
<1> QED
  BY <1>5, SameEnd

LEMMA SameMapping ==
    ASSUME NEW E, NEW a \in Nat, NEW b \in Nat, End(1, a) = End(1, b)
    PROVE  Mapping(E, a) = Mapping(E, b)
<1>1. Index(1, a) = Index(1, b) /\ Index(2, a) = Index(2, b)
      /\ Index(3, a) = Index(3, b) /\ Index(4, a) = Index(4, b)
  BY SamePage DEF Levels
<1>2. Way3(E, a) = Way3(E, b)
  BY <1>1 DEF Way3, Way4, Beneath
<1>3. Way2(E, a) = Way2(E, b)
  BY <1>1, <1>2 DEF Way2, Beneath
<1> QED
  BY <1>1, <1>3 DEF Mapping, Way1, Beneath

\* Where the page of an address begins.
LEMMA PageOf ==
    ASSUME NEW a \in Nat
    PROVE  /\ RoundDown(a) \in Nat /\ RoundDown(a) <= a /\ a - RoundDown(a) < PAGE_SIZE
           /\ RoundDown(a) % PAGE_SIZE = 0
           /\ End(1, RoundDown(a)) = End(1, a)
           /\ \A k \in Levels : End(k, RoundDown(a)) = End(k, a)
<1>1. PICK i \in Nat : a = (i * PAGE_SIZE) + (a % PAGE_SIZE)
  BY PageSizeFacts, DivMod
<1>2. a % PAGE_SIZE \in 0 .. PAGE_SIZE - 1
  BY PageSizeFacts, DivMod
<1>3. PICK x \in Nat : x = i * PAGE_SIZE
  BY PageSizeFacts
<1>4. RoundDown(a) = x /\ x <= a /\ a - x < PAGE_SIZE /\ a <= x + PAGE_SIZE - 1
  BY <1>1, <1>2, <1>3, PageSizeFacts DEF RoundDown
<1>5. x % PAGE_SIZE = 0
  BY <1>3, MultipleOfPage
<1>6. End(1, x) = End(1, a)
  <2>1. Spanned(1, i, x) /\ Spanned(1, i, a)
    BY <1>3, <1>4, PageSizeFacts DEF Spanned, PAGE_SIZE
  <2> QED
    BY <2>1, OfSpan DEF Levels
<1> QED
  BY <1>4, <1>5, <1>6, SamePage

\* The range ends below the last entry of the root, where the walk of it would
\* start over at address 0, and it is not empty.
Within(va, size) == size > 0 /\ End(4, va + size - 1) < WORD - 1

RangeEnd(va, size) == (RoundUp((va + size) % WORD) + WORD - 1) % WORD

\* WORD and the end of an entry are whole pages apart.
LEMMA RoomForPage ==
    ASSUME NEW x \in Nat, x < WORD - 1, (x + 1) % PAGE_SIZE = 0
    PROVE  x + 1 + PAGE_SIZE <= WORD
<1>1. PICK d \in Nat : x + 1 = d * PAGE_SIZE
  BY PageMultiple
<1>2. PICK w \in Nat : WORD = w * PAGE_SIZE
  <2>1. WORD % PAGE_SIZE = 0
    BY SpanAssumption DEF PAGE_SIZE, Levels
  <2> QED
    BY <2>1, PageSizeFacts, PageMultiple
<1>3. d * PAGE_SIZE < w * PAGE_SIZE
  BY <1>1, <1>2, PageSizeFacts
<1>4. d * PAGE_SIZE + PAGE_SIZE <= w * PAGE_SIZE
  BY <1>3, PageSizeFacts, NextMultiple
<1> QED
  BY <1>1, <1>2, <1>4, PageSizeFacts

LEMMA RangeEndFacts ==
    ASSUME NEW va \in Addrs, NEW size \in Nat, Within(va, size)
    PROVE  /\ RangeEnd(va, size) \in Nat
           /\ va + size - 1 <= RangeEnd(va, size)
           /\ RangeEnd(va, size) <= End(4, va + size - 1)
           /\ (RangeEnd(va, size) + 1) % PAGE_SIZE = 0
           /\ End(4, RangeEnd(va, size)) = End(4, va + size - 1)
           /\ RoundDown(va) < RangeEnd(va, size)
<1>1. PICK x \in Nat : x = va + size - 1 /\ va <= x
  BY DEF Addrs, Within
<1>2. PICK z \in Nat : z = End(4, x) /\ x <= z /\ z < WORD - 1 /\ (z + 1) % PAGE_SIZE = 0
  BY <1>1, EndBelowTop, EndOfPage DEF Within, Levels
<1>3. z + 1 + PAGE_SIZE <= WORD
  BY <1>2, RoomForPage
<1>4. (va + size) % WORD = x + 1
  <2>1. va + size = x + 1 /\ x + 1 \in 0 .. WORD - 1
    BY <1>1, <1>2, PageSizeFacts DEF Addrs
  <2> QED
    BY <2>1, PageSizeFacts
<1>5. (x + 1 + PAGE_SIZE - 1) % WORD = x + PAGE_SIZE
  <2>1. x + 1 + PAGE_SIZE - 1 = x + PAGE_SIZE /\ x + PAGE_SIZE \in 0 .. WORD - 1
    BY <1>2, <1>3, PageSizeFacts
  <2> QED
    BY <2>1, PageSizeFacts
<1> DEFINE u == RoundDown(x + PAGE_SIZE)
<1>6. RoundUp((va + size) % WORD) = u
  BY <1>4, <1>5 DEF RoundUp
<1>7. x + PAGE_SIZE \in Nat
  BY PageSizeFacts
<1>8. /\ u \in Nat /\ u <= x + PAGE_SIZE /\ x + PAGE_SIZE - u < PAGE_SIZE
      /\ u % PAGE_SIZE = 0
  <2>1. PICK y \in Nat : y = x + PAGE_SIZE
    BY <1>7
  <2>2. /\ RoundDown(y) \in Nat /\ RoundDown(y) <= y /\ y - RoundDown(y) < PAGE_SIZE
        /\ RoundDown(y) % PAGE_SIZE = 0
    BY PageOf
  <2>3. u = RoundDown(y)
    BY <2>1
  <2> HIDE DEF u
  <2> QED
    BY <2>1, <2>2, <2>3, PageSizeFacts
<1> HIDE DEF u
<1>9. u >= x + 1
  BY <1>8, PageSizeFacts
<1>10. u <= z + 1
  <2>1. PICK c \in Nat : u = c * PAGE_SIZE
    BY <1>8, PageMultiple
  <2>2. PICK d \in Nat : z + 1 = d * PAGE_SIZE
    BY <1>2, PageMultiple
  <2>3. CASE d * PAGE_SIZE < c * PAGE_SIZE
    <3>1. d * PAGE_SIZE + PAGE_SIZE <= c * PAGE_SIZE
      BY <2>3, PageSizeFacts, NextMultiple
    <3> QED
      BY <1>2, <1>8, <2>1, <2>2, <3>1, PageSizeFacts
  <2> QED
    BY <2>1, <2>2, <2>3, <1>8, <1>2, PageSizeFacts
<1>11. RangeEnd(va, size) = u - 1
  <2>1. u - 1 \in 0 .. WORD - 1 /\ u + WORD - 1 = (1 * WORD) + (u - 1)
    BY <1>2, <1>8, <1>9, <1>10, PageSizeFacts
  <2>2. ((1 * WORD) + (u - 1)) % WORD = u - 1
    BY <2>1, PageSizeFacts, ModOfMultiple
  <2> QED
    BY <1>6, <2>1, <2>2 DEF RangeEnd
<1>12. u - 1 \in Nat /\ x <= u - 1 /\ u - 1 <= z /\ (u - 1) + 1 = u
  BY <1>8, <1>9, <1>10
<1>13. End(4, u - 1) = End(4, x)
  BY <1>2, <1>12, SameEntry DEF Levels
<1>14. RoundDown(va) < u - 1
  <2>1. va \in Nat
    BY DEF Addrs
  <2>2. RoundDown(va) \in Nat /\ RoundDown(va) <= va /\ RoundDown(va) % PAGE_SIZE = 0
    BY <2>1, PageOf
  <2>3. RoundDown(va) <= u - 1
    BY <1>1, <1>12, <2>1, <2>2
  <2> QED
    BY <1>8, <1>12, <2>2, <2>3, PageBefore
<1> QED
  BY <1>1, <1>2, <1>8, <1>11, <1>12, <1>13, <1>14

\* The walk of a range begins so.
LEMMA RangeBegins ==
    ASSUME NEW va \in Addrs, NEW size \in Nat, Within(va, size), WalkPageRange(va, va + size)
    PROVE  /\ Shape(entries', loops')
           /\ Bounded(loops', RoundDown(va), RangeEnd(va, size))
           /\ loops'[1].next = RoundDown(va) /\ Len(loops') = 1 /\ pc' = "walk"
           /\ loops'[1].level = 4
<1>1. va \in Nat /\ va + size \in Nat
  BY DEF Addrs
<1>2. /\ Stacked(loops') /\ Len(loops') = 1 /\ pc' = "walk"
      /\ loops'[1] = Loop(4, kernel_pml4, RoundDown(va), RangeEnd(va, size))
  BY <1>1, WalkPageRangeType DEF RangeEnd
<1>3. /\ loops'[1].level = 4 /\ loops'[1].table = kernel_pml4
      /\ loops'[1].next = RoundDown(va) /\ loops'[1].end = RangeEnd(va, size)
  BY <1>2 DEF Loop
<1>4. RoundDown(va) % PAGE_SIZE = 0 /\ RoundDown(va) \in Nat
  BY <1>1, PageOf
<1>5. Sound(entries', loops'[1])
  BY <1>3, <1>4, RangeEndFacts DEF Sound, OnWay
<1>6. Shape(entries', loops')
  BY <1>2, <1>3, <1>5 DEF Shape
<1>7. Bounded(loops', RoundDown(va), RangeEnd(va, size))
  <2>1. RangeEnd(va, size) \in Nat
    BY RangeEndFacts
  <2>2. End(4, RangeEnd(va, size)) \in Nat
    BY <2>1, EndBelowTop DEF Levels
  <2>3. End(4, RangeEnd(va, size)) <= End(4, RangeEnd(va, size))
        /\ RoundDown(va) <= RoundDown(va)
    BY <1>4, <2>2
  <2> QED
    BY <1>2, <1>3, <2>3 DEF Bounded
<1> QED
  BY <1>2, <1>3, <1>6, <1>7

-----------------------------------------------------------------------------
(* What every kind of walk has in common *)

\* No step of a walk changes what call is under way.
LEMMA CallGoesOn ==
    ASSUME TypeInv, Walk
    PROVE  /\ pc = "walk" /\ op \in Calls /\ op'.name = op.name
           /\ pc' = "idle" => LookupDone \/ OtherDone
<1>0. pc = "walk"
  BY DEF Walk, InsertPte, InsertPde, RemovePte, RemovePde, LookupEntry, BootMapPte,
         BootMapPde, DumpEntry, Pass, LeaveLoop, LookupDone, OtherDone, NoSuchPage,
         FreeAgain, Unreferences, NoTable, In, WalkDone
<1>1. op \in Calls
  BY <1>0 DEF TypeInv, CallType
<1>2. CASE InsertPte \/ InsertPde \/ RemovePte \/ RemovePde \/ LookupEntry \/ Pass
  BY <1>0, <1>1, <1>2
     DEF InsertPte, InsertPde, RemovePte, RemovePde, LookupEntry, Pass, Proceed
<1>3. CASE BootMapPte \/ BootMapPde
  <2>1. op \in BootMapCall
    BY <1>1, <1>3, CallsByName DEF BootMapPte, BootMapPde, In
  <2>2. op' = op \/ op' = [op EXCEPT !.page = @ + 1] \/ op' = [op EXCEPT !.page = @ + ENTRIES]
    BY <1>3 DEF BootMapPte, BootMapPde
  <2>3. op'.name = op.name
    BY <2>1, <2>2 DEF BootMapCall
  <2>4. pc' \in {"walk", "wild"}
    BY <1>3 DEF BootMapPte, BootMapPde, Proceed
  <2> QED
    BY <1>0, <1>1, <2>3, <2>4
<1>4. CASE DumpEntry
  <2>1. op \in DumpCall
    BY <1>1, <1>4, CallsByName DEF DumpEntry, In
  <2>2. op'.name = op.name
    BY <1>4, <2>1 DEF DumpEntry, DumpCall
  <2>3. pc' \in {"walk", "wild"}
    BY <1>4 DEF DumpEntry, Proceed
  <2> QED
    BY <1>0, <1>1, <2>2, <2>3
<1>5. CASE LeaveLoop \/ NoSuchPage \/ FreeAgain \/ NoTable
  BY <1>0, <1>1, <1>5 DEF LeaveLoop, NoSuchPage, FreeAgain, NoTable
<1>6. CASE LookupDone \/ OtherDone
  BY <1>0, <1>1, <1>6 DEF LookupDone, OtherDone
<1> QED
  BY <1>2, <1>3, <1>4, <1>5, <1>6 DEF Walk

\* Other steps change nothing, or begin a call.
LEMMA CallBegins ==
    ASSUME [Next]_vars, ~ Walk
    PROVE  \/ UNCHANGED <<entries, pp_ref, free, op, loops, found, region, lines, ret, pc>>
           \/ op'.name \in {"insert", "boot_map"}
           \/ \E r \in Ranges : UnmapPageRange(r[1], r[2]) \/ PageLookup(r[1])
           \/ \E mask \in DumpMasks : DumpPageTables(mask)
<1>1. CASE UNCHANGED vars
  BY <1>1 DEF vars
<1>2. CASE Pml4Setup
  BY <1>2 DEF Pml4Setup, BootMapRegion, memory
<1>3. CASE Call
  BY <1>3 DEF Call, PageInsertFresh, PageInsertAgain, PageInsertMisaligned, BootMapRegion
<1> QED
  BY <1>1, <1>2, <1>3 DEF Next

-----------------------------------------------------------------------------
(* unmap_page_range() *)

\* No range to remove is empty or reaches the last entry of the PML4.
RangesInside == \A r \in Ranges : Within(r[1], r[2])

\* The walk of the range has passed no page that is still mapped.
RemoveInv ==
    Walking("remove") =>
        /\ Shape(entries, loops)
        /\ Within(op.va, op.size)
        /\ Bounded(loops, RoundDown(op.va), RangeEnd(op.va, op.size))
        /\ \A a \in Addrs :
               a % PAGE_SIZE = 0 /\ RoundDown(op.va) <= a /\ a < Top.next =>
                   ~ Present(Mapping(entries, a))

LEMMA RemoveCallType ==
    ASSUME TypeInv, Walking("remove")
    PROVE  /\ op \in RemoveCall /\ op.va \in Addrs /\ op.size \in Nat
           /\ RoundDown(op.va) \in Nat /\ RoundDown(op.va) <= op.va
           /\ TypeOK
<1>1. op \in RemoveCall /\ TypeOK
  BY CallsByName DEF Walking, TypeInv, CallType
<1>2. op.va \in Addrs /\ op.size \in Nat
  BY <1>1 DEF RemoveCall
<1> QED
  BY <1>1, <1>2, PageOf DEF Addrs

\* An iteration that leaves no page mapped at the entry it has at hand.
LEMMA RemoveIterates ==
    ASSUME TypeInv, TypeInv', RemoveInv, Walking("remove"), InBody, Proceed, op' = op,
           Cleared(entries, entries'),
           Top.level = 1 => ~ Present(entries'[Top.table][Slot]),
           Top.level = 2 => ~ (Present(entries'[Top.table][Slot])
                                  /\ Huge(entries'[Top.table][Slot]))
    PROVE  RemoveInv'
<1> DEFINE base == RoundDown(op.va)
           end == RangeEnd(op.va, op.size)
           e == entries'[Top.table][Slot]
<1> SUFFICES ASSUME Walking("remove")' PROVE RemoveInv'
  BY DEF RemoveInv
<1>1. /\ Shape(entries, loops) /\ Within(op.va, op.size) /\ Bounded(loops, base, end)
      /\ \A a \in Addrs : a % PAGE_SIZE = 0 /\ base <= a /\ a < Top.next =>
             ~ Present(Mapping(entries, a))
  BY DEF RemoveInv
<1>2. base \in Nat /\ TypeOK /\ pc' = "walk" /\ end \in Nat /\ End(4, end) < WORD - 1
  BY <1>1, RemoveCallType, RangeEndFacts DEF Walking, Within
<1>3. Shape(entries', loops)
  BY <1>1, ShapeKept
<1> HIDE DEF base, end
<1>4. End(Top.level, Top.next) < WORD - 1 /\ end \in Nat
  BY <1>1, <1>2, NoWrap
<1>5. /\ Shape(entries', loops')
      /\ (~ Descends(e) /\ Passes) \/ (Descends(e) /\ Enters)
  BY <1>2, <1>3, <1>4, Iterated
<1>6. Bounded(loops', base, end)
  BY <1>1, <1>2, <1>5, BoundedPasses, BoundedEnters
<1>7. /\ Top = loops[1] /\ Top.level \in Levels /\ Top.next \in Nat /\ Top \in LoopType
      /\ Top.next < Top.end /\ Slot = Index(Top.level, Top.next)
      /\ Top' = loops'[1] /\ End(Top.level, Top.next) \in Nat
  <2>1. Top' = loops'[1] /\ Top = loops[1] /\ Top.level \in Levels /\ Top.next \in Nat
        /\ Top \in LoopType
    BY <1>1, <1>5, ShapeTop DEF Top
  <2> QED
    BY <2>1, EndBelowTop DEF InBody, Slot
<1>8. \A a \in Addrs : a % PAGE_SIZE = 0 /\ base <= a /\ a < Top.next =>
          ~ Present(Mapping(entries', a))
  BY <1>1, MappingKept
<1>9. \A a \in Addrs : a % PAGE_SIZE = 0 /\ base <= a /\ a < Top'.next =>
          ~ Present(Mapping(entries', a))
  <2>1. CASE Descends(e) /\ Enters
    <3>1. Top'.next = Top.next
      BY <1>7, <2>1 DEF Enters, Loop
    <3> QED
      BY <1>8, <3>1
  <2>2. CASE ~ Descends(e) /\ Passes
    <3>1. Top'.next = End(Top.level, Top.next) + 1
      BY <1>7, <2>2 DEF Passes, LoopType
    <3> SUFFICES ASSUME NEW a \in Addrs, a % PAGE_SIZE = 0, base <= a, a < Top'.next
                 PROVE  ~ Present(Mapping(entries', a))
      OBVIOUS
    <3>2. CASE a < Top.next
      BY <1>8, <3>2
    <3>3. CASE Top.next <= a
      <4>1. a \in Nat /\ a <= End(Top.level, Top.next)
        BY <1>7, <3>1 DEF Addrs
      <4>2. End(Top.level, a) = End(Top.level, Top.next)
        BY <1>7, <3>3, <4>1, SameEntry
      <4> SUFFICES ASSUME Present(Mapping(entries', a)) PROVE FALSE
        OBVIOUS
      <4>3. ~ (Top.level > 1 /\ Present(e) /\ ~ Huge(e))
        BY <2>2 DEF Descends
      <4>4. Present(e) /\ (Top.level = 1 \/ (Top.level = 2 /\ Huge(e)))
        BY <1>3, <1>7, <4>2, <4>3, MappedHere
      <4> HIDE DEF e
      <4>5. Top.level = 1 => ~ Present(e)
        BY DEF e
      <4>6. Top.level = 2 => ~ (Present(e) /\ Huge(e))
        BY DEF e
      <4> QED
        BY <4>4, <4>5, <4>6
    <3> QED
      BY <1>7, <3>2, <3>3 DEF Addrs
  <2> QED
    BY <1>5, <2>1, <2>2
<1> QED
  BY <1>1, <1>5, <1>6, <1>9 DEF RemoveInv, base, end, RoundDown, Within, RangeEnd, RoundUp, End

\* A loop of the walk is left.
LEMMA RemoveLeaves ==
    ASSUME TypeInv, RemoveInv, Walking("remove"), LeaveLoop
    PROVE  RemoveInv'
<1> DEFINE base == RoundDown(op.va)
           end == RangeEnd(op.va, op.size)
<1>1. /\ Shape(entries, loops) /\ Within(op.va, op.size) /\ Bounded(loops, base, end)
      /\ \A a \in Addrs : a % PAGE_SIZE = 0 /\ base <= a /\ a < Top.next =>
             ~ Present(Mapping(entries, a))
  BY DEF RemoveInv
<1>2. base \in Nat /\ TypeOK /\ end \in Nat /\ End(4, end) < WORD - 1
  BY <1>1, RemoveCallType, RangeEndFacts DEF Within
<1>3. op' = op /\ entries' = entries /\ Len(loops) > 1
  BY DEF LeaveLoop, memory
<1> HIDE DEF base, end
<1>4. Top.end < WORD - 1
  BY <1>1, <1>2, NoWrap
<1>5. Shape(entries', loops') /\ Leaves
  BY <1>1, <1>4, LeftBehind
<1>6. Bounded(loops', base, end)
  BY <1>1, <1>2, <1>3, <1>5, BoundedLeaves
<1>7. Top'.next = Top.next
  <2>1. Top' = loops'[1]
    BY <1>5, ShapeTop DEF Top
  <2>2. PICK c \in 2 .. 4 : c = Len(loops)
    BY <1>1, <1>3 DEF Shape
  <2>3. loops[2] \in LoopType
    BY <1>1, <2>2 DEF Shape, Stacked
  <2> QED
    BY <1>5, <2>1, <2>3 DEF Leaves, LoopType
<1> QED
  BY <1>1, <1>3, <1>5, <1>6, <1>7
     DEF RemoveInv, base, end, RoundDown, Within, RangeEnd, RoundUp, End

\* Clearing the entry at hand clears nothing else.
LEMMA ClearOne ==
    ASSUME TypeOK, loops # <<>>, Clear(Entry)
    PROVE  Cleared(entries, entries') /\ entries'[Top.table][Slot] = HOLE
<1>1. HOLE \in Entries /\ Set(HOLE)
  BY DEF HOLE, Entries, Clear
<1>2. /\ entries'[Top.table][Slot] = HOLE
      /\ \A p \in Pages, i \in Slots :
             <<p, i>> # <<Top.table, Slot>> => entries'[p][i] = entries[p][i]
  BY <1>1, SetType
<1> QED
  BY <1>2 DEF Cleared

LEMMA SameCleared ==
    ASSUME entries' = entries
    PROVE  Cleared(entries, entries')
BY DEF Cleared

LEMMA RemoveWalks ==
    ASSUME TypeInv, TypeInv', RemoveInv, Walk, op.name = "remove"
    PROVE  RemoveInv'
<1>0. Walking("remove")
  BY CallGoesOn DEF Walking
<1>1. CASE RemovePte
  <2>1. /\ In("remove", {1}) /\ InBody /\ loops # <<>> /\ TypeOK /\ Proceed /\ op' = op
        /\ Top.level = 1
    BY <1>1, InType DEF RemovePte
  <2>2. Cleared(entries, entries') /\ ~ Present(entries'[Top.table][Slot])
    <3>1. CASE Present(Entry)
      <4>1. Clear(Entry)
        BY <1>1, <3>1 DEF RemovePte
      <4> QED
        BY <2>1, <4>1, ClearOne DEF Present, HOLE
    <3>2. CASE ~ Present(Entry)
      <4>1. entries' = entries
        BY <1>1, <3>2 DEF RemovePte, memory
      <4> QED
        BY <3>2, <4>1, SameCleared DEF Entry
    <3> QED
      BY <3>1, <3>2
  <2> QED
    BY <1>0, <2>1, <2>2, RemoveIterates
<1>2. CASE RemovePde
  <2>1. /\ In("remove", {2}) /\ InBody /\ loops # <<>> /\ TypeOK /\ Proceed /\ op' = op
        /\ Top.level = 2
    BY <1>2, InType DEF RemovePde
  <2>2. /\ Cleared(entries, entries')
        /\ ~ (Present(entries'[Top.table][Slot]) /\ Huge(entries'[Top.table][Slot]))
    <3>1. CASE Present(Entry) /\ Huge(Entry)
      <4>1. Clear(Entry)
        BY <1>2, <3>1 DEF RemovePde
      <4> QED
        BY <2>1, <4>1, ClearOne DEF Present, HOLE
    <3>2. CASE ~ (Present(Entry) /\ Huge(Entry))
      <4>1. entries' = entries
        BY <1>2, <3>2 DEF RemovePde, memory
      <4> QED
        BY <3>2, <4>1, SameCleared DEF Entry
    <3> QED
      BY <3>1, <3>2
  <2> QED
    BY <1>0, <2>1, <2>2, RemoveIterates
<1>3. CASE Pass
  <2>1. In("remove", {3, 4}) /\ Proceed /\ op' = op /\ entries' = entries
    BY <1>3 DEF Pass, In, memory, Walking
  <2>2. InBody /\ Top.level \in {3, 4}
    BY <2>1, InType
  <2> QED
    BY <1>0, <2>1, <2>2, SameCleared, RemoveIterates
<1>4. CASE LeaveLoop
  BY <1>0, <1>4, RemoveLeaves
<1>5. CASE OtherDone \/ NoSuchPage \/ FreeAgain \/ NoTable
  BY <1>5 DEF OtherDone, NoSuchPage, FreeAgain, NoTable, RemoveInv, Walking
<1>6. CASE \/ InsertPte \/ InsertPde \/ LookupEntry \/ BootMapPte \/ BootMapPde
           \/ DumpEntry \/ LookupDone
  BY <1>6 DEF InsertPte, InsertPde, LookupEntry, BootMapPte, BootMapPde, DumpEntry,
              LookupDone, In
<1> QED
  BY <1>1, <1>2, <1>3, <1>4, <1>5, <1>6 DEF Walk

\* The walk is over when it has passed the range, and the span it began in.
LEMMA RemoveEnds ==
    ASSUME TypeInv, RemoveInv, Walking("remove"), OtherDone
    PROVE  RemoveUnmaps'
<1> DEFINE va == op.va
           base == RoundDown(op.va)
           end == RangeEnd(op.va, op.size)
<1>1. /\ Shape(entries, loops) /\ Within(va, op.size) /\ Bounded(loops, base, end)
      /\ \A a \in Addrs : a % PAGE_SIZE = 0 /\ base <= a /\ a < Top.next =>
             ~ Present(Mapping(entries, a))
  BY DEF RemoveInv
<1>2. /\ op' = op /\ entries' = entries /\ Len(loops) = 1 /\ ~ InBody
  BY DEF OtherDone, WalkDone, memory
<1>3. /\ va \in Addrs /\ va \in Nat /\ op.size \in Nat /\ base \in Nat /\ base <= va
      /\ base % PAGE_SIZE = 0 /\ End(4, base) = End(4, va)
  <2>1. va \in Addrs /\ va \in Nat /\ op.size \in Nat
    BY RemoveCallType DEF Addrs
  <2> QED
    BY <2>1, PageOf DEF Levels
<1>4. /\ end \in Nat /\ va + op.size - 1 <= end /\ (end + 1) % PAGE_SIZE = 0 /\ base < end
      /\ end <= End(4, va + op.size - 1)
  BY <1>1, <1>3, RangeEndFacts
<1>5. Top.next \in Nat /\ end <= Top.next /\ End(4, va) < Top.next
  <2>1. Top = loops[1] /\ Top.next \in Nat /\ Top.end = end /\ ~ (Top.next < Top.end)
        /\ (Top.next = base \/ End(4, base) < Top.next)
    BY <1>1, <1>2, TopOf DEF Bounded, InBody
  <2> HIDE DEF end, base, va
  <2>2. PICK n \in Nat : n = Top.next
    BY <2>1
  <2>3. PICK f \in Nat : f = end
    BY <1>4
  <2>4. ~ (n < f)
    BY <2>1, <2>2, <2>3
  <2>5. f <= n
    BY <2>4
  <2>6. PICK b \in Nat : b = base
    BY <1>3
  <2>7. n # b
    BY <1>4, <2>3, <2>5, <2>6
  <2>8. End(4, va) < n
    BY <1>3, <2>1, <2>2, <2>6, <2>7
  <2> QED
    BY <2>2, <2>3, <2>5, <2>8
<1>6. End(4, va) \in Addrs /\ WORD \in Nat /\ end < WORD
  <2>1. End(4, va) \in Addrs
    BY <1>3, EndIsAddress DEF Levels
  <2>2. va + op.size - 1 \in Nat
    BY <1>1, <1>3 DEF Within
  <2>3. End(4, va + op.size - 1) \in Nat
    BY <2>2, EndBelowTop DEF Levels
  <2> QED
    BY <1>1, <1>4, <2>1, <2>3, PageSizeFacts DEF Within
<1>7. ASSUME NEW a \in RangeOfCall
      PROVE  ~ Present(Leaf(a)')
  <2>1. a \in Nat /\ a % PAGE_SIZE = 0 /\ base <= a /\ a <= va + op.size - 1
    BY <1>1, <1>3, <1>6 DEF RangeOfCall, PageStarts, Within, Addrs
  <2>2. a < Top.next /\ a \in Addrs
    <3>1. a <= end
      BY <1>3, <1>4, <2>1
    <3>2. a < end
      BY <1>4, <2>1, <3>1, PageBefore
    <3> QED
      BY <1>4, <1>5, <1>6, <2>1, <3>2 DEF Addrs
  <2>3. ~ Present(Mapping(entries, a))
    BY <1>1, <2>1, <2>2
  <2> QED
    BY <1>2, <2>3, MappingIsLeaf
<1> QED
  BY <1>2, <1>7 DEF RemoveUnmaps, RangeOfCall, PageStarts, RoundDown, Present

LEMMA RemoveStep ==
    ASSUME TypeInv, RemoveInv, RemoveUnmaps, RangesInside, [Next]_vars
    PROVE  RemoveInv' /\ RemoveUnmaps'
<1>0. TypeInv'
  BY TypeStep
<1>1. CASE Walk /\ op.name = "remove"
  <2>1. RemoveInv'
    BY <1>0, <1>1, RemoveWalks
  <2>2. pc' = "idle" => OtherDone
    BY <1>1, CallGoesOn DEF LookupDone
  <2>3. RemoveUnmaps'
    <3>1. Walking("remove")
      BY <1>1, CallGoesOn DEF Walking
    <3> QED
      BY <2>2, <3>1, RemoveEnds DEF RemoveUnmaps, Returned
  <2> QED
    BY <2>1, <2>3
<1>2. CASE Walk /\ op.name # "remove"
  <2>1. op'.name # "remove"
    BY <1>2, CallGoesOn
  <2> QED
    BY <2>1 DEF RemoveInv, Walking, RemoveUnmaps, Returned
<1>3. CASE UNCHANGED <<entries, pp_ref, free, op, loops, found, region, lines, ret, pc>>
  <2>1. RemoveInv'
    BY <1>3 DEF RemoveInv, Walking, Top, RoundDown, Within, RangeEnd, RoundUp, End
  <2>2. RemoveUnmaps'
    <3>1. \A a : Leaf(a)' = Leaf(a)
      BY <1>3, MappingIsLeaf
    <3> QED
      BY <1>3, <3>1
         DEF RemoveUnmaps, Returned, RangeOfCall, PageStarts, RoundDown, Present
  <2> QED
    BY <2>1, <2>2
<1>4. CASE op'.name \in {"insert", "boot_map"}
  BY <1>4 DEF RemoveInv, Walking, RemoveUnmaps, Returned
<1>5. ASSUME NEW r \in Ranges, UnmapPageRange(r[1], r[2])
      PROVE  RemoveInv' /\ RemoveUnmaps'
  <2>1. r[1] \in Addrs /\ r[2] \in Nat /\ Within(r[1], r[2])
    BY PageTableAssumption DEF RangesInside
  <2>2. op'.va = r[1] /\ op'.size = r[2] /\ WalkPageRange(r[1], r[1] + r[2])
    BY <1>5 DEF UnmapPageRange
  <2>3. /\ Shape(entries', loops') /\ pc' = "walk"
        /\ Bounded(loops', RoundDown(r[1]), RangeEnd(r[1], r[2]))
        /\ loops'[1].next = RoundDown(r[1]) /\ Len(loops') = 1
    BY <2>1, <2>2, RangeBegins
  <2>4. RoundDown(r[1]) \in Nat
    BY <2>1, PageOf DEF Addrs
  <2>5. Top'.next = RoundDown(r[1])
    BY <2>3, ShapeTop DEF Top
  <2>6. \A a \in Addrs : ~ (RoundDown(r[1]) <= a /\ a < Top'.next)
    BY <2>4, <2>5 DEF Addrs
  <2>7. RemoveInv'
    BY <2>1, <2>2, <2>3, <2>6 DEF RemoveInv, RoundDown, Within, RangeEnd, RoundUp, End
  <2> QED
    BY <2>3, <2>7 DEF RemoveUnmaps, Returned
<1>6. ASSUME NEW r \in Ranges, PageLookup(r[1])
      PROVE  RemoveInv' /\ RemoveUnmaps'
  BY <1>6 DEF PageLookup, RemoveInv, Walking, RemoveUnmaps, Returned
<1>7. ASSUME NEW mask \in DumpMasks, DumpPageTables(mask)
      PROVE  RemoveInv' /\ RemoveUnmaps'
  BY <1>7 DEF DumpPageTables, RemoveInv, Walking, RemoveUnmaps, Returned
<1> QED
  BY <1>1, <1>2, <1>3, <1>4, <1>5, <1>6, <1>7, CallBegins

\* When unmap_page_range() or page_remove() has returned, no address of the range
\* it was given is mapped, by a page or a huge page: the walk misses none, wherever
\* the range begins and ends, whatever the tables hold and however often a table is
\* met on the way.  Of the entries behind the range, which the walk clears too, of
\* the counts and of the tables above nothing is said here.
THEOREM RemoveUnmapsHolds ==
    ASSUME RangesInside
    PROVE  Spec => []RemoveUnmaps
<1>1. Init => TypeInv /\ RemoveInv /\ RemoveUnmaps
  BY InitType DEF Init, RemoveInv, Walking, RemoveUnmaps, Returned
<1>2. TypeInv /\ RemoveInv /\ RemoveUnmaps /\ [Next]_vars
          => TypeInv' /\ RemoveInv' /\ RemoveUnmaps'
  BY TypeStep, RemoveStep
<1> QED
  BY <1>1, <1>2, PTL DEF Spec

-----------------------------------------------------------------------------
(* Walks that leave the tables as they are *)

\* The way to the table of a loop is still there.
Certain(E, m) ==
    m.level < 4 =>
        \A a \in Addrs :
            End(m.level + 1, a) = m.end => Present(WayOf(E, m.level + 1, a))

AllCertain(E, l) == \A i \in 1 .. Len(l) : Certain(E, l[i])

\* The entry at hand is on the way to every address it stands for.
LEMMA ExactEntry ==
    ASSUME NEW E, NEW l, Shape(E, l), AllCertain(E, l), l[1].next < l[1].end,
           NEW a \in Addrs, End(l[1].level, a) = End(l[1].level, l[1].next)
    PROVE  /\ WayOf(E, l[1].level, a) = E[l[1].table][Index(l[1].level, l[1].next)]
           /\ l[1].level = 1 =>
                  Present(WayOf(E, 2, a)) /\ Mapping(E, a) = WayOf(E, 1, a)
<1> DEFINE m == l[1]
           k == m.level
<1>0. PICK c \in 1 .. 4 : c = Len(l)
  BY DEF Shape
<1>1. k \in Levels /\ m \in LoopType /\ Certain(E, m)
  <2>1. Certain(E, m)
    BY <1>0 DEF AllCertain
  <2> QED
    BY <2>1, ShapeTop
<1>2. /\ Index(k, a) = Index(k, m.next)
      /\ k < 4 => End(k + 1, a) = m.end /\ Leads(WayOf(E, k + 1, a), m.table)
  BY AtEntry
<1>3. k < 4 => Present(WayOf(E, k + 1, a))
  BY <1>1, <1>2 DEF Certain
<1>4. k = 4 => m.table = kernel_pml4
  BY ShapeTop
<1>5. m.table \in Pages
  BY <1>1 DEF LoopType
<1> HIDE DEF k, m
<1>6. CASE k = 4
  BY <1>2, <1>4, <1>6 DEF WayOf, Way4, k, m
<1>7. CASE k < 4
  <2>1. k \in 1 .. 3
    BY <1>1, <1>7 DEF Levels
  <2>2. WayOf(E, k, a) = Beneath(E, k, WayOf(E, k + 1, a), a)
    BY <2>1, WayBeneath
  <2>3. WayOf(E, k, a) = E[m.table][Index(k, a)]
    BY <1>2, <1>3, <1>5, <1>7, <2>2 DEF Beneath, Leads
  <2>4. k = 1 => Present(WayOf(E, 2, a)) /\ ~ Huge(WayOf(E, 2, a))
    BY <1>2, <1>3 DEF Leads
  <2>5. k = 1 => Mapping(E, a) = WayOf(E, 1, a)
    BY <2>4 DEF Mapping, WayOf
  <2> QED
    BY <1>2, <1>7, <2>3, <2>4, <2>5 DEF k, m
<1> QED
  BY <1>1, <1>6, <1>7 DEF Levels

LEMMA CertainGoesOn ==
    ASSUME NEW E, Shape(E, loops), AllCertain(E, loops), InBody,
           \/ Passes
           \/ Enters /\ Present(E[Top.table][Slot])
    PROVE  AllCertain(E, loops')
<1>0. PICK c \in 1 .. 4 : c = Len(loops)
  BY DEF Shape
<1>1. /\ Top = loops[1] /\ loops[1] \in LoopType /\ Top.level \in Levels
      /\ Top.next < Top.end /\ Slot = Index(Top.level, Top.next)
  BY TopOf DEF InBody, Slot
<1>2. CASE Passes
  <2>1. loops'[1].level = loops[1].level /\ loops'[1].end = loops[1].end
    BY <1>1, <1>2 DEF Passes, LoopType
  <2>2. Certain(E, loops'[1])
    BY <1>0, <2>1 DEF AllCertain, Certain
  <2>3. \A i \in 2 .. Len(loops) : Certain(E, loops'[i])
    BY <1>0, <1>2 DEF Passes, AllCertain
  <2> QED
    BY <1>0, <1>2, <2>2, <2>3 DEF Passes, AllCertain
<1>3. CASE Enters /\ Present(E[Top.table][Slot])
  <2>1. loops'[1].level = Top.level - 1 /\ loops'[1].end = End(Top.level, Top.next)
    BY <1>3 DEF Enters, Loop
  <2>2. (Top.level - 1) + 1 = Top.level
    BY <1>1 DEF Levels
  <2>3. \A a \in Addrs : End(Top.level, a) = End(Top.level, Top.next) =>
            Present(WayOf(E, Top.level, a))
    BY <1>1, <1>3, ExactEntry
  <2>4. Certain(E, loops'[1])
    BY <2>1, <2>2, <2>3 DEF Certain
  <2>5. ASSUME NEW i \in 1 .. Len(loops')
        PROVE  Certain(E, loops'[i])
    <3>1. CASE i = 1
      BY <2>4, <3>1
    <3>2. CASE i # 1
      <4>1. i - 1 \in 1 .. Len(loops) /\ (i - 1) + 1 = i
        BY <1>0, <1>3, <3>2 DEF Enters
      <4> QED
        BY <1>3, <4>1 DEF Enters, AllCertain
    <3> QED
      BY <3>1, <3>2
  <2> QED
    BY <2>5 DEF AllCertain
<1> QED
  BY <1>2, <1>3

LEMMA CertainLeaves ==
    ASSUME NEW E, Shape(E, loops), AllCertain(E, loops), Len(loops) > 1, Leaves
    PROVE  AllCertain(E, loops')
<1>0. PICK c \in 2 .. 4 : c = Len(loops) /\ Len(loops') = c - 1
  BY DEF Shape, Leaves
<1>1. loops[2] \in LoopType
  BY <1>0 DEF Shape, Stacked
<1>2. loops'[1].level = loops[2].level /\ loops'[1].end = loops[2].end
  BY <1>1 DEF Leaves, LoopType
<1>3. Certain(E, loops'[1])
  BY <1>0, <1>2 DEF AllCertain, Certain
<1>4. ASSUME NEW i \in 1 .. Len(loops')
      PROVE  Certain(E, loops'[i])
  <2>1. CASE i = 1
    BY <1>3, <2>1
  <2>2. CASE i # 1
    <3>1. i \in 2 .. Len(loops') /\ i + 1 \in 1 .. Len(loops)
      BY <1>0, <2>2
    <3> QED
      BY <3>1 DEF Leaves, AllCertain
  <2> QED
    BY <2>1, <2>2
<1> QED
  BY <1>4 DEF AllCertain
-----------------------------------------------------------------------------
(* page_lookup() *)

\* The page from va on is memory, in the span of one entry of the PML4: it is
\* when va is the address of a page.
OnePage(va) == Within(va, PAGE_SIZE) /\ End(4, va + PAGE_SIZE - 1) = End(4, va)

\* Where the walk of one page is.
LEMMA PagePlace ==
    ASSUME NEW E, NEW va \in Addrs, Shape(E, loops), OnePage(va),
           Bounded(loops, RoundDown(va), RangeEnd(va, PAGE_SIZE))
    PROVE  /\ va \in Nat /\ RoundDown(va) \in Nat /\ RoundDown(va) <= va
           /\ RangeEnd(va, PAGE_SIZE) \in Nat
           /\ va < RangeEnd(va, PAGE_SIZE)
           /\ End(4, RangeEnd(va, PAGE_SIZE)) = End(4, va)
           /\ End(4, RangeEnd(va, PAGE_SIZE)) < WORD - 1
           /\ Top = loops[1] /\ Top.level \in Levels /\ Top \in LoopType
           /\ Top.next \in Nat /\ Top.next \in Addrs
           /\ InBody => Top.next \in ToSpanEnd(va)
<1> DEFINE end == RangeEnd(va, PAGE_SIZE)
<1>1. va \in Nat
  BY DEF Addrs
<1>2. /\ Within(va, PAGE_SIZE) /\ End(4, va + PAGE_SIZE - 1) = End(4, va)
      /\ Bounded(loops, RoundDown(va), end)
  BY DEF OnePage
<1>3. /\ end \in Nat /\ va + PAGE_SIZE - 1 <= end
      /\ End(4, end) = End(4, va + PAGE_SIZE - 1)
  BY <1>1, <1>2, PageSizeFacts, RangeEndFacts
<1>4. RoundDown(va) \in Nat /\ RoundDown(va) <= va
  BY <1>1, PageOf
<1>5. End(4, end) < WORD - 1
  BY <1>2, <1>3 DEF Within
<1>6. va < end
  BY <1>1, <1>3, PageSizeFacts
<1>7. /\ Top = loops[1] /\ Top.level \in Levels /\ Top \in LoopType
      /\ Top.next \in Nat /\ Top.next \in Addrs /\ Top.end \in Nat
  BY <1>2, TopOf
<1>8. ASSUME InBody PROVE Top.next \in ToSpanEnd(va)
  <2>1. PICK c \in 1 .. 4 : c = Len(loops)
    BY <1>2 DEF Shape
  <2>2. RoundDown(va) <= Top.next /\ End(4, Top.end) <= End(4, end)
    BY <1>2, <1>7, <2>1 DEF Bounded
  <2>3. Top.end <= End(4, Top.end) /\ End(4, Top.end) \in Nat
    BY <1>7, EndBelowTop DEF Levels
  <2>4. End(4, end) \in Nat
    BY <1>3, EndBelowTop DEF Levels
  <2>5. Top.next < Top.end
    BY <1>8 DEF InBody
  <2>6. Top.next % PAGE_SIZE = 0
    BY <1>2, <1>7, <2>1 DEF Shape, Sound
  <2>7. End(4, va) = End(4, end)
    BY <1>2, <1>3
  <2> HIDE DEF end
  <2>8. Top.next <= End(4, va)
    BY <1>7, <2>2, <2>3, <2>4, <2>5, <2>7
  <2>9. End(4, va) \in Nat
    BY <2>4, <2>7
  <2>10. Top.next \in RoundDown(va) .. End(4, va)
    BY <1>4, <1>7, <2>2, <2>8, <2>9
  <2> QED
    BY <2>6, <2>10 DEF ToSpanEnd, PageStarts
<1> QED
  BY <1>1, <1>2, <1>3, <1>4, <1>5, <1>6, <1>7, <1>8

LookupsInside == \A r \in Ranges : OnePage(r[1])

\* Every directory entry of the span leads to page p and to no other.
Alike(E, va, p) ==
    \A a \in ToSpanEnd(va) :
        Present(WayOf(E, 2, a)) => Present(Mapping(E, a)) /\ Mapping(E, a).page = p

\* Page p is that of a directory entry of the span, or of the leaf behind one.
Answer(E, va, p) ==
    \E a \in ToSpanEnd(va) :
        /\ Present(WayOf(E, 2, a))
        /\ \/ WayOf(E, 2, a).page = p
           \/ Present(Mapping(E, a)) /\ Mapping(E, a).page = p

\* The entry found last is that of the page table the walk has come into.
JustEntered(l) == l[1].level = 1 /\ l[1].next = l[2].next

LookedUp(E, l, f, va) ==
    /\ Shape(E, l) /\ AllCertain(E, l)
    /\ OnePage(va)
    /\ Bounded(l, RoundDown(va), RangeEnd(va, PAGE_SIZE))
    /\ f # NULL => f \in Pages \X Slots
    /\ Present(Mapping(E, va)) /\ va < l[1].next => f # NULL
    /\ f # NULL => Answer(E, va, E[f[1]][f[2]].page)
    /\ \A p : Alike(E, va, p) /\ f # NULL => E[f[1]][f[2]].page = p \/ JustEntered(l)

LookupInv == Walking("lookup") => LookedUp(entries, loops, found, op.va)

\* Where the walk of page_lookup() is.
LEMMA LookupPlace ==
    ASSUME TypeInv, LookupInv, Walking("lookup")
    PROVE  /\ TypeOK /\ op.va \in Addrs /\ op.va \in Nat
           /\ RoundDown(op.va) \in Nat /\ RoundDown(op.va) <= op.va
           /\ RangeEnd(op.va, PAGE_SIZE) \in Nat
           /\ op.va < RangeEnd(op.va, PAGE_SIZE)
           /\ End(4, RangeEnd(op.va, PAGE_SIZE)) = End(4, op.va)
           /\ End(4, RangeEnd(op.va, PAGE_SIZE)) < WORD - 1
           /\ Top = loops[1] /\ Top.level \in Levels /\ Top \in LoopType
           /\ Top.next \in Nat /\ Top.next \in Addrs
           /\ InBody => Top.next \in ToSpanEnd(op.va)
<1>1. op.va \in Addrs /\ TypeOK
  <2>1. op \in LookupCall /\ TypeOK
    BY CallsByName DEF Walking, TypeInv, CallType
  <2> QED
    BY <2>1 DEF LookupCall
<1>2. /\ Shape(entries, loops) /\ OnePage(op.va)
      /\ Bounded(loops, RoundDown(op.va), RangeEnd(op.va, PAGE_SIZE))
  BY DEF LookupInv, LookedUp
<1> QED
  BY <1>1, <1>2, PagePlace

\* An iteration that keeps the last entry found, and the entry at hand if it is
\* one that maps a page, or leads to a page table.
LEMMA LookupIterates ==
    ASSUME TypeInv, LookupInv, Walking("lookup"), InBody, Proceed, op' = op,
           entries' = entries,
           \/ Top.level > 2 /\ found' = found
           \/ /\ Top.level \in {1, 2}
              /\ found' = IF Present(Entry) THEN <<Top.table, Slot>> ELSE found
    PROVE  LookupInv'
<1> DEFINE va == op.va
           base == RoundDown(op.va)
           end == RangeEnd(op.va, PAGE_SIZE)
<1> SUFFICES ASSUME Walking("lookup")' PROVE LookedUp(entries, loops', found', va)
  BY DEF LookupInv
<1>1. LookedUp(entries, loops, found, va)
  BY DEF LookupInv
<1>2. /\ TypeOK /\ va \in Addrs /\ va \in Nat /\ base \in Nat /\ end \in Nat
      /\ End(4, end) < WORD - 1
      /\ Top = loops[1] /\ Top.level \in Levels /\ Top \in LoopType
      /\ Top.next \in Nat /\ Top.next \in Addrs /\ Top.next \in ToSpanEnd(va)
      /\ pc' = "walk"
  BY LookupPlace DEF Walking
<1>3. /\ Shape(entries, loops) /\ AllCertain(entries, loops) /\ OnePage(va)
      /\ Bounded(loops, base, end)
  BY <1>1 DEF LookedUp
<1> HIDE DEF base, end, va
<1>4. End(Top.level, Top.next) < WORD - 1
  BY <1>2, <1>3, NoWrap
<1>5. /\ Shape(entries, loops')
      /\ (~ Descends(Entry) /\ Passes) \/ (Descends(Entry) /\ Enters)
  BY <1>2, <1>3, <1>4, Iterated DEF Entry
<1>6. Bounded(loops', base, end)
  BY <1>2, <1>3, <1>5, BoundedPasses, BoundedEnters
<1>7. AllCertain(entries, loops')
  BY <1>3, <1>5, CertainGoesOn DEF Descends, Entry
<1>8. /\ Slot = Index(Top.level, Top.next) /\ Top.next < Top.end
      /\ Entry = entries[Top.table][Slot] /\ End(Top.level, Top.next) \in Nat
  BY <1>2, EndBelowTop DEF InBody, Slot, Entry
<1>9. <<Top.table, Slot>> \in Pages \X Slots /\ <<Top.table, Slot>> # NULL
  BY <1>2, <1>8, IndexInTable, PageTableAssumption DEF LoopType
<1>10. found' # NULL => found' \in Pages \X Slots
  BY <1>1, <1>9 DEF LookedUp
<1>11. ASSUME Present(Mapping(entries, va)), va < loops'[1].next PROVE found' # NULL
  <2>1. CASE Descends(Entry) /\ Enters
    <3>1. loops'[1].next = Top.next
      BY <2>1 DEF Enters, Loop
    <3>2. found # NULL
      BY <1>1, <1>2, <1>11, <3>1 DEF LookedUp
    <3> QED
      BY <1>9, <3>2
  <2>2. CASE ~ Descends(Entry) /\ Passes
    <3>1. loops'[1].next = End(Top.level, Top.next) + 1
      BY <1>2, <2>2 DEF Passes, LoopType
    <3>2. CASE va < Top.next
      <4>1. found # NULL
        BY <1>1, <1>2, <1>11, <3>2 DEF LookedUp
      <4> QED
        BY <1>9, <4>1
    <3>3. CASE Top.next <= va
      <4>1. va <= End(Top.level, Top.next)
        BY <1>2, <1>8, <1>11, <3>1
      <4>2. End(Top.level, va) = End(Top.level, Top.next)
        BY <1>2, <3>3, <4>1, SameEntry
      <4>3. ~ (Top.level > 1 /\ Present(Entry) /\ ~ Huge(Entry))
        BY <2>2 DEF Descends
      <4>4. Present(Entry) /\ (Top.level = 1 \/ Top.level = 2)
        BY <1>2, <1>3, <1>8, <1>11, <4>2, <4>3, MappedHere
      <4> QED
        BY <1>9, <4>4
    <3> QED
      BY <1>2, <3>2, <3>3
  <2> QED
    BY <1>5, <2>1, <2>2
<1>12. ASSUME NEW p, Alike(entries, va, p), found' # NULL
       PROVE  entries[found'[1]][found'[2]].page = p \/ JustEntered(loops')
  <2>1. /\ WayOf(entries, Top.level, Top.next) = Entry
        /\ Top.level = 1 => /\ Present(WayOf(entries, 2, Top.next))
                            /\ Mapping(entries, Top.next) = Entry
    BY <1>2, <1>3, <1>8, ExactEntry
  <2>2. Present(WayOf(entries, 2, Top.next)) =>
            Present(Mapping(entries, Top.next)) /\ Mapping(entries, Top.next).page = p
    BY <1>2, <1>12 DEF Alike
  <2>3. CASE Top.level = 1
    <3>1. Present(Entry) /\ Entry.page = p
      BY <2>1, <2>2, <2>3
    <3>2. found' = <<Top.table, Slot>>
      BY <2>3, <3>1
    <3> QED
      BY <1>8, <3>1, <3>2
  <2>4. CASE Top.level = 2 /\ Present(Entry)
    <3>1. found' = <<Top.table, Slot>>
      BY <2>4
    <3>2. CASE Huge(Entry)
      <4>1. Mapping(entries, Top.next) = Entry
        BY <2>1, <2>4, <3>2 DEF Mapping, WayOf
      <4>2. Entry.page = p
        BY <2>1, <2>2, <2>4, <4>1
      <4> QED
        BY <1>8, <3>1, <4>2
    <3>3. CASE ~ Huge(Entry)
      <4>1. Descends(Entry)
        BY <2>4, <3>3 DEF Descends
      <4>2. Enters
        BY <1>5, <4>1
      <4>3. loops'[1].level = 1 /\ loops'[1].next = Top.next
        BY <2>4, <4>2 DEF Enters, Loop
      <4>4. PICK c \in 1 .. 4 : c = Len(loops)
        BY <1>3 DEF Shape
      <4>5. loops'[1 + 1] = loops[1]
        BY <4>2, <4>4 DEF Enters
      <4> QED
        BY <1>2, <4>3, <4>5 DEF JustEntered
    <3> QED
      BY <3>2, <3>3
  <2>5. CASE Top.level > 2 \/ (Top.level = 2 /\ ~ Present(Entry))
    <3>1. found' = found /\ Top.level # 1
      BY <2>5
    <3>2. ~ JustEntered(loops)
      BY <1>2, <3>1 DEF JustEntered
    <3> QED
      BY <1>1, <1>12, <3>1, <3>2 DEF LookedUp
  <2> QED
    BY <1>2, <2>3, <2>4, <2>5 DEF Levels
<1>13. ASSUME found' # NULL PROVE Answer(entries, va, entries[found'[1]][found'[2]].page)
  <2>1. /\ WayOf(entries, Top.level, Top.next) = Entry
        /\ Top.level = 1 => /\ Present(WayOf(entries, 2, Top.next))
                            /\ Mapping(entries, Top.next) = Entry
    BY <1>2, <1>3, <1>8, ExactEntry
  <2>2. CASE found' = found
    BY <1>1, <1>13, <2>2 DEF LookedUp
  <2>3. CASE found' = <<Top.table, Slot>> /\ Present(Entry) /\ Top.level \in {1, 2}
    <3>1. entries[found'[1]][found'[2]].page = Entry.page
      BY <1>8, <2>3
    <3>2. /\ Present(WayOf(entries, 2, Top.next))
          /\ \/ WayOf(entries, 2, Top.next).page = Entry.page
             \/ /\ Present(Mapping(entries, Top.next))
                /\ Mapping(entries, Top.next).page = Entry.page
      BY <2>1, <2>3
    <3> QED
      BY <1>2, <3>1, <3>2 DEF Answer
  <2> QED
    BY <2>2, <2>3
<1> QED
  BY <1>3, <1>5, <1>6, <1>7, <1>10, <1>11, <1>12, <1>13 DEF LookedUp, base, end, va

\* A loop of the walk is left: the walk is behind the page table it came into.
LEMMA LookupLeaves ==
    ASSUME TypeInv, LookupInv, Walking("lookup"), LeaveLoop
    PROVE  LookupInv'
<1> DEFINE va == op.va
           base == RoundDown(op.va)
           end == RangeEnd(op.va, PAGE_SIZE)
<1>1. /\ LookedUp(entries, loops, found, va)
      /\ op' = op /\ entries' = entries /\ found' = found /\ Len(loops) > 1
  BY DEF LookupInv, LeaveLoop, memory
<1>2. base \in Nat /\ end \in Nat /\ End(4, end) < WORD - 1 /\ Top = loops[1]
  BY LookupPlace
<1>3. /\ Shape(entries, loops) /\ AllCertain(entries, loops) /\ OnePage(va)
      /\ Bounded(loops, base, end)
  BY <1>1 DEF LookedUp
<1> HIDE DEF base, end, va
<1>4. Top.end < WORD - 1
  BY <1>2, <1>3, NoWrap
<1>5. Shape(entries, loops') /\ Leaves
  BY <1>1, <1>3, <1>4, LeftBehind
<1>6. Bounded(loops', base, end) /\ AllCertain(entries, loops')
  BY <1>1, <1>2, <1>3, <1>5, BoundedLeaves, CertainLeaves
<1>7. PICK c \in 2 .. 4 : c = Len(loops)
  BY <1>1, <1>3 DEF Shape
<1>8. loops[2] \in LoopType
  BY <1>3, <1>7 DEF Shape, Stacked
<1>9. loops'[1].next = loops[1].next
  BY <1>2, <1>5, <1>8 DEF Leaves, LoopType
<1>10. ~ JustEntered(loops)
  <2>1. loops[2].level \in Levels /\ loops[2].next \in Nat
    BY <1>8 DEF LoopType, Addrs
  <2>2. loops[2].next <= End(loops[2].level, loops[2].next)
        /\ End(loops[2].level, loops[2].next) \in Nat
    BY <2>1, EndBelowTop
  <2>3. loops[1].next = End(loops[2].level, loops[2].next) + 1
    BY <1>2, <1>5 DEF Leaves
  <2> QED
    BY <2>1, <2>2, <2>3 DEF JustEntered
<1>11. LookedUp(entries, loops', found, va)
  BY <1>1, <1>3, <1>5, <1>6, <1>9, <1>10 DEF LookedUp, base, end, va
<1> QED
  BY <1>1, <1>11 DEF LookupInv, va

LEMMA LookupWalks ==
    ASSUME TypeInv, LookupInv, Walk, op.name = "lookup"
    PROVE  LookupInv'
<1>0. Walking("lookup")
  BY CallGoesOn DEF Walking
<1>1. CASE LookupEntry
  <2>1. In("lookup", {1, 2}) /\ Proceed /\ op' = op /\ entries' = entries
    BY <1>1 DEF LookupEntry, memory
  <2>2. InBody /\ Top.level \in {1, 2}
    BY <2>1, InType
  <2> QED
    BY <1>0, <1>1, <2>1, <2>2, LookupIterates DEF LookupEntry
<1>2. CASE Pass
  <2>1. In("lookup", {3, 4}) /\ Proceed /\ op' = op /\ entries' = entries /\ found' = found
    BY <1>0, <1>2 DEF Pass, In, memory, Walking
  <2>2. InBody /\ Top.level \in {3, 4}
    BY <2>1, InType
  <2>3. Top.level > 2
    BY <2>2
  <2> QED
    BY <1>0, <2>1, <2>2, <2>3, LookupIterates
<1>3. CASE LeaveLoop
  BY <1>0, <1>3, LookupLeaves
<1>4. CASE LookupDone \/ OtherDone \/ NoSuchPage \/ FreeAgain \/ NoTable
  BY <1>0, <1>4 DEF LookupDone, OtherDone, NoSuchPage, FreeAgain, NoTable, LookupInv,
              Walking
<1>5. CASE \/ InsertPte \/ InsertPde \/ RemovePte \/ RemovePde \/ BootMapPte
           \/ BootMapPde \/ DumpEntry
  BY <1>0, <1>5 DEF InsertPte, InsertPde, RemovePte, RemovePde, BootMapPte, BootMapPde,
              DumpEntry, In, Walking
<1> QED
  BY <1>1, <1>2, <1>3, <1>4, <1>5 DEF Walk

\* The walk is over when it has passed va.
LEMMA LookupEnds ==
    ASSUME TypeInv, LookupInv, Walking("lookup"), LookupDone
    PROVE  LookupFinds'
<1> DEFINE va == op.va
           e == entries[found[1]][found[2]]
<1>1. /\ op' = op /\ entries' = entries /\ Len(loops) = 1 /\ ~ InBody
      /\ LookedUp(entries, loops, found, va)
  BY DEF LookupDone, WalkDone, memory, LookupInv
<1>2. va < loops[1].next /\ loops[1].level = 4
  <2>1. /\ va \in Nat /\ RangeEnd(va, PAGE_SIZE) \in Nat /\ va < RangeEnd(va, PAGE_SIZE)
        /\ Top = loops[1] /\ Top.next \in Nat
    BY LookupPlace
  <2>2. Top.level = 4 /\ loops # <<>>
    BY <1>1, TopOf DEF LookedUp
  <2>3. Top.end = RangeEnd(va, PAGE_SIZE)
    BY <1>1, <2>1 DEF LookedUp, Bounded
  <2>4. ~ (Top.next < Top.end)
    BY <1>1, <2>2 DEF InBody
  <2> HIDE DEF va
  <2> QED
    BY <2>1, <2>2, <2>3, <2>4
<1>3. ~ JustEntered(loops)
  BY <1>2 DEF JustEntered
<1>4. Leaf(va)' = Mapping(entries, va') /\ va' = va
  BY <1>1, MappingIsLeaf
<1>5. SUFFICES ASSUME (Returned("lookup"))'
              PROVE  /\ Present(Mapping(entries, va)) => ret' # NULL
                     /\ ret' # NULL => Answer(entries, va, ret')
                     /\ /\ Present(Mapping(entries, va))
                        /\ Alike(entries, va, Mapping(entries, va).page)
                        => ret' = Mapping(entries, va).page
  <2>1. (\A a \in ToSpanEnd(va)' :
            Present(WayOf(entries', 2, a)) => Present(Mapping(entries', a))
                    /\ Mapping(entries', a).page = Mapping(entries', va).page)
        <=> Alike(entries, va, Mapping(entries, va).page)
    BY <1>1 DEF Alike, ToSpanEnd, PageStarts, RoundDown, End
  <2>2. /\ \A a : Leaf(a)' = Mapping(entries', a) /\ Pde(a)' = WayOf(entries', 2, a)
        /\ Leaf(va)' = Mapping(entries, va)
    BY <1>1, MappingIsLeaf
  <2>3. (\E a \in ToSpanEnd(va)' :
            /\ Present(WayOf(entries', 2, a))
            /\ \/ WayOf(entries', 2, a).page = ret'
               \/ Present(Mapping(entries', a)) /\ Mapping(entries', a).page = ret')
        <=> Answer(entries, va, ret')
    BY <1>1 DEF Answer, ToSpanEnd, PageStarts, RoundDown, End
  <2> QED
    BY <1>1, <2>1, <2>2, <2>3 DEF LookupFinds, Maps, Present
<1>6. Present(Mapping(entries, va)) => found # NULL
  BY <1>1, <1>2 DEF LookedUp
<1>7. found # NULL => ret' = e.page /\ e.page \in Pages
  BY <1>5 DEF LookupDone, Returned
<1>8. found = NULL => ret' = NULL
  BY <1>5 DEF LookupDone, Returned
<1>9. found # NULL => ret' # NULL
  BY <1>7, PageTableAssumption
<1>10. ret' # NULL => Answer(entries, va, ret')
  BY <1>1, <1>7, <1>8 DEF LookedUp
<1>11. ASSUME Present(Mapping(entries, va)), Alike(entries, va, Mapping(entries, va).page)
       PROVE  ret' = Mapping(entries, va).page
  BY <1>1, <1>3, <1>6, <1>7, <1>11 DEF LookedUp
<1> QED
  BY <1>6, <1>9, <1>10, <1>11

LEMMA LookupStep ==
    ASSUME TypeInv, LookupInv, LookupFinds, LookupsInside, [Next]_vars
    PROVE  LookupInv' /\ LookupFinds'
<1>1. CASE Walk /\ op.name = "lookup"
  <2>1. LookupInv'
    BY <1>1, LookupWalks
  <2>2. Walking("lookup") /\ op'.name = op.name /\ (pc' = "idle" => LookupDone)
    BY <1>1, CallGoesOn DEF Walking, OtherDone
  <2>3. LookupFinds'
    BY <2>2, LookupEnds DEF LookupFinds, Returned
  <2> QED
    BY <2>1, <2>3
<1>2. CASE Walk /\ op.name # "lookup"
  <2>1. op'.name # "lookup"
    BY <1>2, CallGoesOn
  <2> QED
    BY <2>1 DEF LookupInv, Walking, LookupFinds, Returned
<1>3. CASE UNCHANGED <<entries, pp_ref, free, op, loops, found, region, lines, ret, pc>>
  <2>1. LookupInv'
    BY <1>3 DEF LookupInv, Walking
  <2>2. LookupFinds'
    <3>1. \A a : Leaf(a)' = Leaf(a) /\ Pde(a)' = Pde(a)
      BY <1>3, MappingIsLeaf
    <3>2. (op.va)' = op.va /\ Leaf(op.va)' = Mapping(entries', (op.va)')
          /\ Leaf(op.va) = Mapping(entries, op.va)
      BY <1>3, MappingIsLeaf
    <3> QED
      BY <1>3, <3>1, <3>2 DEF LookupFinds, Returned, ToSpanEnd, PageStarts, RoundDown,
                              End, Present, Maps
  <2> QED
    BY <2>1, <2>2
<1>4. CASE op'.name \in {"insert", "boot_map"}
  BY <1>4 DEF LookupInv, Walking, LookupFinds, Returned
<1>5. ASSUME NEW r \in Ranges, PageLookup(r[1])
      PROVE  LookupInv' /\ LookupFinds'
  <2>1. r[1] \in Addrs /\ OnePage(r[1])
    BY PageTableAssumption DEF LookupsInside
  <2>2. op'.va = r[1] /\ WalkPageRange(r[1], r[1] + PAGE_SIZE) /\ found' = NULL
    BY <1>5 DEF PageLookup, WalkPageRange, WalkFrom
  <2>3. /\ Shape(entries', loops') /\ pc' = "walk"
        /\ Bounded(loops', RoundDown(r[1]), RangeEnd(r[1], PAGE_SIZE))
        /\ loops'[1].next = RoundDown(r[1]) /\ Len(loops') = 1 /\ loops'[1].level = 4
    BY <2>1, <2>2, PageSizeFacts, RangeBegins DEF OnePage
  <2>4. AllCertain(entries', loops')
    BY <2>3 DEF AllCertain, Certain
  <2>5. ~ (r[1] < loops'[1].next)
    BY <2>1, <2>3, PageOf DEF Addrs
  <2>6. LookedUp(entries', loops', found', r[1])
    BY <2>1, <2>2, <2>3, <2>4, <2>5 DEF LookedUp
  <2> QED
    BY <2>2, <2>3, <2>6 DEF LookupInv, LookupFinds, Returned
<1>6. ASSUME NEW r \in Ranges, UnmapPageRange(r[1], r[2])
      PROVE  LookupInv' /\ LookupFinds'
  BY <1>6 DEF UnmapPageRange, LookupInv, Walking, LookupFinds, Returned
<1>7. ASSUME NEW mask \in DumpMasks, DumpPageTables(mask)
      PROVE  LookupInv' /\ LookupFinds'
  BY <1>7 DEF DumpPageTables, LookupInv, Walking, LookupFinds, Returned
<1> QED
  BY <1>1, <1>2, <1>3, <1>4, <1>5, <1>6, <1>7, CallBegins

\* page_lookup() returns NULL only for a page that is not mapped.  What it returns
\* is nothing but the page of an entry of the span, whatever memory holds: of a
\* leaf, or of a directory entry, which is no mapping at all.  It is the page
\* mapped at va if no directory entry of the span leads to another, and nothing
\* is said of which of the others it is if one does.
THEOREM LookupFindsHolds ==
    ASSUME LookupsInside
    PROVE  Spec => []LookupFinds
<1>1. Init => TypeInv /\ LookupInv /\ LookupFinds
  BY InitType DEF Init, LookupInv, Walking, LookupFinds, Returned
<1>2. TypeInv /\ LookupInv /\ LookupFinds /\ [Next]_vars
          => TypeInv' /\ LookupInv' /\ LookupFinds'
  BY TypeStep, LookupStep
<1> QED
  BY <1>1, <1>2, PTL DEF Spec

-----------------------------------------------------------------------------
(* dump_page_tables() *)

Pieces == [base : Nat, end : Nat, flags : SUBSET Flags]

\* What a dump that has come to address n has printed, and is about to.
Truthful(E, mask, R) ==
    \A r \in R : \A a \in PageStarts(r.base, r.end) :
        Present(Mapping(E, a)) /\ r.flags = Mapping(E, a).flags \cap mask

Joined(R) == \A r, s \in R : s.base = r.end + 1 => r.flags # s.flags

Told(E, n, R) ==
    \A a \in PageStarts(0, n - 1) :
        Present(Mapping(E, a)) => \E r \in R : r.base <= a /\ a <= r.end

DumpedTo(E, n, mask, rg, ls) ==
    /\ rg \in Pieces /\ ls \subseteq Pieces
    /\ rg.flags = {} \/ (Present(rg) /\ rg.end = n - 1 /\ rg.base < n)
    /\ \A r \in ls : r.base <= r.end /\ r.end + 1 < n
    /\ Truthful(E, mask, ls \cup Printed(rg))
    /\ Joined(ls \cup Printed(rg))
    /\ Told(E, n, ls \cup Printed(rg))

\* The region at hand goes on to the last address of the entry.
LEMMA RegionGoesOn ==
    ASSUME NEW E, NEW n \in Nat, NEW last \in Nat, n <= last, NEW mask, NEW rg, NEW ls,
           DumpedTo(E, n, mask, rg, ls), "PRESENT" \in rg.flags,
           \A a \in n .. last :
               Present(Mapping(E, a)) /\ rg.flags = Mapping(E, a).flags \cap mask
    PROVE  DumpedTo(E, last + 1, mask, [rg EXCEPT !.end = last], ls)
<1> DEFINE new == [rg EXCEPT !.end = last]
<1>1. /\ rg \in Pieces /\ ls \subseteq Pieces
      /\ Present(rg) /\ rg.end = n - 1 /\ rg.base < n
      /\ \A r \in ls : r.base <= r.end /\ r.end + 1 < n
      /\ Truthful(E, mask, ls \cup {rg}) /\ Joined(ls \cup {rg}) /\ Told(E, n, ls \cup {rg})
  BY DEF DumpedTo, Printed, Present
<1>2. /\ new \in Pieces /\ new.base = rg.base /\ new.end = last /\ new.flags = rg.flags
      /\ Printed(new) = {new}
  BY <1>1 DEF Pieces, Printed, Present
<1>3. rg.base \in Nat /\ \A r \in ls : r.base \in Nat /\ r.end \in Nat
  BY <1>1 DEF Pieces
<1> HIDE DEF new
<1>4. Truthful(E, mask, ls \cup {new})
  <2>1. ASSUME NEW a \in PageStarts(new.base, new.end)
        PROVE  Present(Mapping(E, a)) /\ new.flags = Mapping(E, a).flags \cap mask
    <3>1. a \in rg.base .. last /\ a % PAGE_SIZE = 0
      BY <1>2 DEF PageStarts
    <3>2. CASE a < n
      <4>1. a \in PageStarts(rg.base, rg.end)
        BY <1>1, <1>3, <3>1, <3>2 DEF PageStarts
      <4> QED
        BY <1>1, <1>2, <4>1 DEF Truthful
    <3>3. CASE n <= a
      BY <1>2, <1>3, <3>1, <3>3
    <3> QED
      BY <1>3, <3>1, <3>2, <3>3
  <2> QED
    BY <1>1, <2>1 DEF Truthful
<1>5. Joined(ls \cup {new})
  <2> SUFFICES ASSUME NEW r \in ls \cup {new}, NEW s \in ls \cup {new}, s.base = r.end + 1
               PROVE  r.flags # s.flags
    BY DEF Joined
  <2>1. CASE r \in ls /\ s \in ls
    BY <1>1, <2>1 DEF Joined
  <2>2. CASE r \in ls /\ s = new
    BY <1>1, <1>2, <2>2 DEF Joined
  <2>3. CASE r = new /\ s \in ls
    BY <1>1, <1>2, <1>3, <2>3
  <2>4. CASE r = new /\ s = new
    BY <1>1, <1>2, <1>3, <2>4
  <2> QED
    BY <2>1, <2>2, <2>3, <2>4
<1>6. Told(E, last + 1, ls \cup {new})
  <2> SUFFICES ASSUME NEW a \in PageStarts(0, last), Present(Mapping(E, a))
               PROVE  \E r \in ls \cup {new} : r.base <= a /\ a <= r.end
    <3>1. (last + 1) - 1 = last
      OBVIOUS
    <3> QED
      BY <3>1 DEF Told
  <2>1. a \in Nat /\ a <= last /\ a % PAGE_SIZE = 0
    BY DEF PageStarts
  <2>2. CASE n <= a
    BY <1>1, <1>2, <1>3, <2>1, <2>2
  <2>3. CASE a < n
    <3>1. a \in PageStarts(0, n - 1)
      BY <2>1, <2>3 DEF PageStarts
    <3>2. PICK r \in ls \cup {rg} : r.base <= a /\ a <= r.end
      BY <1>1, <3>1 DEF Told
    <3>3. CASE r \in ls
      BY <3>2, <3>3
    <3>4. CASE r = rg
      BY <1>2, <2>1, <3>2, <3>4
    <3> QED
      BY <3>2, <3>3, <3>4
  <2> QED
    BY <2>1, <2>2, <2>3
<1>7. /\ new.end = (last + 1) - 1 /\ new.base < last + 1
      /\ \A r \in ls : r.base <= r.end /\ r.end + 1 < last + 1
  BY <1>1, <1>2, <1>3
<1>8. Present(new)
  BY <1>1, <1>2 DEF Present
<1>9. DumpedTo(E, last + 1, mask, new, ls)
  BY <1>1, <1>2, <1>4, <1>5, <1>6, <1>7, <1>8 DEF DumpedTo
<1> QED
  BY <1>9 DEF new

\* The lines printed by the time the region rg is, all of them below n.
LinesBelow(n, rg, ls) ==
    /\ ls \cup Printed(rg) \subseteq Pieces
    /\ \A r \in ls \cup Printed(rg) :
           /\ r.base \in Nat /\ r.end \in Nat /\ r.base <= r.end /\ r.end < n
           /\ r \in ls => r.end + 1 < n
           /\ r \notin ls => r = rg

\* A region is over: what was about to be printed is.
LEMMA RegionOver ==
    ASSUME NEW E, NEW n \in Nat, NEW mask, NEW rg, NEW ls, DumpedTo(E, n, mask, rg, ls)
    PROVE  LinesBelow(n, rg, ls)
<1>1. /\ rg \in Pieces /\ ls \subseteq Pieces
      /\ rg.flags = {} \/ (Present(rg) /\ rg.end = n - 1 /\ rg.base < n)
      /\ \A r \in ls : r.base <= r.end /\ r.end + 1 < n
  BY DEF DumpedTo
<1>2. /\ Printed(rg) \subseteq {rg}
      /\ Printed(rg) # {} => rg.end = n - 1 /\ rg.base < n
  BY <1>1 DEF Printed, Present
<1>3. ASSUME NEW r \in ls
      PROVE  r.base \in Nat /\ r.end \in Nat /\ r.base <= r.end /\ r.end < n /\ r.end + 1 < n
  <2>1. r.base \in Nat /\ r.end \in Nat
    BY <1>1 DEF Pieces
  <2> QED
    BY <1>1, <2>1
<1>4. ASSUME Printed(rg) # {}
      PROVE  rg.base \in Nat /\ rg.end \in Nat /\ rg.base <= rg.end /\ rg.end < n
  <2>1. rg.base \in Nat /\ rg.end \in Nat
    BY <1>1 DEF Pieces
  <2> QED
    BY <1>2, <1>4, <2>1
<1> QED
  BY <1>1, <1>2, <1>3, <1>4 DEF LinesBelow

\* The entry has other flags than the region at hand: it begins another.
LEMMA RegionBegins ==
    ASSUME NEW E, NEW n \in Nat, NEW last \in Nat, n <= last, NEW mask, NEW rg, NEW ls,
           DumpedTo(E, n, mask, rg, ls),
           NEW F \in SUBSET Flags, "PRESENT" \in F, F # rg.flags,
           \A a \in n .. last :
               Present(Mapping(E, a)) /\ F = Mapping(E, a).flags \cap mask
    PROVE  DumpedTo(E, last + 1, mask, [base |-> n, end |-> last, flags |-> F],
                    ls \cup Printed(rg))
<1> DEFINE new == [base |-> n, end |-> last, flags |-> F]
           old == ls \cup Printed(rg)
<1>1. /\ Truthful(E, mask, old) /\ Joined(old) /\ Told(E, n, old)
  BY DEF DumpedTo
<1>2. /\ old \subseteq Pieces
      /\ \A r \in old : /\ r.base \in Nat /\ r.end \in Nat /\ r.base <= r.end /\ r.end < n
                        /\ r.end + 1 < n \/ r.flags = rg.flags
  <2>1. LinesBelow(n, rg, ls)
    BY RegionOver
  <2> QED
    BY <2>1 DEF LinesBelow
<1>3. /\ new \in Pieces /\ new.base = n /\ new.end = last /\ new.flags = F
      /\ Present(new) /\ Printed(new) = {new}
  BY DEF Pieces, Printed, Present
<1> HIDE DEF new, old
<1>4. Truthful(E, mask, old \cup {new})
  <2>1. ASSUME NEW a \in PageStarts(new.base, new.end)
        PROVE  Present(Mapping(E, a)) /\ new.flags = Mapping(E, a).flags \cap mask
    BY <1>3 DEF PageStarts
  <2> QED
    BY <1>1, <2>1 DEF Truthful
<1>5. Joined(old \cup {new})
  <2> SUFFICES ASSUME NEW r \in old \cup {new}, NEW s \in old \cup {new},
                      s.base = r.end + 1
               PROVE  r.flags # s.flags
    BY DEF Joined
  <2>1. CASE r \in old /\ s \in old
    BY <1>1, <2>1 DEF Joined
  <2>2. CASE r \in old /\ s = new
    BY <1>2, <1>3, <2>2
  <2>3. CASE r = new /\ s \in old
    BY <1>2, <1>3, <2>3
  <2>4. CASE r = new /\ s = new
    BY <1>3, <2>4
  <2> QED
    BY <2>1, <2>2, <2>3, <2>4
<1>6. Told(E, last + 1, old \cup {new})
  <2> SUFFICES ASSUME NEW a \in PageStarts(0, last), Present(Mapping(E, a))
               PROVE  \E r \in old \cup {new} : r.base <= a /\ a <= r.end
    <3>1. (last + 1) - 1 = last
      OBVIOUS
    <3> QED
      BY <3>1 DEF Told
  <2>1. a \in Nat /\ a <= last /\ a % PAGE_SIZE = 0
    BY DEF PageStarts
  <2>2. CASE n <= a
    BY <1>3, <2>1, <2>2
  <2>3. CASE a < n
    <3>1. a \in PageStarts(0, n - 1)
      BY <2>1, <2>3 DEF PageStarts
    <3> QED
      BY <1>1, <3>1 DEF Told
  <2> QED
    BY <2>1, <2>2, <2>3
<1>7. /\ new.end = (last + 1) - 1 /\ new.base < last + 1
      /\ \A r \in old : r.base <= r.end /\ r.end + 1 < last + 1
  BY <1>2, <1>3
<1>8. DumpedTo(E, last + 1, mask, new, old)
  BY <1>2, <1>3, <1>4, <1>5, <1>6, <1>7 DEF DumpedTo
<1> QED
  BY <1>8 DEF new, old

\* Nothing is mapped at the entry: the region at hand is printed and closed.
LEMMA RegionEnds ==
    ASSUME NEW E, NEW n \in Nat, NEW last \in Nat, n <= last, NEW mask, NEW rg, NEW ls,
           DumpedTo(E, n, mask, rg, ls), NEW new \in Pieces, new.flags = {},
           \A a \in n .. last : ~ Present(Mapping(E, a))
    PROVE  DumpedTo(E, last + 1, mask, new, ls \cup Printed(rg))
<1> DEFINE old == ls \cup Printed(rg)
<1>1. /\ Truthful(E, mask, old) /\ Joined(old) /\ Told(E, n, old)
  BY DEF DumpedTo
<1>2. /\ old \subseteq Pieces
      /\ \A r \in old : r.base \in Nat /\ r.end \in Nat /\ r.base <= r.end /\ r.end < n
  BY RegionOver DEF LinesBelow
<1>3. old \cup Printed(new) = old
  BY DEF Printed, Present
<1> HIDE DEF old
<1>4. Told(E, last + 1, old)
  <2> SUFFICES ASSUME NEW a \in PageStarts(0, last), Present(Mapping(E, a))
               PROVE  \E r \in old : r.base <= a /\ a <= r.end
    <3>1. (last + 1) - 1 = last
      OBVIOUS
    <3> QED
      BY <3>1 DEF Told
  <2>1. a \in PageStarts(0, n - 1)
    BY DEF PageStarts
  <2> QED
    BY <1>1, <2>1 DEF Told
<1>5. \A r \in old : r.base <= r.end /\ r.end + 1 < last + 1
  BY <1>2
<1>6. DumpedTo(E, last + 1, mask, new, old)
  BY <1>1, <1>2, <1>3, <1>4, <1>5 DEF DumpedTo
<1> QED
  BY <1>6 DEF old
\* No entry above the page directories is a huge page.
NoHugeAbove ==
    Walking("dump") /\ InBody /\ Top.level > 2 => ~ (Present(Entry) /\ Huge(Entry))

Dumping(E, l, mask, rg, ls) ==
    /\ Shape(E, l) /\ AllCertain(E, l)
    /\ "PRESENT" \in mask
    /\ DumpedTo(E, l[1].next, mask, rg, ls)

DumpInv ==
    Walking("dump") /\ ~ op.around => Dumping(entries, loops, op.mask, region, lines)

\* What one entry does to the region at hand and to what is printed.
LEMMA DumpsEntry ==
    ASSUME NEW n \in Nat, NEW last \in Nat, n <= last, n = Top.next,
           last = End(Top.level, Top.next),
           DumpedTo(entries, n, op.mask, region, lines), "PRESENT" \in op.mask,
           Entry.flags \in SUBSET Flags, DumpEntry, ~ Descends(Entry),
           Shows \/ ~ Present(Entry),
           Shows /\ Present(Entry) => \A a \in n .. last : Mapping(entries, a) = Entry,
           ~ Present(Entry) => \A a \in n .. last : ~ Present(Mapping(entries, a))
    PROVE  DumpedTo(entries, last + 1, op.mask, region', lines')
<1> DEFINE F == Entry.flags \cap op.mask
           new == [base |-> n, end |-> last, flags |-> F]
           r == IF Shows THEN Extended(region) ELSE region
<1>1. /\ region' = (IF ~ Present(Entry) THEN Ended(r) ELSE r)
      /\ lines' = lines
            \cup (IF Shows /\ r.flags # region.flags THEN Printed(region) ELSE {})
            \cup (IF ~ Present(Entry) THEN Printed(r) ELSE {})
  BY DEF DumpEntry
<1>2. /\ region \in Pieces /\ F \in SUBSET Flags /\ new \in Pieces /\ new.flags = F
      /\ region.flags = {} \/ Present(region)
  BY DEF DumpedTo, Pieces
<1>3. Extended(region) =
          IF F = region.flags THEN [region EXCEPT !.end = last] ELSE new
  BY DEF Extended
<1>4. [region EXCEPT !.end = last] \in Pieces
      /\ [region EXCEPT !.end = last].flags = region.flags
  BY <1>2 DEF Pieces
<1>5. CASE Shows /\ Present(Entry)
  <2>1. /\ "PRESENT" \in F
        /\ \A a \in n .. last :
               Present(Mapping(entries, a)) /\ F = Mapping(entries, a).flags \cap op.mask
    BY <1>5 DEF Present
  <2>2. CASE F = region.flags
    <3>1. r = [region EXCEPT !.end = last]
      BY <1>3, <1>5, <2>2
    <3>2. region' = [region EXCEPT !.end = last] /\ lines' = lines
      BY <1>1, <1>4, <1>5, <3>1
    <3> HIDE DEF F
    <3> QED
      BY <2>1, <2>2, <3>2, RegionGoesOn
  <2>3. CASE F # region.flags
    <3>1. r = new
      BY <1>3, <1>5, <2>3
    <3>2. region' = new /\ lines' = lines \cup Printed(region)
      BY <1>1, <1>2, <1>5, <2>3, <3>1
    <3> HIDE DEF F
    <3> QED
      BY <1>2, <2>1, <2>3, <3>2, RegionBegins
  <2> QED
    BY <2>2, <2>3
<1>6. CASE ~ Present(Entry)
  <2>1. ~ ("PRESENT" \in F)
    BY <1>6 DEF Present
  <2>2. r \in Pieces
    BY <1>2, <1>3, <1>4
  <2>3. region' \in Pieces /\ region'.flags = {}
    BY <1>1, <1>6, <2>2 DEF Ended, Pieces
  <2>4. lines' = lines \cup Printed(region)
    <3>1. CASE Shows /\ F = region.flags
      <4>1. r.flags = region.flags
        BY <1>3, <1>4, <3>1
      <4>2. Printed(r) = {} /\ Printed(region) = {}
        BY <2>1, <3>1, <4>1 DEF Printed, Present
      <4> QED
        BY <1>1, <4>1, <4>2
    <3>2. CASE Shows /\ F # region.flags
      <4>1. r = new
        BY <1>3, <3>2
      <4>2. Printed(r) = {} /\ r.flags # region.flags
        BY <1>2, <2>1, <3>2, <4>1 DEF Printed, Present
      <4> QED
        BY <1>1, <1>6, <3>2, <4>2
    <3>3. CASE ~ Shows
      BY <1>1, <1>6, <3>3
    <3> QED
      BY <3>1, <3>2, <3>3
  <2> QED
    BY <1>6, <2>3, <2>4, RegionEnds
<1> QED
  BY <1>5, <1>6

LEMMA DumpPlace ==
    ASSUME TypeInv, DumpInv, Walking("dump"), ~ op.around
    PROVE  /\ TypeOK /\ op \in DumpCall
           /\ Dumping(entries, loops, op.mask, region, lines)
           /\ Top = loops[1] /\ Top.level \in Levels /\ Top \in LoopType
           /\ Top.next \in Nat /\ Top.next \in Addrs
<1>1. op \in DumpCall /\ TypeOK
  BY CallsByName DEF Walking, TypeInv, CallType
<1>2. Dumping(entries, loops, op.mask, region, lines)
  BY DEF DumpInv
<1> QED
  BY <1>1, <1>2, TopOf DEF Dumping

\* An iteration that does not pass the last address.
LEMMA DumpIterates ==
    ASSUME TypeInv, DumpInv, NoHugeAbove, Walking("dump"), DumpEntry
    PROVE  DumpInv'
<1> SUFFICES ASSUME Walking("dump")', ~ op'.around
             PROVE  Dumping(entries', loops', op'.mask, region', lines')
  BY DEF DumpInv
<1> DEFINE k == Top.level
           n == Top.next
           last == End(Top.level, Top.next)
<1>1. InBody /\ Proceed /\ entries' = entries /\ pc' = "walk"
  BY DEF DumpEntry, In, memory, Walking
<1>2. /\ op'.mask = op.mask /\ ~ op.around
      /\ last = WORD - 1 => Descends(Entry)
  <2>1. op \in DumpCall
    BY CallsByName DEF Walking, TypeInv, CallType
  <2>2. op' = [op EXCEPT !.around = @ \/ (last = WORD - 1 /\ ~ Descends(Entry))]
    BY DEF DumpEntry
  <2>3. op'.mask = op.mask /\ (op'.around <=> op.around \/ (last = WORD - 1 /\ ~ Descends(Entry)))
    BY <2>1, <2>2 DEF DumpCall
  <2> QED
    BY <2>3
<1>3. /\ TypeOK /\ Shape(entries, loops) /\ AllCertain(entries, loops)
      /\ "PRESENT" \in op.mask /\ DumpedTo(entries, loops[1].next, op.mask, region, lines)
      /\ Top = loops[1] /\ k \in Levels /\ Top \in LoopType /\ n \in Nat /\ n \in Addrs
  BY <1>2, DumpPlace DEF Dumping
<1>4. /\ last \in Addrs /\ last \in Nat /\ n <= last /\ WORD \in Nat
      /\ \A x \in n .. last : x \in Addrs /\ End(k, x) = last
  <2>1. last \in Addrs /\ last \in Nat /\ n <= last /\ WORD \in Nat
    BY <1>3, EndIsAddress, EndBelowTop, PageSizeFacts
  <2>2. ASSUME NEW x \in n .. last PROVE x \in Addrs /\ End(k, x) = last
    <3>1. x \in Nat /\ n <= x /\ x <= last
      BY <1>3, <2>1
    <3>2. End(k, x) = last
      BY <1>3, <3>1, SameEntry
    <3>3. last < WORD
      BY <2>1 DEF Addrs
    <3> HIDE DEF last
    <3> QED
      BY <2>1, <3>1, <3>2, <3>3 DEF Addrs
  <2> QED
    BY <2>1, <2>2
<1>5. ~ Descends(Entry) => last < WORD - 1
  <2> HIDE DEF last
  <2> QED
    BY <1>2, <1>4 DEF Addrs
<1>6. /\ Shape(entries, loops')
      /\ (~ Descends(Entry) /\ Passes) \/ (Descends(Entry) /\ Enters)
  BY <1>1, <1>3, <1>5, Iterated DEF Entry
<1>7. AllCertain(entries, loops')
  BY <1>1, <1>3, <1>6, CertainGoesOn DEF Descends, Entry
<1>8. Slot = Index(k, n) /\ n < Top.end /\ Entry = entries[Top.table][Slot]
  BY <1>1 DEF InBody, Slot, Entry
<1>9. DumpedTo(entries, loops'[1].next, op.mask, region', lines')
  <2>1. CASE Descends(Entry) /\ Enters
    <3>1. loops'[1].next = n
      BY <2>1 DEF Enters, Loop
    <3>2. ~ Shows /\ Present(Entry)
      BY <2>1 DEF Descends, Shows
    <3>3. region' = region /\ lines' = lines
      BY <3>2 DEF DumpEntry
    <3> QED
      BY <1>3, <3>1, <3>3
  <2>2. CASE ~ Descends(Entry) /\ Passes
    <3>1. loops'[1].next = last + 1
      BY <1>3, <2>2 DEF Passes, LoopType
    <3>2. ~ (k > 1 /\ Present(Entry) /\ ~ Huge(Entry))
      BY <2>2 DEF Descends
    <3>3. Shows \/ ~ Present(Entry)
      <4>1. k > 2 => ~ (Present(Entry) /\ Huge(Entry))
        BY <1>1 DEF NoHugeAbove
      <4> QED
        BY <1>3, <3>2, <4>1 DEF Shows, Levels
    <3>4. ASSUME Shows, Present(Entry), NEW a \in n .. last
          PROVE  Mapping(entries, a) = Entry
      <4>1. /\ WayOf(entries, k, a) = Entry
            /\ k = 1 => Mapping(entries, a) = WayOf(entries, 1, a)
        BY <1>3, <1>4, <1>8, ExactEntry
      <4>2. k = 1 \/ (k = 2 /\ Huge(Entry))
        BY <3>4 DEF Shows
      <4>3. CASE k = 1
        BY <4>1, <4>3
      <4>4. CASE k = 2 /\ Huge(Entry)
        BY <3>4, <4>1, <4>4 DEF Mapping, WayOf
      <4> QED
        BY <4>2, <4>3, <4>4
    <3>5. ASSUME ~ Present(Entry), NEW a \in n .. last
          PROVE  ~ Present(Mapping(entries, a))
      BY <1>3, <1>4, <1>8, <3>2, <3>5, MappedHere
    <3>6. Entry.flags \in SUBSET Flags
      <4>1. Slot \in Slots /\ Top.table \in Pages
        BY <1>3, <1>8, IndexInTable DEF LoopType
      <4> QED
        BY <1>3, <1>8, <4>1 DEF TypeOK, Entries
    <3> HIDE DEF k, n, last
    <3>7. DumpedTo(entries, last + 1, op.mask, region', lines')
      BY <1>3, <1>4, <2>2, <3>3, <3>4, <3>5, <3>6, DumpsEntry DEF k, n, last
    <3> QED
      BY <3>1, <3>7
  <2> QED
    BY <1>6, <2>1, <2>2
<1> QED
  BY <1>1, <1>2, <1>3, <1>6, <1>7, <1>9 DEF Dumping

\* A loop that ends at the last address is not left before the walk passes it.
LEMMA DumpLeaves ==
    ASSUME TypeInv, DumpInv, Walking("dump"), LeaveLoop
    PROVE  DumpInv'
<1>0. op' = op /\ entries' = entries /\ region' = region /\ lines' = lines
      /\ Len(loops) > 1 /\ ~ InBody
  BY DEF LeaveLoop, memory
<1> SUFFICES ASSUME ~ op.around
             PROVE  Dumping(entries, loops', op.mask, region, lines)
  BY <1>0 DEF DumpInv
<1>1. /\ TypeOK /\ Shape(entries, loops) /\ AllCertain(entries, loops)
      /\ "PRESENT" \in op.mask /\ DumpedTo(entries, loops[1].next, op.mask, region, lines)
      /\ Top = loops[1] /\ Top \in LoopType /\ loops # <<>>
  BY DumpPlace, TopOf DEF Dumping
<1>2. PICK c \in 2 .. 4 : c = Len(loops)
  BY <1>0, <1>1 DEF Shape
<1>3. /\ Top.next \in Nat /\ Top.end \in Nat /\ Top.next < WORD /\ Top.end < WORD
      /\ ~ (Top.next < Top.end) /\ WORD \in Nat
  BY <1>0, <1>1, PageSizeFacts DEF InBody, LoopType, Addrs
<1>4. Top.end < WORD - 1
  <2>1. Top.next % PAGE_SIZE = 0 /\ (Top.end + 1) % PAGE_SIZE = 0
    BY <1>1, <1>2 DEF Shape, Sound
  <2>2. Top.next <= Top.end => Top.next < Top.end
    BY <1>3, <2>1, PageBefore
  <2> QED
    BY <1>3, <2>2
<1>5. Shape(entries, loops') /\ Leaves
  BY <1>0, <1>1, <1>4, LeftBehind
<1>6. AllCertain(entries, loops')
  BY <1>0, <1>1, <1>5, CertainLeaves
<1>7. loops[2] \in LoopType
  BY <1>1, <1>2 DEF Shape, Stacked
<1>8. loops'[1].next = loops[1].next
  BY <1>1, <1>5, <1>7 DEF Leaves, LoopType
<1> QED
  BY <1>1, <1>5, <1>6, <1>8 DEF Dumping

LEMMA DumpWalks ==
    ASSUME TypeInv, DumpInv, NoHugeAbove, Walk, op.name = "dump"
    PROVE  DumpInv'
<1>0. Walking("dump")
  BY CallGoesOn DEF Walking
<1>1. CASE DumpEntry
  BY <1>0, <1>1, DumpIterates
<1>2. CASE LeaveLoop
  BY <1>0, <1>2, DumpLeaves
<1>3. CASE LookupDone \/ OtherDone \/ NoSuchPage \/ FreeAgain \/ NoTable
  BY <1>0, <1>3 DEF LookupDone, OtherDone, NoSuchPage, FreeAgain, NoTable, DumpInv,
              Walking
<1>4. CASE \/ InsertPte \/ InsertPde \/ RemovePte \/ RemovePde \/ LookupEntry
           \/ BootMapPte \/ BootMapPde \/ Pass
  BY <1>0, <1>4 DEF InsertPte, InsertPde, RemovePte, RemovePde, LookupEntry, BootMapPte,
              BootMapPde, Pass, In, Walking
<1> QED
  BY <1>1, <1>2, <1>3, <1>4 DEF Walk

LEMMA DumpBegins ==
    ASSUME NEW mask \in DumpMasks, DumpPageTables(mask)
    PROVE  DumpInv'
<1>1. /\ loops' = <<Loop(4, kernel_pml4, 0, WORD - 1)>>
      /\ region' = NoRegion /\ lines' = {} /\ "PRESENT" \in op'.mask
  BY DEF DumpPageTables, WalkAllPages, WalkFrom
<1>2. /\ Stacked(loops') /\ Len(loops') = 1 /\ loops'[1].level = 4
      /\ loops'[1].next = 0 /\ loops'[1].end = WORD - 1 /\ loops'[1].table = kernel_pml4
  <2>1. Loop(4, kernel_pml4, 0, WORD - 1) \in LoopType
    BY PageSizeFacts, PageTableAssumption DEF Loop, LoopType, Levels, Addrs
  <2> QED
    BY <1>1, <2>1, Single DEF Loop
<1>3. loops'[1].next % PAGE_SIZE = 0 /\ (loops'[1].end + 1) % PAGE_SIZE = 0
  <2>1. 0 % PAGE_SIZE = 0 /\ (WORD - 1) + 1 = WORD
    BY PageSizeFacts
  <2>2. WORD % PAGE_SIZE = 0
    BY SpanAssumption DEF Levels, PAGE_SIZE
  <2> QED
    BY <1>2, <2>1, <2>2
<1>4. Sound(entries', loops'[1])
  BY <1>2, <1>3 DEF Sound, OnWay
<1>5. Shape(entries', loops') /\ AllCertain(entries', loops')
  BY <1>2, <1>4 DEF Shape, AllCertain, Certain
<1>6. DumpedTo(entries', 0, op'.mask, NoRegion, {})
  BY DEF DumpedTo, NoRegion, Pieces, Printed, Present, Truthful, Joined, Told, PageStarts
<1> QED
  BY <1>1, <1>2, <1>5, <1>6 DEF DumpInv, Dumping

LEMMA DumpStep ==
    ASSUME TypeInv, DumpInv, NoHugeAbove, [Next]_vars
    PROVE  DumpInv'
<1>1. CASE Walk /\ op.name = "dump"
  BY <1>1, DumpWalks
<1>2. CASE Walk /\ op.name # "dump"
  <2>1. op'.name # "dump"
    BY <1>2, CallGoesOn
  <2> QED
    BY <2>1 DEF DumpInv, Walking
<1>3. CASE UNCHANGED <<entries, pp_ref, free, op, loops, found, region, lines, ret, pc>>
  BY <1>3 DEF DumpInv, Walking
<1>4. CASE op'.name \in {"insert", "boot_map"}
  BY <1>4 DEF DumpInv, Walking
<1>5. CASE \E r \in Ranges : UnmapPageRange(r[1], r[2]) \/ PageLookup(r[1])
  BY <1>5 DEF UnmapPageRange, PageLookup, DumpInv, Walking
<1>6. CASE \E mask \in DumpMasks : DumpPageTables(mask)
  BY <1>6, DumpBegins
<1> QED
  BY <1>1, <1>2, <1>3, <1>4, <1>5, <1>6, CallBegins

\* What a dump knows of the pages it has passed is what it should show.
LEMMA DumpKnows == TypeInv /\ DumpInv => DumpShows
<1> SUFFICES ASSUME TypeInv, DumpInv, op.name = "dump", pc = "walk", ~ op.around
             PROVE  DumpShows
  BY DEF DumpShows
<1>1. DumpedTo(entries, Top.next, op.mask, region, lines)
  BY DumpPlace DEF Walking, Dumping
<1>2. \A a : Leaf(a) = Mapping(entries, a)
  BY MappingIsLeaf
<1>3. /\ Truthful(entries, op.mask, Shown) /\ Joined(Shown)
      /\ Told(entries, Top.next, Shown)
  BY <1>1 DEF DumpedTo, Shown
<1>4. \A r \in Shown : \A a \in PageStarts(r.base, r.end) :
          Present(Leaf(a)) /\ r.flags = Leaf(a).flags \cap op.mask
  BY <1>2, <1>3 DEF Truthful
<1>5. \A r, s \in Shown : s.base = r.end + 1 => r.flags # s.flags
  BY <1>3 DEF Joined
<1>6. \A a \in PageStarts(0, Top.next - 1) :
          Present(Leaf(a)) => \E r \in Shown : r.base <= a /\ a <= r.end
  BY <1>2, <1>3 DEF Told
<1> QED
  BY <1>4, <1>5, <1>6 DEF DumpShows

\* As long as no table above the page directories has an entry with HUGE set, a
\* dump shows of the pages it has passed all that are mapped, with their flags,
\* nothing else, and no region in two parts.
THEOREM DumpShowsHolds == Spec /\ []NoHugeAbove => []DumpShows
<1>1. Init => TypeInv /\ DumpInv
  BY InitType DEF Init, DumpInv, Walking
<1>2. TypeInv /\ DumpInv /\ NoHugeAbove /\ [Next]_vars => TypeInv' /\ DumpInv'
  BY TypeStep, DumpStep
<1> QED
  BY <1>1, <1>2, DumpKnows, PTL DEF Spec
=============================================================================
