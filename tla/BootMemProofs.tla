--------------------------- MODULE BootMemProofs ---------------------------
(***************************************************************************)
(* Proofs about BootMem, for every size of page, of memory and of the      *)
(* kernel, and every memory map whose free regions are ascending and apart *)
(* (OrderlyMaps).                                                          *)
(*                                                                         *)
(* The inductive invariant says which pages have been handed over at any   *)
(* point of page_init()'s loops: exactly those the loops have passed       *)
(* (Passed), below BOOT_MAP_LIM and not reserved (Wanted).  The properties *)
(* of the whole boot follow from it by arithmetic alone.                   *)
(***************************************************************************)
EXTENDS BootMem, SequenceTheorems, WellFoundedInduction, TLAPS

-----------------------------------------------------------------------------
(* What is asked of the machine *)

\* The map's free regions do not overlap and come in the order of their
\* addresses, and none reaches into the last page of the address space.
OrderlyMaps ==
    \A m \in MemMaps : \A j \in DOMAIN m :
        m[j].type = FREE =>
            /\ m[j].addr + m[j].len <= WORD - PAGE_SIZE
            /\ \A k \in DOMAIN m :
                   j < k /\ m[k].type = FREE => m[j].addr + m[j].len <= m[k].addr

\* The kernel and the ELF header begin at page boundaries, and the array pages[]
\* fits behind the kernel without a wrap.
KernelPlaced ==
    /\ KERNEL_LMA % PAGE_SIZE = 0 /\ elf_hdr % PAGE_SIZE = 0
    /\ end + (BOOT_MAP_LIM \div PAGE_SIZE) * StructSize + 2 * PAGE_SIZE <= WORD

-----------------------------------------------------------------------------
(* The invariant *)

\* What mem_init() has computed when.
AlignedMap == [j \in DOMAIN bios |-> AlignedEntry(bios[j])]

MapComputed == mmap = IF pc = "align" THEN bios ELSE AlignedMap

NothingYet == pc \in {"align", "count", "alloc"} => freed = <<>>

Computed ==
    /\ MapComputed /\ NothingYet
    /\ pc \in {"align", "count", "alloc"} => next_free = RoundUp(end)
    /\ pc \in {"align", "count"} => npages = 0
    /\ pc \notin {"align", "count"} =>
           npages = (IF HighestAddr < BOOT_MAP_LIM THEN HighestAddr
                                                   ELSE BOOT_MAP_LIM) \div PAGE_SIZE
    /\ pc \in {"init", "ext", "done", "panic"} =>
           next_free = RoundUp(RoundUp(end) + npages * StructSize)

OnBoundary(a) == a % PAGE_SIZE = 0

FreeAt(j) == j \in DOMAIN mmap /\ mmap[j].type = FREE

\* The address the loops are at is one of the entry's pages, or its end.
OnPage ==
    pc \in {"init", "ext"} /\ FreeAt(i) =>
        /\ OnBoundary(pa)
        /\ mmap[i].addr <= pa
        /\ pa = mmap[i].addr \/ pa <= End(mmap[i])

\* The loops of page_init() have passed page p.
Within(p, j) == mmap[j].addr <= p * PAGE_SIZE /\ p * PAGE_SIZE < End(mmap[j])

Passed(p) ==
    \E j \in DOMAIN mmap :
        /\ mmap[j].type = FREE /\ Within(p, j)
        /\ pc # "init" \/ j < i \/ (j = i /\ p * PAGE_SIZE < pa)

Wanted(p) == p * PAGE_SIZE < BOOT_MAP_LIM /\ ~ addr_reserved(p * PAGE_SIZE)

\* What has been freed is what has been passed and is wanted, each page once.
FreedPassed ==
    /\ pc \notin {"align", "count", "alloc"} =>
           \A p \in ToSet(freed) : Passed(p) /\ Wanted(p)
    /\ pc \in {"init", "ext", "done"} =>
           \A p \in Nat : Passed(p) /\ Wanted(p) => p \in ToSet(freed)

BootInv == TypeOK /\ Computed /\ OnPage /\ FreedPassed /\ FreedOnce

-----------------------------------------------------------------------------
(* Page arithmetic *)

LEMMA Sizes ==
    /\ PAGE_SIZE \in Nat /\ PAGE_SIZE > 0 /\ WORD \in Nat /\ WORD > 0
    /\ BOOT_MAP_LIM \in Nat /\ BOOT_MAP_LIM > 0 /\ BOOT_MAP_LIM < WORD
    /\ StructSize \in Nat /\ KERNEL_LMA \in Nat /\ end \in Nat
    /\ KERNEL_LMA <= end /\ boot_info \in Nat /\ elf_hdr \in Nat
    /\ OnBoundary(WORD) /\ OnBoundary(BOOT_MAP_LIM) /\ OnBoundary(0)
BY BootMemAssumption DEF OnBoundary

\* Division with remainder.
LEMMA DivMod ==
    ASSUME NEW n \in Nat, NEW s \in Nat, s > 0
    PROVE  /\ n = (n \div s) * s + (n % s) /\ n \div s \in Nat
           /\ n % s \in 0 .. s - 1
BY SMT

LEMMA ProductOrder ==
    ASSUME NEW s \in Nat, s > 0, NEW x \in Int, NEW y \in Int, x * s < y * s
    PROVE  x < y /\ x * s + s <= y * s
<1>1. x < y
  <2>1. CASE x >= y
    <3>1. (x - y) * s >= 0
      BY <2>1
    <3>2. (x - y) * s = x * s - y * s
      OBVIOUS
    <3> QED
      BY <3>1, <3>2
  <2> QED
    BY <2>1
<1>2. (y - x - 1) * s >= 0
  BY <1>1
<1>3. (y - x - 1) * s = y * s - x * s - s
  OBVIOUS
<1> QED
  BY <1>1, <1>2, <1>3

\* A page is its number times the size.
LEMMA PageNumber ==
    ASSUME NEW n \in Nat
    PROVE  /\ n * PAGE_SIZE \in Nat /\ OnBoundary(n * PAGE_SIZE)
           /\ (n * PAGE_SIZE) \div PAGE_SIZE = n
           /\ (n + 1) * PAGE_SIZE = n * PAGE_SIZE + PAGE_SIZE
<1> DEFINE a == n * PAGE_SIZE
<1>1. PAGE_SIZE \in Nat /\ PAGE_SIZE > 0
  BY Sizes
<1>2. a \in Nat
  BY <1>1
<1>3. /\ a = (a \div PAGE_SIZE) * PAGE_SIZE + (a % PAGE_SIZE)
      /\ a \div PAGE_SIZE \in Nat /\ a % PAGE_SIZE \in 0 .. PAGE_SIZE - 1
  BY <1>1, <1>2, DivMod
<1>4. ~ ((a \div PAGE_SIZE) < n)
  <2>1. CASE a \div PAGE_SIZE < n
    <3>1. (n - (a \div PAGE_SIZE) - 1) * PAGE_SIZE >= 0
      BY <1>1, <1>3, <2>1
    <3>2. (n - (a \div PAGE_SIZE) - 1) * PAGE_SIZE
              = n * PAGE_SIZE - (a \div PAGE_SIZE) * PAGE_SIZE - PAGE_SIZE
      BY <1>1, <1>3
    <3> QED
      BY <1>1, <1>3, <3>1, <3>2
  <2> QED
    BY <2>1
<1>5. ~ (n < (a \div PAGE_SIZE))
  <2>1. CASE n < a \div PAGE_SIZE
    <3>1. ((a \div PAGE_SIZE) - n - 1) * PAGE_SIZE >= 0
      BY <1>1, <1>3, <2>1
    <3>2. ((a \div PAGE_SIZE) - n - 1) * PAGE_SIZE
              = (a \div PAGE_SIZE) * PAGE_SIZE - n * PAGE_SIZE - PAGE_SIZE
      BY <1>1, <1>3
    <3> QED
      BY <1>1, <1>3, <3>1, <3>2
  <2> QED
    BY <2>1
<1>6. a \div PAGE_SIZE = n
  BY <1>3, <1>4, <1>5
<1>7. a % PAGE_SIZE = 0
  BY <1>1, <1>2, <1>3, <1>6
<1>8. (n + 1) * PAGE_SIZE = a + PAGE_SIZE
  BY <1>1
<1> QED
  BY <1>2, <1>6, <1>7, <1>8 DEF OnBoundary

LEMMA Boundary ==
    ASSUME NEW a \in Nat, OnBoundary(a)
    PROVE  a \div PAGE_SIZE \in Nat /\ (a \div PAGE_SIZE) * PAGE_SIZE = a
BY Sizes, DivMod DEF OnBoundary

\* Boundaries are a page apart.
LEMMA Apart ==
    ASSUME NEW a \in Nat, NEW b \in Nat, OnBoundary(a), OnBoundary(b), a < b
    PROVE  a + PAGE_SIZE <= b /\ a \div PAGE_SIZE < b \div PAGE_SIZE
<1> DEFINE x == a \div PAGE_SIZE
           y == b \div PAGE_SIZE
<1>1. x \in Nat /\ y \in Nat /\ x * PAGE_SIZE = a /\ y * PAGE_SIZE = b
  BY Boundary
<1> HIDE DEF x, y
<1>2. x < y /\ x * PAGE_SIZE + PAGE_SIZE <= y * PAGE_SIZE
  BY <1>1, Sizes, ProductOrder
<1> QED
  BY <1>1, <1>2 DEF x, y

LEMMA NextBoundary ==
    ASSUME NEW a \in Nat, OnBoundary(a)
    PROVE  OnBoundary(a + PAGE_SIZE)
<1>1. PICK n \in Nat : a = n * PAGE_SIZE
  BY Boundary
<1>2. (n + 1) * PAGE_SIZE = a + PAGE_SIZE
  BY <1>1, PageNumber
<1> QED
  BY <1>2, PageNumber

LEMMA Down ==
    ASSUME NEW a \in Nat
    PROVE  /\ RoundDown(a) \in Nat /\ OnBoundary(RoundDown(a))
           /\ RoundDown(a) <= a /\ a < RoundDown(a) + PAGE_SIZE
           /\ RoundDown(a) = (a \div PAGE_SIZE) * PAGE_SIZE
           /\ a \div PAGE_SIZE \in Nat
           /\ \A b \in Nat : OnBoundary(b) /\ b <= a => b <= RoundDown(a)
<1>1. /\ a = (a \div PAGE_SIZE) * PAGE_SIZE + (a % PAGE_SIZE)
      /\ a \div PAGE_SIZE \in Nat /\ a % PAGE_SIZE \in 0 .. PAGE_SIZE - 1
  BY Sizes, DivMod
<1>2. (a \div PAGE_SIZE) * PAGE_SIZE \in Nat
  BY <1>1, Sizes
<1>3. RoundDown(a) = (a \div PAGE_SIZE) * PAGE_SIZE
  BY <1>1, <1>2, Sizes DEF RoundDown
<1>4. OnBoundary((a \div PAGE_SIZE) * PAGE_SIZE)
  BY <1>1, PageNumber
<1>5. a - (a % PAGE_SIZE) = RoundDown(a)
  BY DEF RoundDown
<1>6. /\ RoundDown(a) \in Nat /\ OnBoundary(RoundDown(a))
      /\ RoundDown(a) <= a /\ a < RoundDown(a) + PAGE_SIZE
  BY <1>1, <1>2, <1>3, <1>4, <1>5, Sizes
<1>7. ASSUME NEW b \in Nat, OnBoundary(b), b <= a, RoundDown(a) < b
      PROVE  FALSE
  <2>1. RoundDown(a) + PAGE_SIZE <= b
    BY <1>6, <1>7, Apart
  <2> QED
    BY <1>6, <1>7, <2>1, Sizes
<1> QED
  BY <1>1, <1>3, <1>6, <1>7

LEMMA SmallMod ==
    ASSUME NEW a \in Nat, NEW s \in Nat, a < s
    PROVE  a % s = a
BY SMT

LEMMA Up ==
    ASSUME NEW a \in Nat, a + PAGE_SIZE <= WORD
    PROVE  /\ RoundUp(a) \in Nat /\ OnBoundary(RoundUp(a))
           /\ a <= RoundUp(a) /\ RoundUp(a) < a + PAGE_SIZE
           /\ RoundUp(a) < WORD
           /\ \A b \in Nat : OnBoundary(b) /\ a <= b => RoundUp(a) <= b
<1>1. a + PAGE_SIZE - 1 \in Nat /\ a + PAGE_SIZE - 1 < WORD
  BY Sizes
<1>2. RoundUp(a) = RoundDown(a + PAGE_SIZE - 1)
  BY <1>1, Sizes, SmallMod DEF RoundUp
<1> DEFINE u == RoundDown(a + PAGE_SIZE - 1)
<1>3. /\ u \in Nat /\ OnBoundary(u)
      /\ u <= a + PAGE_SIZE - 1 /\ a + PAGE_SIZE - 1 < u + PAGE_SIZE
  BY <1>1, Down
<1> HIDE DEF u
<1>4. ASSUME NEW b \in Nat, OnBoundary(b), a <= b, b < u
      PROVE  FALSE
  <2>1. b + PAGE_SIZE <= u
    BY <1>3, <1>4, Apart
  <2> QED
    BY <1>3, <1>4, <2>1, Sizes
<1>5. \A b \in Nat : OnBoundary(b) /\ a <= b => u <= b
  BY <1>3, <1>4
<1> QED
  BY <1>1, <1>2, <1>3, <1>5, Sizes DEF u

\* A set of numbers with a bound has a greatest element, the one for which the
\* distance to the bound is least.
LEMMA GreatestElement ==
    ASSUME NEW T, T \subseteq Nat, T # {}, NEW n \in Nat, \A x \in T : x <= n
    PROVE  \E x \in T : \A y \in T : y <= x
<1> DEFINE D == {n - x : x \in T}
<1>1. D \subseteq Nat /\ D # {}
  <2>1. ASSUME NEW x \in T
        PROVE  n - x \in Nat
    BY SMT
  <2>2. D # {}
    OBVIOUS
  <2> QED
    BY <2>1, <2>2
<1>2. PICK d \in D : \A e \in D : ~ (<<e, d>> \in OpToRel(<, Nat))
  BY <1>1, NatLessThanWellFounded, WFMin
<1>3. \A e \in D : ~ (e < d)
  BY <1>1, <1>2 DEF OpToRel
<1>4. PICK x \in T : d = n - x
  OBVIOUS
<1>5. ASSUME NEW y \in T
      PROVE  y <= x
  <2>1. n - y \in D
    OBVIOUS
  <2> QED
    BY <1>3, <1>4, <2>1
<1> QED
  BY <1>5

LEMMA ModRange ==
    ASSUME NEW x \in Int
    PROVE  x % WORD \in 0 .. WORD - 1
BY Sizes

LEMMA RoundsToWord ==
    ASSUME NEW a \in Nat
    PROVE  RoundUp(a) \in 0 .. WORD - 1
<1> DEFINE m == (a + PAGE_SIZE - 1) % WORD
<1>1. m \in Nat /\ m < WORD
  <2>1. a + PAGE_SIZE - 1 \in Int
    BY Sizes
  <2>2. m \in 0 .. WORD - 1
    BY <2>1, ModRange
  <2> QED
    BY <2>2, Sizes
<1>2. RoundUp(a) = RoundDown(m)
  BY DEF RoundUp
<1> HIDE DEF m
<1>3. RoundDown(m) \in Nat /\ RoundDown(m) <= m
  BY <1>1, Down
<1> QED
  BY <1>1, <1>2, <1>3, Sizes

\* Dividing by the size of a page is monotonic.
LEMMA DivMonotonic ==
    ASSUME NEW a \in Nat, NEW b \in Nat, a <= b
    PROVE  a \div PAGE_SIZE <= b \div PAGE_SIZE
<1> DEFINE x == a \div PAGE_SIZE
           y == b \div PAGE_SIZE
<1>1. /\ x \in Nat /\ x * PAGE_SIZE \in Nat /\ x * PAGE_SIZE <= a
      /\ y \in Nat /\ y * PAGE_SIZE \in Nat /\ b < y * PAGE_SIZE + PAGE_SIZE
  BY Down
<1> HIDE DEF x, y
<1>2. ASSUME y < x
      PROVE  FALSE
  <2>1. (x - y - 1) * PAGE_SIZE >= 0
    BY <1>1, <1>2, Sizes
  <2>2. (x - y - 1) * PAGE_SIZE = x * PAGE_SIZE - y * PAGE_SIZE - PAGE_SIZE
    BY <1>1, Sizes
  <2> QED
    BY <1>1, <2>1, <2>2, Sizes
<1> QED
  BY <1>1, <1>2 DEF x, y

-----------------------------------------------------------------------------
(* The map *)

\* Whatever the map holds, aligning keeps it a map.
LEMMA AlignedType ==
    ASSUME NEW t, NEW e \in Entries({t})
    PROVE  AlignedEntry(e) \in Entries({t})
<1>1. e.addr \in Nat /\ e.len \in Nat /\ e.addr < WORD /\ e.len < WORD
  BY Sizes DEF Entries
<1> DEFINE base == IF e.type = FREE THEN RoundUp(e.addr) ELSE RoundDown(e.addr)
<1>2. base \in 0 .. WORD - 1
  <2>1. RoundUp(e.addr) \in 0 .. WORD - 1
    BY <1>1, RoundsToWord
  <2>2. RoundDown(e.addr) \in Nat /\ RoundDown(e.addr) <= e.addr
    BY <1>1, Down
  <2>3. RoundDown(e.addr) \in 0 .. WORD - 1
    BY <1>1, <2>2, Sizes
  <2> QED
    BY <2>1, <2>3
<1> HIDE DEF base
<1> DEFINE len == (e.len - (base - e.addr)) % WORD
<1>3. len \in 0 .. WORD - 1
  BY <1>1, <1>2, ModRange
<1> HIDE DEF len
<1> DEFINE top == (base + len) % WORD
<1>4. top \in 0 .. WORD - 1
  BY <1>2, <1>3, ModRange
<1> HIDE DEF top
<1> DEFINE lim == IF e.type = FREE THEN RoundDown(top) ELSE RoundUp(top)
<1>5. lim \in 0 .. WORD - 1
  <2>1. top \in Nat /\ top < WORD
    BY <1>4, Sizes
  <2>2. RoundUp(top) \in 0 .. WORD - 1
    BY <2>1, RoundsToWord
  <2>3. RoundDown(top) \in Nat /\ RoundDown(top) <= top
    BY <2>1, Down
  <2>4. RoundDown(top) \in 0 .. WORD - 1
    BY <2>1, <2>3, Sizes
  <2> QED
    BY <2>2, <2>4
<1> HIDE DEF lim
<1>6. (lim - base) % WORD \in 0 .. WORD - 1
  BY <1>2, <1>5, ModRange
<1>7. AlignedEntry(e) = [e EXCEPT !.addr = base, !.len = (lim - base) % WORD]
  BY DEF AlignedEntry, base, len, top, lim
<1> QED
  BY <1>2, <1>6, <1>7 DEF Entries

\* A free region shrinks to page boundaries, however short it is: one without a
\* whole page ends where it would have begun, or before.
LEMMA AlignedFree ==
    ASSUME NEW e \in Entries({FREE}), e.addr + e.len <= WORD - PAGE_SIZE
    PROVE  /\ AlignedEntry(e).type = FREE
           /\ AlignedEntry(e).addr = RoundUp(e.addr)
           /\ End(AlignedEntry(e)) = RoundDown(e.addr + e.len)
<1>1. e.addr \in Nat /\ e.len \in Nat /\ e.type = FREE
  BY Sizes DEF Entries
<1> DEFINE E == e.addr + e.len
           base == RoundUp(e.addr)
           lim == RoundDown(E)
<1>2. /\ base \in Nat /\ e.addr <= base /\ base < e.addr + PAGE_SIZE
      /\ base < WORD
  BY <1>1, Up, Sizes
<1>3. E \in Nat /\ E <= WORD - PAGE_SIZE /\ E < WORD
  BY <1>1, Sizes
<1>4. lim \in Nat /\ lim <= E
  BY <1>3, Down
<1>5. (base + ((e.len - (base - e.addr)) % WORD)) % WORD = E
  <2> DEFINE x == e.len - (base - e.addr)
  <2>1. x = E - base /\ x \in Int /\ x < WORD /\ - WORD < x
    BY <1>1, <1>2, <1>3, Sizes
  <2>2. CASE x >= 0
    <3>1. x % WORD = x
      BY <2>1, <2>2, SmallMod, Sizes
    <3>2. base + x = E
      BY <2>1, <1>2, <1>3
    <3> QED
      BY <3>1, <3>2, <1>3, SmallMod, Sizes
  <2>3. CASE x < 0
    <3>1. x % WORD = x + WORD
      BY <2>1, <2>3, Sizes
    <3>2. base + (x + WORD) = E + WORD
      BY <2>1, <1>2, <1>3, Sizes
    <3>3. (E + WORD) % WORD = E
      BY <1>3, Sizes
    <3> QED
      BY <3>1, <3>2, <3>3
  <2> QED
    BY <2>1, <2>2, <2>3
<1>6. AlignedEntry(e) = [e EXCEPT !.addr = base, !.len = (lim - base) % WORD]
  BY <1>1, <1>5 DEF AlignedEntry
<1>7. (base + ((lim - base) % WORD)) % WORD = lim
  <2> DEFINE x == lim - base
  <2>1. x \in Int /\ x < WORD /\ - WORD < x
    BY <1>2, <1>3, <1>4, Sizes
  <2>2. CASE x >= 0
    <3>1. x % WORD = x
      BY <2>1, <2>2, SmallMod, Sizes
    <3> QED
      BY <3>1, <1>2, <1>3, <1>4, SmallMod, Sizes
  <2>3. CASE x < 0
    <3>1. x % WORD = x + WORD
      BY <2>1, <2>3, Sizes
    <3>2. base + (x + WORD) = lim + WORD
      BY <1>2, <1>4, Sizes
    <3>3. (lim + WORD) % WORD = lim
      BY <1>3, <1>4, Sizes
    <3> QED
      BY <3>1, <3>2, <3>3
  <2> QED
    BY <2>1, <2>2, <2>3
<1> HIDE DEF base, lim
<1>8. /\ AlignedEntry(e).type = e.type
      /\ AlignedEntry(e).addr = base
      /\ AlignedEntry(e).len = (lim - base) % WORD
  BY <1>6 DEF Entries
<1> QED
  BY <1>1, <1>7, <1>8 DEF End, base, lim

-----------------------------------------------------------------------------
(* Types *)

TypeInv == TypeOK /\ NothingYet /\ MapComputed

LEMMA MapType ==
    ASSUME NEW m \in MemMaps
    PROVE  /\ m \in Seq(Entries({m[j].type : j \in DOMAIN m}))
           /\ Len(m) \in Nat /\ DOMAIN m = 1 .. Len(m)
           /\ \A j \in DOMAIN m : m[j] \in Entries({m[j].type})
<1>1. m \in Seq(Entries({m[j].type : j \in DOMAIN m}))
  BY BootMemAssumption
<1>2. Len(m) \in Nat /\ DOMAIN m = 1 .. Len(m)
  BY <1>1, LenProperties
<1>3. ASSUME NEW j \in DOMAIN m
      PROVE  m[j] \in Entries({m[j].type})
  <2>1. m[j] \in Entries({m[k].type : k \in DOMAIN m})
    BY <1>1, <1>2, ElementOfSeq
  <2> QED
    BY <2>1 DEF Entries
<1> QED
  BY <1>1, <1>2, <1>3
LEMMA MapFacts ==
    ASSUME TypeInv
    PROVE  /\ Len(mmap) \in Nat /\ DOMAIN mmap = 1 .. Len(mmap)
           /\ mmap = <<>> <=> Len(mmap) = 0
           /\ \A j \in DOMAIN mmap :
                  /\ mmap[j].addr \in 0 .. WORD - 1 /\ mmap[j].len \in 0 .. WORD - 1
                  /\ mmap[j].type = bios[j].type
                  /\ End(mmap[j]) \in 0 .. WORD - 1
<1> DEFINE T == {bios[j].type : j \in DOMAIN bios}
<1>1. /\ bios \in Seq(Entries(T)) /\ Len(bios) \in Nat
      /\ DOMAIN bios = 1 .. Len(bios)
  BY MapType DEF TypeInv, TypeOK
<1>2. mmap \in Seq(Entries(T))
  <2>1. CASE pc = "align"
    BY <1>1, <2>1 DEF TypeInv, MapComputed
  <2>2. CASE pc # "align"
    <3>1. mmap = [j \in 1 .. Len(bios) |-> AlignedEntry(bios[j])]
      BY <1>1, <2>2 DEF TypeInv, MapComputed, AlignedMap
    <3>2. ASSUME NEW j \in 1 .. Len(bios)
          PROVE  AlignedEntry(bios[j]) \in Entries(T)
      <4>1. bios[j] \in Entries({bios[j].type})
        BY <1>1, MapType DEF TypeInv, TypeOK
      <4>2. AlignedEntry(bios[j]) \in Entries({bios[j].type})
        BY <4>1, AlignedType
      <4> QED
        BY <1>1, <4>2 DEF Entries
    <3> HIDE DEF T
    <3> QED
      BY <1>1, <3>1, <3>2, IsASeq
  <2> QED
    BY <2>1, <2>2
<1>3. Len(mmap) \in Nat /\ DOMAIN mmap = 1 .. Len(mmap)
  BY <1>2, LenProperties
<1>4. mmap = <<>> <=> Len(mmap) = 0
  BY <1>2, EmptySeq
<1>5. ASSUME NEW j \in DOMAIN mmap
      PROVE  /\ mmap[j].addr \in 0 .. WORD - 1 /\ mmap[j].len \in 0 .. WORD - 1
             /\ mmap[j].type = bios[j].type
             /\ End(mmap[j]) \in 0 .. WORD - 1
  <2>1. mmap[j] \in Entries({bios[j].type})
    BY DEF TypeInv, TypeOK
  <2>2. /\ mmap[j].addr \in 0 .. WORD - 1 /\ mmap[j].len \in 0 .. WORD - 1
        /\ mmap[j].type = bios[j].type
    BY <2>1 DEF Entries
  <2>3. mmap[j].addr + mmap[j].len \in Int
    BY <2>2, Sizes
  <2> QED
    BY <2>2, <2>3, ModRange DEF End
<1> QED
  BY <1>3, <1>4, <1>5

LEMMA FirstEntryType ==
    ASSUME TypeInv, FromFirstEntry
    PROVE  i' \in 1 .. Len(mmap) + 1 /\ pa' \in 0 .. WORD - 1
<1>1. i' = 1 /\ 1 \in 1 .. Len(mmap) + 1
  BY MapFacts DEF FromFirstEntry
<1>2. CASE mmap = <<>>
  BY <1>1, <1>2, Sizes DEF FromFirstEntry
<1>3. CASE mmap # <<>>
  <2>1. 1 \in DOMAIN mmap
    BY <1>3, MapFacts
  <2> QED
    BY <1>1, <1>3, <2>1, MapFacts DEF FromFirstEntry
<1> QED
  BY <1>2, <1>3

LEMMA InitTypes == Init => TypeInv
<1> SUFFICES ASSUME Init
             PROVE  TypeInv
  OBVIOUS
<1>1. bios \in MemMaps /\ mmap = bios
  BY DEF Init
<1>2. DOMAIN mmap = DOMAIN bios /\ \A j \in DOMAIN mmap : mmap[j] \in Entries({bios[j].type})
  BY <1>1, MapType
<1>3. next_free \in 0 .. WORD - 1
  BY Sizes, RoundsToWord DEF Init
<1>4. npages \in 0 .. BOOT_MAP_LIM \div PAGE_SIZE
  <2>1. BOOT_MAP_LIM \div PAGE_SIZE \in Nat
    BY Sizes, Down
  <2> QED
    BY <2>1 DEF Init
<1>5. freed \in Seq(0 .. npages - 1)
  BY DEF Init
<1>6. i \in 1 .. Len(mmap) + 1 /\ pa \in 0 .. WORD - 1
  BY <1>1, MapType, Sizes DEF Init
<1> QED
  BY <1>1, <1>2, <1>3, <1>4, <1>5, <1>6
     DEF Init, TypeInv, TypeOK, NothingYet, MapComputed

LEMMA VisitTypes ==
    ASSUME TypeInv, NEW skip, VisitPage(skip), pc \in {"init", "ext"}
    PROVE  TypeInv'
<1>1. pa \in Nat /\ pa' \in 0 .. WORD - 1
  <2>1. pa \in Nat /\ pa + PAGE_SIZE \in Int
    BY Sizes DEF TypeInv, TypeOK
  <2> QED
    BY <2>1, ModRange DEF VisitPage
<1>2. pc' \in {"init", "ext", "panic"} /\ freed' \in Seq(0 .. npages - 1)
  <2>1. CASE skip
    BY <2>1 DEF VisitPage, TypeInv, TypeOK
  <2>2. CASE ~ skip /\ pa \div PAGE_SIZE < npages
    <3>1. npages \in Nat /\ pa \div PAGE_SIZE \in Nat
      BY <1>1, Down DEF TypeInv, TypeOK
    <3>2. pa \div PAGE_SIZE \in 0 .. npages - 1
      BY <2>2, <3>1
    <3>3. freed \in Seq(0 .. npages - 1)
      BY DEF TypeInv, TypeOK
    <3>4. Append(freed, pa \div PAGE_SIZE) \in Seq(0 .. npages - 1)
      BY <3>2, <3>3, AppendProperties
    <3>5. freed' = Append(freed, pa \div PAGE_SIZE) /\ pc' = pc
      BY <2>2 DEF VisitPage, HandOver
    <3> QED
      BY <3>4, <3>5
  <2>3. CASE ~ skip /\ ~ (pa \div PAGE_SIZE < npages)
    BY <2>3 DEF VisitPage, HandOver, TypeInv, TypeOK
  <2> QED
    BY <2>1, <2>2, <2>3
<1> QED
  BY <1>1, <1>2
     DEF VisitPage, TypeInv, TypeOK, NothingYet, MapComputed, AlignedMap

LEMMA HighestAddrType ==
    ASSUME TypeInv
    PROVE  HighestAddr \in 0 .. WORD - 1
<1> DEFINE F == {j \in DOMAIN mmap : mmap[j].type = FREE}
<1>1. CASE F = {}
  BY <1>1, Sizes DEF HighestAddr
<1>2. CASE F # {}
  <2>1. PICK j \in F : \A k \in F : k <= j
    <3>1. \A k \in F : k <= Len(mmap) /\ k \in Nat
      BY MapFacts
    <3>2. F \subseteq Nat /\ Len(mmap) \in Nat
      BY <3>1, MapFacts
    <3> HIDE DEF F
    <3> QED
      BY <1>2, <3>1, <3>2, GreatestElement
  <2> DEFINE h == CHOOSE k \in F : \A l \in F : l <= k
  <2>2. h \in F
    BY <2>1
  <2>3. HighestAddr = End(mmap[h])
    BY <1>2 DEF HighestAddr
  <2> HIDE DEF h
  <2> QED
    BY <2>2, <2>3, MapFacts
<1> QED
  BY <1>1, <1>2

LEMMA StepTypes == TypeInv /\ [Next]_vars => TypeInv'
<1> SUFFICES ASSUME TypeInv, [Next]_vars
             PROVE  TypeInv'
  OBVIOUS
<1>1. CASE UNCHANGED vars
  BY <1>1 DEF vars, TypeInv, TypeOK, NothingYet, MapComputed, AlignedMap
<1>2. CASE AlignBootInfo
  <2>1. mmap' = AlignedMap
    BY <1>2 DEF AlignBootInfo, TypeInv, MapComputed, AlignedMap
  <2>2. ASSUME NEW j \in DOMAIN bios
        PROVE  mmap'[j] \in Entries({bios[j].type})
    <3>1. bios[j] \in Entries({bios[j].type})
      BY MapType DEF TypeInv, TypeOK
    <3> QED
      BY <2>1, <3>1, AlignedType DEF AlignedMap
  <2>3. DOMAIN mmap' = DOMAIN bios
    BY <2>1 DEF AlignedMap
  <2>4. Len(mmap') = Len(mmap)
    <3>1. DOMAIN bios = 1 .. Len(bios) /\ Len(bios) \in Nat
      BY MapType DEF TypeInv, TypeOK
    <3>2. mmap' = [j \in 1 .. Len(bios) |-> AlignedEntry(bios[j])]
      BY <2>1, <3>1 DEF AlignedMap
    <3>3. Len(mmap') = Len(bios)
      BY <3>1, <3>2
    <3> QED
      BY <1>2, <3>3 DEF AlignBootInfo, TypeInv, MapComputed
  <2> QED
    BY <1>2, <2>1, <2>2, <2>3, <2>4
       DEF AlignBootInfo, TypeInv, TypeOK, NothingYet, MapComputed, AlignedMap
<1>3. CASE CountPages
  <2> DEFINE top == IF HighestAddr < BOOT_MAP_LIM THEN HighestAddr ELSE BOOT_MAP_LIM
  <2>1. top \in Nat /\ top <= BOOT_MAP_LIM
    BY HighestAddrType, Sizes
  <2>2. npages' = top \div PAGE_SIZE
    BY <1>3 DEF CountPages
  <2> HIDE DEF top
  <2>3. /\ top \div PAGE_SIZE <= BOOT_MAP_LIM \div PAGE_SIZE
        /\ top \div PAGE_SIZE \in Nat /\ BOOT_MAP_LIM \div PAGE_SIZE \in Nat
    BY <2>1, Sizes, DivMonotonic, Down
  <2>4. freed' = <<>>
    BY <1>3 DEF CountPages, TypeInv, NothingYet
  <2> QED
    BY <1>3, <2>2, <2>3, <2>4
       DEF CountPages, TypeInv, TypeOK, NothingYet, MapComputed, AlignedMap
<1>4. CASE AllocPages
  <2>1. next_free' \in 0 .. WORD - 1
    <3>1. next_free + npages * StructSize \in Nat
      BY Sizes DEF TypeInv, TypeOK
    <3> QED
      BY <1>4, <3>1, RoundsToWord DEF AllocPages
  <2>2. i' \in 1 .. Len(mmap) + 1 /\ pa' \in 0 .. WORD - 1
    BY <1>4, FirstEntryType DEF AllocPages
  <2> QED
    BY <1>4, <2>1, <2>2
       DEF AllocPages, TypeInv, TypeOK, NothingYet, MapComputed, AlignedMap
<1>5. CASE PageInit
  <2> DEFINE skip == pa >= BOOT_MAP_LIM \/ addr_reserved(pa)
  <2>1. VisitPage(skip) /\ pc = "init"
    BY <1>5 DEF PageInit
  <2> HIDE DEF skip
  <2> QED
    BY <2>1, VisitTypes
<1>6. CASE PageInitExt
  <2> DEFINE skip == pa < BOOT_MAP_LIM
  <2>1. VisitPage(skip) /\ pc = "ext"
    BY <1>6 DEF PageInitExt
  <2> HIDE DEF skip
  <2> QED
    BY <2>1, VisitTypes
<1>7. CASE NextEntry
  <2>1. i \in Nat /\ Len(mmap) \in Nat /\ i <= Len(mmap)
    BY <1>7, MapFacts DEF NextEntry, TypeInv, TypeOK
  <2>2. i' \in 1 .. Len(mmap) + 1
    BY <1>7, <2>1 DEF NextEntry
  <2>3. pa' \in 0 .. WORD - 1
    <3>1. CASE i < Len(mmap)
      <4>1. i + 1 \in DOMAIN mmap
        BY <2>1, <3>1, MapFacts DEF TypeInv, TypeOK
      <4> QED
        BY <1>7, <3>1, <4>1, MapFacts DEF NextEntry
    <3>2. CASE ~ (i < Len(mmap))
      BY <1>7, <3>2 DEF NextEntry, TypeInv, TypeOK
    <3> QED
      BY <3>1, <3>2
  <2> QED
    BY <1>7, <2>2, <2>3
       DEF NextEntry, TypeInv, TypeOK, NothingYet, MapComputed, AlignedMap
<1>8. CASE LastEntryDone
  <2>1. i' \in 1 .. Len(mmap) + 1 /\ pa' \in 0 .. WORD - 1
    BY <1>8, FirstEntryType DEF LastEntryDone
  <2> QED
    BY <1>8, <2>1
       DEF LastEntryDone, TypeInv, TypeOK, NothingYet, MapComputed, AlignedMap
<1> QED
  BY <1>1, <1>2, <1>3, <1>4, <1>5, <1>6, <1>7, <1>8 DEF Next

\* Whatever memory map the firmware reports, the variables keep their types:
\* pages[] has no more entries than there is mapped memory, and page_free()
\* is only called for pages with one.
THEOREM TypeCorrect == Spec => []TypeOK
<1>1. Spec => []TypeInv
  BY InitTypes, StepTypes, PTL DEF Spec
<1>2. TypeInv => TypeOK
  BY DEF TypeInv
<1> QED
  BY <1>1, <1>2, PTL
-----------------------------------------------------------------------------
(* The free regions, once aligned *)

LEMMA Regions ==
    ASSUME OrderlyMaps, TypeInv, pc # "align", NEW j, FreeAt(j)
    PROVE  /\ mmap[j].addr = RoundUp(bios[j].addr)
           /\ End(mmap[j]) = RoundDown(bios[j].addr + bios[j].len)
           /\ bios[j].addr \in Nat /\ bios[j].len \in Nat /\ bios[j].type = FREE
           /\ j \in DOMAIN bios /\ j \in 1 .. Len(mmap)
           /\ bios[j].addr + bios[j].len <= WORD - PAGE_SIZE
           /\ mmap[j].addr \in Nat /\ OnBoundary(mmap[j].addr)
           /\ bios[j].addr <= mmap[j].addr
           /\ End(mmap[j]) \in Nat /\ OnBoundary(End(mmap[j]))
           /\ End(mmap[j]) <= bios[j].addr + bios[j].len
<1>1. j \in DOMAIN bios /\ mmap[j] = AlignedEntry(bios[j]) /\ j \in 1 .. Len(mmap)
  BY MapFacts DEF TypeInv, TypeOK, MapComputed, AlignedMap, FreeAt
<1>2. bios \in MemMaps /\ bios[j] \in Entries({bios[j].type}) /\ bios[j].type = FREE
  BY <1>1, MapType, MapFacts DEF TypeInv, TypeOK, FreeAt
<1>3. bios[j].addr + bios[j].len <= WORD - PAGE_SIZE
  BY <1>1, <1>2 DEF OrderlyMaps
<1>4. bios[j].addr \in Nat /\ bios[j].len \in Nat /\ bios[j] \in Entries({FREE})
  BY <1>2, Sizes DEF Entries
<1>5. /\ mmap[j].addr = RoundUp(bios[j].addr)
      /\ End(mmap[j]) = RoundDown(bios[j].addr + bios[j].len)
  BY <1>1, <1>3, <1>4, AlignedFree
<1>6. bios[j].addr + PAGE_SIZE <= WORD /\ bios[j].addr + bios[j].len \in Nat
  BY <1>3, <1>4, Sizes
<1>7. /\ mmap[j].addr \in Nat /\ OnBoundary(mmap[j].addr)
      /\ bios[j].addr <= mmap[j].addr
  BY <1>4, <1>5, <1>6, Up
<1>8. /\ End(mmap[j]) \in Nat /\ OnBoundary(End(mmap[j]))
      /\ End(mmap[j]) <= bios[j].addr + bios[j].len
  BY <1>5, <1>6, Down
<1> QED
  BY <1>1, <1>2, <1>3, <1>4, <1>5, <1>7, <1>8

\* Aligning keeps the regions apart and in order.
LEMMA RegionsApart ==
    ASSUME OrderlyMaps, TypeInv, pc # "align",
           NEW j, FreeAt(j), NEW k, FreeAt(k), j < k
    PROVE  /\ End(mmap[j]) <= mmap[k].addr /\ End(mmap[j]) <= End(mmap[k])
           /\ bios[j].addr + bios[j].len <= bios[k].addr
<1>1. bios \in MemMaps
  BY DEF TypeInv, TypeOK
<1>2. /\ bios[j].addr \in Nat /\ bios[j].len \in Nat /\ bios[j].type = FREE
      /\ j \in DOMAIN bios /\ End(mmap[j]) \in Nat /\ OnBoundary(End(mmap[j]))
      /\ End(mmap[j]) <= bios[j].addr + bios[j].len
  BY Regions
<1>3. /\ bios[k].addr \in Nat /\ bios[k].len \in Nat /\ bios[k].type = FREE
      /\ k \in DOMAIN bios /\ mmap[k].addr \in Nat /\ bios[k].addr <= mmap[k].addr
      /\ End(mmap[k]) = RoundDown(bios[k].addr + bios[k].len)
  BY Regions
<1>4. bios[j].addr + bios[j].len <= bios[k].addr
  BY <1>1, <1>2, <1>3 DEF OrderlyMaps
<1>5. End(mmap[j]) <= bios[k].addr + bios[k].len /\ bios[k].addr + bios[k].len \in Nat
  BY <1>2, <1>3, <1>4
<1>6. End(mmap[j]) <= RoundDown(bios[k].addr + bios[k].len)
  BY <1>2, <1>5, Down
<1>7. End(mmap[j]) <= mmap[k].addr
  BY <1>2, <1>3, <1>4
<1> QED
  BY <1>3, <1>4, <1>6, <1>7

\* highest_addr, taken from the last free region, bounds them all, though a
\* last region without a whole page ends before it begins.
LEMMA HighestBounds ==
    ASSUME OrderlyMaps, TypeInv, pc # "align", NEW j, FreeAt(j)
    PROVE  End(mmap[j]) <= HighestAddr /\ HighestAddr \in Nat
<1> DEFINE F == {k \in DOMAIN mmap : mmap[k].type = FREE}
           h == CHOOSE k \in F : \A l \in F : l <= k
<1>1. j \in F /\ F \subseteq Nat /\ \A k \in F : k <= Len(mmap)
  BY MapFacts DEF FreeAt
<1>2. HighestAddr = End(mmap[h])
  BY <1>1 DEF HighestAddr
<1>3. \E k \in F : \A l \in F : l <= k
  <2>1. Len(mmap) \in Nat
    BY MapFacts
  <2> HIDE DEF F
  <2> QED
    BY <1>1, <2>1, GreatestElement
<1>4. h \in F /\ j <= h /\ h \in Nat /\ j \in Nat
  <2> HIDE DEF F
  <2> QED
    BY <1>1, <1>3
<1> HIDE DEF h
<1>5. FreeAt(h)
  BY <1>4 DEF FreeAt
<1>6. CASE j = h
  BY <1>2, <1>6, Regions
<1>7. CASE j # h
  <2>1. j < h
    BY <1>4, <1>7
  <2>2. End(mmap[h]) \in Nat
    BY <1>5, Regions
  <2> QED
    BY <1>2, <1>5, <2>1, <2>2, RegionsApart
<1> QED
  BY <1>6, <1>7

\* Whatever lies in a free region and in mapped memory has a struct page_info.
LEMMA HasStruct ==
    ASSUME OrderlyMaps, BootInv, pc \notin {"align", "count"},
           NEW j, FreeAt(j), NEW p \in Nat, Within(p, j), p * PAGE_SIZE < BOOT_MAP_LIM
    PROVE  p < npages
<1> DEFINE a == p * PAGE_SIZE
           top == IF HighestAddr < BOOT_MAP_LIM THEN HighestAddr ELSE BOOT_MAP_LIM
<1>1. TypeInv
  BY DEF BootInv, Computed, TypeInv
<1>2. /\ a \in Nat /\ OnBoundary(a) /\ (p + 1) * PAGE_SIZE = a + PAGE_SIZE
      /\ ((p + 1) * PAGE_SIZE) \div PAGE_SIZE = p + 1
  BY PageNumber
<1>3. End(mmap[j]) \in Nat /\ OnBoundary(End(mmap[j]))
  BY <1>1, Regions
<1>4. End(mmap[j]) <= HighestAddr /\ HighestAddr \in Nat
  BY <1>1, HighestBounds
<1>5. a < End(mmap[j])
  BY DEF Within
<1> HIDE DEF a
<1>6. a + PAGE_SIZE <= End(mmap[j]) /\ a + PAGE_SIZE <= BOOT_MAP_LIM
  <2>1. a < BOOT_MAP_LIM
    BY DEF a
  <2> QED
    BY <1>2, <1>3, <1>5, <2>1, Apart, Sizes
<1>7. a + PAGE_SIZE <= top /\ top \in Nat /\ a + PAGE_SIZE \in Nat
  BY <1>2, <1>3, <1>4, <1>6, Sizes
<1>8. npages = top \div PAGE_SIZE
  BY DEF BootInv, Computed
<1> HIDE DEF top
<1>9. (a + PAGE_SIZE) \div PAGE_SIZE <= top \div PAGE_SIZE
  BY <1>7, DivMonotonic
<1>10. p + 1 <= top \div PAGE_SIZE /\ top \div PAGE_SIZE \in Nat
  BY <1>2, <1>7, <1>9, Down
<1> QED
  BY <1>8, <1>10

-----------------------------------------------------------------------------
(* What a step of the loops passes *)

\* The page at pa, inside a free region.
LEMMA PageAt ==
    ASSUME OrderlyMaps, BootInv, pc \in {"init", "ext"}, InRegion
    PROVE  /\ pa \in Nat /\ pa \div PAGE_SIZE \in Nat
           /\ (pa \div PAGE_SIZE) * PAGE_SIZE = pa /\ OnBoundary(pa)
           /\ FreeAt(i) /\ Within(pa \div PAGE_SIZE, i)
           /\ pa + PAGE_SIZE <= End(mmap[i])
           /\ (pa + PAGE_SIZE) % WORD = pa + PAGE_SIZE
<1>1. TypeInv /\ pc # "align"
  BY DEF BootInv, Computed, TypeInv
<1>2. FreeAt(i) /\ pa < End(mmap[i])
  BY <1>1, MapFacts DEF InRegion, FreeAt, TypeInv, TypeOK
<1>3. OnBoundary(pa) /\ mmap[i].addr <= pa /\ pa \in Nat
  BY <1>1, <1>2 DEF BootInv, OnPage, TypeInv, TypeOK
<1>4. /\ End(mmap[i]) \in Nat /\ OnBoundary(End(mmap[i]))
      /\ End(mmap[i]) <= bios[i].addr + bios[i].len
      /\ bios[i].addr + bios[i].len <= WORD - PAGE_SIZE
      /\ bios[i].addr \in Nat /\ bios[i].len \in Nat
  BY <1>1, <1>2, Regions
<1>5. pa + PAGE_SIZE <= End(mmap[i])
  BY <1>2, <1>3, <1>4, Apart
<1>6. pa + PAGE_SIZE \in Nat /\ pa + PAGE_SIZE < WORD
  BY <1>3, <1>4, <1>5, Sizes
<1>7. (pa + PAGE_SIZE) % WORD = pa + PAGE_SIZE
  BY <1>6, SmallMod, Sizes
<1>8. (pa \div PAGE_SIZE) * PAGE_SIZE = pa /\ pa \div PAGE_SIZE \in Nat
  BY <1>3, Boundary
<1>9. Within(pa \div PAGE_SIZE, i)
  BY <1>2, <1>3, <1>8 DEF Within
<1> QED
  BY <1>2, <1>3, <1>5, <1>7, <1>8, <1>9

\* It has not been passed before.
LEMMA NotPassedYet ==
    ASSUME OrderlyMaps, BootInv, pc = "init", InRegion
    PROVE  ~ Passed(pa \div PAGE_SIZE)
<1> DEFINE q == pa \div PAGE_SIZE
<1>1. TypeInv /\ pc # "align"
  BY DEF BootInv, Computed, TypeInv
<1>2. /\ pa \in Nat /\ q * PAGE_SIZE = pa /\ FreeAt(i) /\ Within(q, i)
  BY PageAt
<1> HIDE DEF q
<1>3. ASSUME NEW j \in DOMAIN mmap, mmap[j].type = FREE, Within(q, j), j < i
      PROVE  FALSE
  <2>1. FreeAt(j)
    BY <1>3 DEF FreeAt
  <2>2. End(mmap[j]) <= mmap[i].addr /\ End(mmap[j]) \in Nat /\ mmap[i].addr \in Nat
    BY <1>1, <1>2, <1>3, <2>1, RegionsApart, Regions
  <2> QED
    BY <1>2, <1>3, <2>2 DEF Within
<1> QED
  BY <1>2, <1>3 DEF Passed, q

LEMMA PassedVisiting ==
    ASSUME OrderlyMaps, BootInv, pc = "init", pc' = "init",
           NEW skip, VisitPage(skip), NEW p \in Nat
    PROVE  Passed(p)' <=> Passed(p) \/ p = pa \div PAGE_SIZE
<1> DEFINE q == pa \div PAGE_SIZE
<1>1. InRegion
  BY DEF VisitPage
<1>2. /\ pa \in Nat /\ q \in Nat /\ q * PAGE_SIZE = pa /\ OnBoundary(pa)
      /\ FreeAt(i) /\ Within(q, i) /\ (pa + PAGE_SIZE) % WORD = pa + PAGE_SIZE
  BY <1>1, PageAt
<1>3. pa' = pa + PAGE_SIZE /\ UNCHANGED <<mmap, i>>
  BY <1>2 DEF VisitPage
<1>4. p * PAGE_SIZE \in Nat /\ OnBoundary(p * PAGE_SIZE) /\ (p * PAGE_SIZE) \div PAGE_SIZE = p
  BY PageNumber
<1>5. p * PAGE_SIZE < pa + PAGE_SIZE <=> p * PAGE_SIZE < pa \/ p = q
  <2>1. CASE pa < p * PAGE_SIZE
    <3>1. pa + PAGE_SIZE <= p * PAGE_SIZE
      BY <1>2, <1>4, <2>1, Apart
    <3>2. p # q
      BY <1>2, <2>1
    <3> QED
      BY <1>2, <1>4, <2>1, <3>1, <3>2, Sizes
  <2>2. CASE p * PAGE_SIZE < pa
    BY <1>2, <1>4, <2>2, Sizes
  <2>3. CASE p * PAGE_SIZE = pa
    BY <1>2, <1>4, <2>3, Sizes
  <2> QED
    BY <1>2, <1>4, <2>1, <2>2, <2>3
<1> HIDE DEF q
<1>6. \A j \in DOMAIN mmap : Within(p, j)' <=> Within(p, j)
  BY <1>3 DEF Within
<1>7. Passed(p)' <=> \E j \in DOMAIN mmap :
          /\ mmap[j].type = FREE /\ Within(p, j)
          /\ j < i \/ (j = i /\ p * PAGE_SIZE < pa + PAGE_SIZE)
  BY <1>3, <1>6 DEF Passed
<1>8. Passed(p) <=> \E j \in DOMAIN mmap :
          /\ mmap[j].type = FREE /\ Within(p, j)
          /\ j < i \/ (j = i /\ p * PAGE_SIZE < pa)
  BY DEF Passed
<1> QED
  BY <1>2, <1>5, <1>7, <1>8 DEF FreeAt, q

LEMMA PassedNext ==
    ASSUME OrderlyMaps, BootInv, pc = "init", NextEntry, NEW p \in Nat
    PROVE  Passed(p)' <=> Passed(p)
<1>1. TypeInv /\ pc # "align"
  BY DEF BootInv, Computed, TypeInv
<1>2. /\ i \in Nat /\ Len(mmap) \in Nat /\ i <= Len(mmap) /\ pa \in Nat
      /\ DOMAIN mmap = 1 .. Len(mmap) /\ i \in DOMAIN mmap
  BY <1>1, MapFacts DEF NextEntry, TypeInv, TypeOK
<1>3. i' = i + 1 /\ UNCHANGED <<mmap, pc>>
  BY DEF NextEntry
<1>4. p * PAGE_SIZE \in Nat
  BY PageNumber
<1>5. \A j \in DOMAIN mmap : Within(p, j)' <=> Within(p, j)
  BY <1>3 DEF Within
<1>6. ASSUME NEW j \in DOMAIN mmap, mmap[j].type = FREE, Within(p, j)
      PROVE  /\ j < i + 1 <=> j < i \/ (j = i /\ p * PAGE_SIZE < pa)
             /\ ~ (j = i + 1 /\ p * PAGE_SIZE < pa')
  <2>1. mmap[j].addr \in Nat /\ End(mmap[j]) \in Nat
    BY <1>1, <1>6, Regions DEF FreeAt
  <2>2. j \in Nat /\ j <= Len(mmap)
    BY <1>2
  <2>3. j = i => p * PAGE_SIZE < pa
    <3>1. ~ InRegion
      BY DEF NextEntry
    <3> QED
      BY <1>2, <1>4, <1>6, <2>1, <3>1 DEF InRegion, Within
  <2>4. ~ (j = i + 1 /\ p * PAGE_SIZE < pa')
    <3>1. j = i + 1 => pa' = mmap[j].addr
      BY <1>2, <2>2 DEF NextEntry
    <3> QED
      BY <1>4, <1>6, <2>1, <3>1 DEF Within
  <2> QED
    BY <1>2, <2>2, <2>3, <2>4
<1>7. Passed(p)' <=> \E j \in DOMAIN mmap :
          /\ mmap[j].type = FREE /\ Within(p, j)
          /\ j < i + 1 \/ (j = i + 1 /\ p * PAGE_SIZE < pa')
  BY <1>3, <1>5 DEF Passed
<1>8. Passed(p) <=> \E j \in DOMAIN mmap :
          /\ mmap[j].type = FREE /\ Within(p, j)
          /\ j < i \/ (j = i /\ p * PAGE_SIZE < pa)
  BY DEF Passed
<1> QED
  BY <1>6, <1>7, <1>8

\* At the end of the loop over the map every region has been passed, and at its
\* beginning none.
LEMMA PassedAll ==
    ASSUME BootInv, pc = "init", LastEntryDone, NEW p \in Nat
    PROVE  Passed(p)' <=> Passed(p)
<1>1. TypeInv
  BY DEF BootInv, Computed, TypeInv
<1>2. i \in Nat /\ Len(mmap) \in Nat /\ i > Len(mmap) /\ DOMAIN mmap = 1 .. Len(mmap)
  BY <1>1, MapFacts DEF LastEntryDone, TypeInv, TypeOK
<1>3. \A j \in DOMAIN mmap : j < i
  BY <1>2
<1>4. mmap' = mmap /\ pc' = "ext"
  BY DEF LastEntryDone
<1>5. \A j \in DOMAIN mmap : Within(p, j)' <=> Within(p, j)
  BY <1>4 DEF Within
<1>6. Passed(p)' <=> \E j \in DOMAIN mmap : mmap[j].type = FREE /\ Within(p, j)
  BY <1>4, <1>5 DEF Passed
<1> QED
  BY <1>3, <1>6 DEF Passed

LEMMA PassedNone ==
    ASSUME OrderlyMaps, BootInv, AllocPages, pc' = "init", NEW p \in Nat
    PROVE  ~ Passed(p)'
<1>1. TypeInv /\ pc # "align"
  BY DEF BootInv, Computed, TypeInv, AllocPages
<1>2. i' = 1 /\ mmap' = mmap /\ pa' = IF mmap = <<>> THEN 0 ELSE mmap[1].addr
  BY DEF AllocPages, FromFirstEntry
<1>3. ASSUME NEW j \in DOMAIN mmap, mmap[j].type = FREE, Within(p, j)
      PROVE  ~ (j < 1 \/ (j = 1 /\ p * PAGE_SIZE < pa'))
  <2>1. mmap[j].addr \in Nat
    BY <1>1, <1>3, Regions DEF FreeAt
  <2>2. j \in Nat /\ j >= 1 /\ mmap # <<>>
    BY <1>1, MapFacts
  <2>3. p * PAGE_SIZE \in Nat
    BY PageNumber
  <2>4. j = 1 => pa' = mmap[j].addr
    BY <1>2, <2>2
  <2> QED
    BY <1>3, <2>1, <2>2, <2>3, <2>4 DEF Within
<1>4. \A j \in DOMAIN mmap : Within(p, j)' <=> Within(p, j)
  BY <1>2 DEF Within
<1>5. Passed(p)' <=> \E j \in DOMAIN mmap :
          /\ mmap[j].type = FREE /\ Within(p, j)
          /\ j < 1 \/ (j = 1 /\ p * PAGE_SIZE < pa')
  BY <1>2, <1>4 DEF Passed
<1> QED
  BY <1>3, <1>5
-----------------------------------------------------------------------------
(* The invariant holds *)

\* A step that leaves the array of pages and what is passed alone preserves what
\* the invariant says of the freed pages.
LEMMA SameFreed ==
    ASSUME FreedPassed, FreedOnce, UNCHANGED <<freed, next_free>>,
           pc \in {"init", "ext", "done", "panic"},
           pc' \in {"init", "ext", "done"} => pc \in {"init", "ext", "done"},
           pc' \in {"init", "ext", "done", "panic"},
           freed \in Seq(Nat),
           pc' # "panic" => \A p \in Nat : Passed(p)' => Passed(p) \/ ~ Wanted(p),
           \A p \in Nat : Passed(p) => Passed(p)'
    PROVE  FreedPassed' /\ FreedOnce'
<1>1. \A p : Wanted(p)' <=> Wanted(p)
  BY DEF Wanted, addr_reserved
<1>2. ToSet(freed) \subseteq Nat
  BY ElementOfSeq, LenProperties DEF ToSet
<1>3. \A p \in ToSet(freed)' : Passed(p)' /\ Wanted(p)'
  BY <1>1, <1>2 DEF FreedPassed, ToSet
<1>4. ASSUME pc' \in {"init", "ext", "done"}, NEW p \in Nat, Passed(p)', Wanted(p)'
      PROVE  p \in ToSet(freed)'
  <2>1. Passed(p) /\ Wanted(p)
    BY <1>1, <1>4
  <2> QED
    BY <1>4, <2>1 DEF FreedPassed, ToSet
<1>5. FreedOnce'
  BY DEF FreedOnce, IsInjective
<1> QED
  BY <1>3, <1>4, <1>5 DEF FreedPassed

\* A page handed over once more, which had not been.
LEMMA OneMoreFreed ==
    ASSUME FreedPassed, FreedOnce, pc = "init", pc' = "init", next_free' = next_free,
           freed \in Seq(Nat), NEW q \in Nat, freed' = Append(freed, q),
           ~ Passed(q), Wanted(q),
           \A p \in Nat : Passed(p)' <=> Passed(p) \/ p = q
    PROVE  FreedPassed' /\ FreedOnce'
<1>1. \A p : Wanted(p)' <=> Wanted(p)
  BY DEF Wanted, addr_reserved
<1>2. /\ Len(freed) \in Nat /\ DOMAIN freed = 1 .. Len(freed)
      /\ DOMAIN freed' = 1 .. Len(freed) + 1 /\ freed'[Len(freed) + 1] = q
      /\ \A k \in 1 .. Len(freed) : freed'[k] = freed[k]
  <2>1. freed' \in Seq(Nat) /\ Len(freed') = Len(freed) + 1
    BY AppendProperties
  <2> QED
    BY <2>1, LenProperties, AppendProperties
<1>3. ToSet(freed) \subseteq Nat
  BY ElementOfSeq, LenProperties DEF ToSet
<1>4. ToSet(freed') = ToSet(freed) \cup {q}
  <2>1. \A k \in 1 .. Len(freed) : freed[k] \in ToSet(freed)
    BY <1>2 DEF ToSet
  <2>2. ToSet(freed') = {freed'[k] : k \in 1 .. Len(freed) + 1}
    BY <1>2 DEF ToSet
  <2>3. ToSet(freed) = {freed[k] : k \in 1 .. Len(freed)}
    BY <1>2 DEF ToSet
  <2>4. 1 .. Len(freed) + 1 = 1 .. Len(freed) \cup {Len(freed) + 1}
    BY <1>2
  <2> QED
    BY <1>2, <2>2, <2>3, <2>4
<1>5. q \notin ToSet(freed)
  BY DEF FreedPassed
<1>6. FreedPassed'
  <2>1. ToSet(freed)' = ToSet(freed')
    BY DEF ToSet
  <2>2. \A p \in ToSet(freed)' : Passed(p)' /\ Wanted(p)'
    BY <1>1, <1>3, <1>4, <2>1 DEF FreedPassed
  <2>3. \A p \in Nat : Passed(p)' /\ Wanted(p)' => p \in ToSet(freed)'
    BY <1>1, <1>4, <2>1 DEF FreedPassed
  <2> QED
    BY <2>2, <2>3 DEF FreedPassed
<1>7. FreedOnce'
  <2>1. \A j \in DOMAIN freed : freed[j] # q
    BY <1>5 DEF ToSet
  <2>2. \A j, k \in DOMAIN freed : freed[j] = freed[k] => j = k
    BY DEF FreedOnce, IsInjective
  <2>3. ASSUME NEW j \in DOMAIN freed', NEW k \in DOMAIN freed', freed'[j] = freed'[k]
        PROVE  j = k
    <3>1. CASE j \in DOMAIN freed /\ k \in DOMAIN freed
      BY <1>2, <2>2, <2>3, <3>1
    <3>2. CASE j \notin DOMAIN freed \/ k \notin DOMAIN freed
      <4>1. \A l \in DOMAIN freed' : l \in DOMAIN freed \/ l = Len(freed) + 1
        BY <1>2
      <4> QED
        BY <1>2, <2>1, <2>3, <3>2, <4>1
    <3> QED
      BY <3>1, <3>2
  <2> QED
    BY <2>3 DEF FreedOnce, IsInjective
<1> QED
  BY <1>6, <1>7

\* page_init() looks at a page: the one case in which something is freed.
LEMMA PageInitStep ==
    ASSUME OrderlyMaps, BootInv, PageInit
    PROVE  pc' = "init" /\ FreedPassed' /\ FreedOnce'
<1> DEFINE q == pa \div PAGE_SIZE
           skip == pa >= BOOT_MAP_LIM \/ addr_reserved(pa)
<1>1. TypeInv /\ pc = "init" /\ VisitPage(skip) /\ InRegion
  BY DEF BootInv, Computed, TypeInv, PageInit, VisitPage
<1>2. pa \in Nat /\ q \in Nat /\ q * PAGE_SIZE = pa /\ FreeAt(i) /\ Within(q, i)
  BY <1>1, PageAt
<1>3. Wanted(q) <=> ~ skip
  BY <1>2, Sizes DEF Wanted
<1>4. freed \in Seq(Nat)
  <2>1. 0 .. npages - 1 \subseteq Nat /\ freed \in Seq(0 .. npages - 1)
    BY DEF BootInv, TypeOK
  <2> QED
    BY <2>1, SeqMonotonic
<1>5. ~ Passed(q)
  BY <1>1, NotPassedYet
<1>6. FreedPassed /\ FreedOnce
  BY DEF BootInv
<1> HIDE DEF q, skip
<1>7. CASE skip
  <2>1. pc' = "init" /\ freed' = freed /\ next_free' = next_free
    BY <1>1, <1>7 DEF VisitPage
  <2>2. \A p \in Nat : Passed(p)' <=> Passed(p) \/ p = q
    BY <1>1, <2>1, PassedVisiting DEF q
  <2> QED
    BY <1>1, <1>3, <1>4, <1>6, <1>7, <2>1, <2>2, SameFreed
<1>8. CASE ~ skip
  <2>1. q * PAGE_SIZE < BOOT_MAP_LIM
    BY <1>3, <1>8 DEF Wanted
  <2>2. q < npages
    BY <1>1, <1>2, <2>1, HasStruct
  <2>3. pc' = "init" /\ freed' = Append(freed, q) /\ next_free' = next_free
    BY <1>1, <1>8, <2>2 DEF VisitPage, HandOver, q
  <2>4. \A p \in Nat : Passed(p)' <=> Passed(p) \/ p = q
    BY <1>1, <2>3, PassedVisiting DEF q
  <2> QED
    BY <1>1, <1>2, <1>3, <1>4, <1>5, <1>6, <1>8, <2>3, <2>4, OneMoreFreed
<1> QED
  BY <1>7, <1>8

\* page_init_ext() frees nothing: a page it does not skip has no struct.
LEMMA PageInitExtStep ==
    ASSUME OrderlyMaps, BootInv, PageInitExt
    PROVE  freed' = freed /\ pc' \in {"ext", "panic"}
<1>1. pc = "ext" /\ VisitPage(pa < BOOT_MAP_LIM) /\ TypeOK /\ InRegion
  BY DEF BootInv, PageInitExt, VisitPage
<1>2. CASE pa < BOOT_MAP_LIM
  BY <1>1, <1>2 DEF VisitPage
<1>3. CASE ~ (pa < BOOT_MAP_LIM)
  <2>1. BOOT_MAP_LIM \div PAGE_SIZE <= pa \div PAGE_SIZE
    BY <1>1, <1>3, Sizes, DivMonotonic DEF TypeOK
  <2>2. /\ pa \div PAGE_SIZE \in Nat /\ BOOT_MAP_LIM \div PAGE_SIZE \in Nat
        /\ npages \in Nat /\ npages <= BOOT_MAP_LIM \div PAGE_SIZE
    <3>1. pa \in Nat
      BY <1>1 DEF TypeOK
    <3>2. pa \div PAGE_SIZE \in Nat /\ BOOT_MAP_LIM \div PAGE_SIZE \in Nat
      BY <3>1, Sizes, Down
    <3> QED
      BY <1>1, <3>2 DEF TypeOK
  <2>3. ~ (pa \div PAGE_SIZE < npages)
    BY <2>1, <2>2
  <2> QED
    BY <1>1, <1>3, <2>3 DEF VisitPage, HandOver
<1> QED
  BY <1>2, <1>3

LEMMA OnPageStep ==
    ASSUME OrderlyMaps, BootInv, Next, TypeInv'
    PROVE  OnPage'
<1>1. TypeInv
  BY DEF BootInv, Computed, TypeInv
<1>2. ASSUME FromFirstEntry, mmap' = mmap, pc # "align"
      PROVE  OnPage'
  <2>1. SUFFICES ASSUME FreeAt(1)
                 PROVE  OnBoundary(mmap[1].addr) /\ mmap[1].addr \in Nat /\ mmap # <<>>
    BY <1>2, Sizes DEF OnPage, FromFirstEntry, FreeAt, OnBoundary
  <2> QED
    BY <1>1, <1>2, <2>1, Regions, MapFacts DEF FreeAt
<1>3. ASSUME NEW skip, VisitPage(skip), pc \in {"init", "ext"}
      PROVE  OnPage'
  <2>1. /\ pa \in Nat /\ FreeAt(i) /\ OnBoundary(pa)
        /\ pa + PAGE_SIZE <= End(mmap[i])
        /\ (pa + PAGE_SIZE) % WORD = pa + PAGE_SIZE
    BY <1>3, PageAt DEF VisitPage
  <2>2. mmap[i].addr \in Nat /\ mmap[i].addr <= pa
    BY <1>1, <1>3, <2>1, Regions DEF BootInv, OnPage
  <2>3. pa' = pa + PAGE_SIZE /\ UNCHANGED <<mmap, i>>
    BY <1>3, <2>1 DEF VisitPage
  <2>4. OnBoundary(pa + PAGE_SIZE)
    BY <2>1, NextBoundary
  <2>5. mmap[i].addr <= pa + PAGE_SIZE
    BY <2>1, <2>2, Sizes
  <2>6. OnBoundary(pa') /\ mmap'[i'].addr <= pa' /\ pa' <= End(mmap'[i'])
    BY <2>1, <2>3, <2>4, <2>5
  <2> QED
    BY <2>6 DEF OnPage, OnBoundary, End
<1>4. CASE AlignBootInfo
  BY <1>4 DEF AlignBootInfo, OnPage
<1>5. CASE CountPages
  BY <1>5 DEF CountPages, OnPage
<1>6. CASE AllocPages
  BY <1>2, <1>6 DEF AllocPages
<1>7. CASE PageInit
  BY <1>3, <1>7 DEF PageInit
<1>8. CASE PageInitExt
  BY <1>3, <1>8 DEF PageInitExt
<1>9. CASE NextEntry
  <2>1. i' = i + 1 /\ mmap' = mmap /\ pc' = pc /\ i \in Nat /\ Len(mmap) \in Nat
    BY <1>1, <1>9, MapFacts DEF NextEntry, TypeInv, TypeOK
  <2>2. SUFFICES ASSUME FreeAt(i + 1), pc \in {"init", "ext"}
                 PROVE  /\ OnBoundary(mmap[i + 1].addr) /\ mmap[i + 1].addr \in Nat
                        /\ pa' = mmap[i + 1].addr
    BY <2>1 DEF OnPage, FreeAt, OnBoundary
  <2>3. i < Len(mmap)
    BY <1>1, <2>1, <2>2, MapFacts DEF FreeAt
  <2> QED
    BY <1>1, <1>9, <2>2, <2>3, Regions DEF NextEntry
<1>10. CASE LastEntryDone
  BY <1>2, <1>10 DEF LastEntryDone
<1> QED
  BY <1>4, <1>5, <1>6, <1>7, <1>8, <1>9, <1>10 DEF Next
LEMMA ComputedStep ==
    ASSUME BootInv, Next, TypeInv'
    PROVE  Computed'
<1>1. ASSUME mmap' = mmap
      PROVE  HighestAddr' = HighestAddr
  BY <1>1 DEF HighestAddr, End
<1>2. MapComputed' /\ NothingYet'
  BY DEF TypeInv
<1>3. CASE AlignBootInfo
  BY <1>2, <1>3 DEF AlignBootInfo, BootInv, Computed
<1>4. CASE CountPages
  BY <1>1, <1>2, <1>4 DEF CountPages, BootInv, Computed
<1>5. CASE AllocPages
  BY <1>1, <1>2, <1>5 DEF AllocPages, BootInv, Computed
<1>6. CASE PageInit \/ PageInitExt
  <2>1. PICK skip : VisitPage(skip) /\ pc \in {"init", "ext"}
    BY <1>6 DEF PageInit, PageInitExt
  <2>2. pc' \in {"init", "ext", "panic"}
    BY <2>1 DEF VisitPage, HandOver
  <2> QED
    BY <1>1, <1>2, <2>1, <2>2 DEF VisitPage, BootInv, Computed
<1>7. CASE NextEntry
  BY <1>1, <1>2, <1>7 DEF NextEntry, BootInv, Computed
<1>8. CASE LastEntryDone
  BY <1>1, <1>2, <1>8 DEF LastEntryDone, BootInv, Computed
<1> QED
  BY <1>3, <1>4, <1>5, <1>6, <1>7, <1>8 DEF Next

LEMMA FreedStep ==
    ASSUME OrderlyMaps, BootInv, Next
    PROVE  FreedPassed' /\ FreedOnce'
<1>1. FreedPassed /\ FreedOnce
  BY DEF BootInv
<1>2. freed \in Seq(Nat)
  <2>1. 0 .. npages - 1 \subseteq Nat /\ freed \in Seq(0 .. npages - 1)
    BY DEF BootInv, TypeOK
  <2> QED
    BY <2>1, SeqMonotonic
<1>3. ASSUME pc # "init", pc' # "init", mmap' = mmap
      PROVE  \A p \in Nat : Passed(p)' <=> Passed(p)
  <2>1. \A p : Passed(p)' <=> \E j \in DOMAIN mmap : mmap[j].type = FREE /\ Within(p, j)
    BY <1>3 DEF Passed, Within, End
  <2>2. \A p : Passed(p) <=> \E j \in DOMAIN mmap : mmap[j].type = FREE /\ Within(p, j)
    BY <1>3 DEF Passed
  <2> QED
    BY <2>1, <2>2
<1>4. CASE AlignBootInfo \/ CountPages
  <2>1. pc' \in {"count", "alloc"} /\ freed' = freed
    BY <1>4 DEF AlignBootInfo, CountPages
  <2> QED
    BY <1>1, <2>1 DEF FreedPassed, FreedOnce, IsInjective
<1>5. CASE AllocPages
  <2>1. freed = <<>> /\ freed' = <<>> /\ pc' \in {"init", "panic"}
    BY <1>5 DEF AllocPages, BootInv, Computed, NothingYet
  <2>2. ToSet(freed)' = {} /\ FreedOnce'
    BY <2>1 DEF ToSet, FreedOnce, IsInjective
  <2>3. pc' = "init" => \A p \in Nat : ~ Passed(p)'
    BY <1>5, PassedNone
  <2> QED
    BY <2>1, <2>2, <2>3 DEF FreedPassed
<1>6. CASE PageInit
  BY <1>6, PageInitStep
<1>7. CASE PageInitExt
  <2>1. UNCHANGED <<freed, next_free, mmap>> /\ pc = "ext" /\ pc' \in {"ext", "panic"}
    BY <1>7, PageInitExtStep DEF PageInitExt, VisitPage
  <2>2. \A p \in Nat : Passed(p)' <=> Passed(p)
    BY <1>3, <2>1
  <2> QED
    BY <1>1, <1>2, <2>1, <2>2, SameFreed
<1>8. CASE NextEntry
  <2>1. UNCHANGED <<freed, next_free, mmap, pc>> /\ pc \in {"init", "ext"}
    BY <1>8 DEF NextEntry
  <2>2. \A p \in Nat : Passed(p)' <=> Passed(p)
    BY <1>3, <1>8, <2>1, PassedNext
  <2> QED
    BY <1>1, <1>2, <2>1, <2>2, SameFreed
<1>9. CASE LastEntryDone
  <2>1. /\ UNCHANGED <<freed, next_free, mmap>> /\ pc \in {"init", "ext"}
        /\ pc' \in {"ext", "done"}
    BY <1>9 DEF LastEntryDone
  <2>2. \A p \in Nat : Passed(p)' <=> Passed(p)
    BY <1>3, <1>9, <2>1, PassedAll DEF BootInv
  <2> QED
    BY <1>1, <1>2, <2>1, <2>2, SameFreed
<1> QED
  BY <1>4, <1>5, <1>6, <1>7, <1>8, <1>9 DEF Next

LEMMA BootInitial == Init => BootInv
<1> SUFFICES ASSUME Init
             PROVE  BootInv
  OBVIOUS
<1>1. TypeInv
  BY InitTypes
<1>2. Computed
  BY <1>1 DEF Init, Computed, TypeInv
<1>3. OnPage /\ FreedPassed
  BY DEF Init, OnPage, FreedPassed
<1>4. FreedOnce
  BY DEF Init, FreedOnce, IsInjective
<1> QED
  BY <1>1, <1>2, <1>3, <1>4 DEF BootInv, TypeInv

LEMMA BootStep ==
    ASSUME OrderlyMaps, BootInv, [Next]_vars
    PROVE  BootInv'
<1>1. CASE UNCHANGED vars
  <2>1. \A p : Passed(p)' <=> Passed(p)
    BY <1>1 DEF vars, Passed, Within, End
  <2>2. \A p : Wanted(p)' <=> Wanted(p)
    BY <1>1 DEF vars, Wanted, addr_reserved
  <2>3. HighestAddr' = HighestAddr
    BY <1>1 DEF vars, HighestAddr, End
  <2>4. OnPage'
    BY <1>1 DEF vars, BootInv, OnPage, FreeAt, OnBoundary, End
  <2>5. FreedPassed' /\ FreedOnce'
    BY <1>1, <2>1, <2>2 DEF vars, BootInv, FreedPassed, FreedOnce, IsInjective, ToSet
  <2>6. TypeOK' /\ Computed'
    BY <1>1, <2>3
       DEF vars, BootInv, TypeOK, Computed, MapComputed, AlignedMap, NothingYet
  <2> QED
    BY <2>4, <2>5, <2>6 DEF BootInv
<1>2. CASE Next
  <2>1. TypeInv
    BY DEF BootInv, Computed, TypeInv
  <2>2. TypeInv'
    BY <1>2, <2>1, StepTypes
  <2> QED
    BY <1>2, <2>2, ComputedStep, OnPageStep, FreedStep DEF BootInv, TypeInv
<1> QED
  BY <1>1, <1>2

\* The invariant above holds on every map with orderly free regions.
THEOREM Inductive ==
    ASSUME OrderlyMaps
    PROVE  Spec => []BootInv
<1>1. BootInv /\ [Next]_vars => BootInv'
  BY BootStep
<1> QED
  BY <1>1, BootInitial, PTL DEF Spec

-----------------------------------------------------------------------------
(* What follows from it *)

\* page_init() hands no page to page_free() twice, which would put the page into
\* two blocks of the allocator.
THEOREM FreedOnceHolds ==
    ASSUME OrderlyMaps
    PROVE  Spec => []FreedOnce
<1>1. BootInv => FreedOnce
  BY DEF BootInv
<1> QED
  BY <1>1, Inductive, PTL

\* What Buddy assumes of its BootPages (BuddyAssumption and the assumption that
\* there is a page), said of freed.
BootPagesFit ==
    pc \in {"init", "ext", "done"} =>
        /\ npages \in Nat \ {0}
        /\ freed \in Seq(0 .. npages - 1)
        /\ \A a, b \in DOMAIN freed : freed[a] = freed[b] => a = b

\* pages[] exists before the loops run: AllocPages panics without a page.
LEMMA SomePage ==
    Spec => [](pc \in {"init", "ext", "done"} => npages > 0)
<1> DEFINE Some == pc \in {"init", "ext", "done"} => npages > 0
<1>1. Init => Some
  BY DEF Init
<1>2. Some /\ [Next]_vars => Some'
  <2> SUFFICES ASSUME Some, [Next]_vars PROVE Some'
    OBVIOUS
  <2>1. CASE UNCHANGED vars
    BY <2>1 DEF vars
  <2>2. CASE AlignBootInfo \/ CountPages
    BY <2>2 DEF AlignBootInfo, CountPages
  <2>3. CASE AllocPages
    BY <2>3 DEF AllocPages
  <2>4. CASE PageInit \/ PageInitExt
    BY <2>4 DEF PageInit, PageInitExt, VisitPage, HandOver
  <2>5. CASE NextEntry \/ LastEntryDone
    BY <2>5 DEF NextEntry, LastEntryDone
  <2> QED
    BY <2>1, <2>2, <2>3, <2>4, <2>5 DEF Next
<1> QED
  BY <1>1, <1>2, PTL DEF Spec

\* page_init() keeps what page_free() needs of it: every page handed over has a
\* struct page_info, and none comes twice, so that freed is a BootPages of Buddy
\* whatever memory map the boot loader left.
THEOREM BootPagesFitHolds ==
    ASSUME OrderlyMaps
    PROVE  Spec => []BootPagesFit
<1>1. BootInv /\ (pc \in {"init", "ext", "done"} => npages > 0) => BootPagesFit
  <2> SUFFICES ASSUME BootInv, pc \in {"init", "ext", "done"}, npages > 0
               PROVE  BootPagesFit
    BY DEF BootPagesFit
  <2>1. npages \in Nat \ {0} /\ freed \in Seq(0 .. npages - 1)
    BY Sizes DEF BootInv, TypeOK
  <2>2. \A a, b \in DOMAIN freed : freed[a] = freed[b] => a = b
    BY DEF BootInv, FreedOnce, IsInjective
  <2> QED
    BY <2>1, <2>2 DEF BootPagesFit
<1> QED
  BY <1>1, Inductive, SomePage, PTL

\* page_init() meets no page without a struct page_info: the highest address is
\* found well enough for every page below BOOT_MAP_LIM that is free.
THEOREM PageInitCompletesHolds ==
    ASSUME OrderlyMaps
    PROVE  Spec => PageInitCompletes
<1>1. BootInv /\ [Next]_vars => [pc = "init" => pc' # "panic"]_vars
  <2> SUFFICES ASSUME BootInv, Next, pc = "init"
               PROVE  pc' # "panic"
    BY DEF vars
  <2>1. CASE PageInit
    BY <2>1, PageInitStep
  <2>2. CASE NextEntry \/ LastEntryDone
    BY <2>2 DEF NextEntry, LastEntryDone
  <2>3. ~ (AlignBootInfo \/ CountPages \/ AllocPages \/ PageInitExt)
    BY DEF AlignBootInfo, CountPages, AllocPages, PageInitExt
  <2> QED
    BY <2>1, <2>2, <2>3 DEF Next
<1> QED
  BY <1>1, Inductive, PTL DEF Spec, PageInitCompletes

\* The kernel, then pages[], then the first address boot_alloc() has left.
LEMMA KernelAndPages ==
    ASSUME KernelPlaced, BootInv, pc \in {"init", "ext", "done", "panic"}
    PROVE  /\ npages \in Nat /\ npages * StructSize \in Nat /\ next_free \in Nat
           /\ RoundUp(end) \in Nat /\ OnBoundary(RoundUp(end)) /\ end <= RoundUp(end)
           /\ RoundUp(end) + npages * StructSize <= next_free
           /\ \A b \in Nat : OnBoundary(b) /\ end <= b => RoundUp(end) <= b
           /\ \A b \in Nat : OnBoundary(b) /\ RoundUp(end) + npages * StructSize <= b
                  => next_free <= b
<1> DEFINE u == RoundUp(end)
           most == BOOT_MAP_LIM \div PAGE_SIZE
           size == npages * StructSize
<1>1. most \in Nat /\ npages \in Nat /\ npages <= most
  <2>1. most \in Nat
    BY Sizes, Down
  <2> QED
    BY <2>1 DEF BootInv, TypeOK
<1>2. most * StructSize \in Nat /\ size \in Nat /\ size <= most * StructSize
  <2>1. (most - npages) * StructSize >= 0
    BY <1>1, Sizes
  <2>2. (most - npages) * StructSize = most * StructSize - npages * StructSize
    BY <1>1, Sizes
  <2>3. most * StructSize \in Nat /\ npages * StructSize \in Nat
    BY <1>1, Sizes
  <2> QED
    BY <2>1, <2>2, <2>3
<1>3. end + most * StructSize + 2 * PAGE_SIZE <= WORD
  BY DEF KernelPlaced
<1> HIDE DEF most, size
<1>4. end \in Nat /\ end + PAGE_SIZE <= WORD
  BY <1>2, <1>3, Sizes
<1>5. /\ u \in Nat /\ OnBoundary(u) /\ end <= u /\ u < end + PAGE_SIZE
      /\ \A b \in Nat : OnBoundary(b) /\ end <= b => u <= b
  BY <1>4, Up
<1>6. next_free = RoundUp(u + size)
  BY DEF BootInv, Computed, size
<1> HIDE DEF u
<1>7. u + size \in Nat /\ u + size + PAGE_SIZE <= WORD
  BY <1>2, <1>3, <1>4, <1>5, Sizes
<1>8. /\ next_free \in Nat /\ u + size <= next_free
      /\ \A b \in Nat : OnBoundary(b) /\ u + size <= b => next_free <= b
  BY <1>6, <1>7, Up
<1> QED
  BY <1>1, <1>2, <1>5, <1>8 DEF u, size

\* A page with a byte at or behind a boundary begins there or behind.
LEMMA PageFrom ==
    ASSUME NEW p \in Nat, NEW b \in PageBytes(p),
           NEW a \in Nat, OnBoundary(a), a <= b
    PROVE  a <= p * PAGE_SIZE
<1>1. /\ p * PAGE_SIZE \in Nat /\ OnBoundary(p * PAGE_SIZE)
      /\ (p + 1) * PAGE_SIZE = p * PAGE_SIZE + PAGE_SIZE
  BY PageNumber
<1>2. b \in Int /\ p * PAGE_SIZE <= b /\ b < p * PAGE_SIZE + PAGE_SIZE
  BY <1>1, Sizes DEF PageBytes
<1>3. CASE p * PAGE_SIZE < a
  <2>1. p * PAGE_SIZE + PAGE_SIZE <= a
    BY <1>1, <1>3, Apart
  <2> QED
    BY <1>1, <1>2, <2>1, Sizes
<1> QED
  BY <1>1, <1>3

\* The addresses reserved by name are those of pages in use.
LEMMA ReservedNames ==
    ASSUME KernelPlaced, NEW p \in Nat
    PROVE  p * PAGE_SIZE \in {0, elf_hdr, RoundDown(boot_info)}
               <=> p \in {0, elf_hdr \div PAGE_SIZE, boot_info \div PAGE_SIZE}
<1>1. (p * PAGE_SIZE) \div PAGE_SIZE = p
  BY PageNumber
<1>2. 0 * PAGE_SIZE = 0 /\ (0 * PAGE_SIZE) \div PAGE_SIZE = 0
  BY PageNumber, Sizes
<1>3. /\ elf_hdr \div PAGE_SIZE \in Nat
      /\ (elf_hdr \div PAGE_SIZE) * PAGE_SIZE = elf_hdr
  BY Boundary, Sizes DEF KernelPlaced, OnBoundary
<1>4. /\ boot_info \div PAGE_SIZE \in Nat
      /\ RoundDown(boot_info) = (boot_info \div PAGE_SIZE) * PAGE_SIZE
  BY Down, Sizes
<1>5. ((boot_info \div PAGE_SIZE) * PAGE_SIZE) \div PAGE_SIZE = boot_info \div PAGE_SIZE
  BY <1>4, PageNumber
<1> QED
  BY <1>1, <1>2, <1>3, <1>4, <1>5

\* page_init() hands over no page that is in use, nor one of which a byte lies
\* outside the free memory the firmware reported.
THEOREM FreedUsableHolds ==
    ASSUME OrderlyMaps, KernelPlaced
    PROVE  Spec => []FreedUsable
<1>1. ASSUME BootInv
      PROVE  FreedUsable
  <2> SUFFICES ASSUME NEW p \in ToSet(freed)
               PROVE  /\ p \notin PagesInUse
                      /\ \A b \in PageBytes(p) : \E e \in FreeEntries : b \in EntryBytes(e)
    BY DEF FreedUsable
  <2>1. TypeInv
    BY <1>1 DEF BootInv, Computed, TypeInv
  <2>2. pc \in {"init", "ext", "done", "panic"}
    <3>1. freed # <<>>
      BY DEF ToSet
    <3> QED
      BY <2>1, <3>1 DEF TypeInv, TypeOK, NothingYet
  <2>3. p \in Nat
    <3>1. freed \in Seq(0 .. npages - 1) /\ npages \in Nat
      BY <2>1 DEF TypeInv, TypeOK
    <3> QED
      BY <3>1, ElementOfSeq, LenProperties DEF ToSet
  <2>4. Passed(p) /\ Wanted(p)
    BY <1>1, <2>2 DEF BootInv, FreedPassed
  <2>5. /\ p * PAGE_SIZE \in Nat /\ OnBoundary(p * PAGE_SIZE)
        /\ (p + 1) * PAGE_SIZE = p * PAGE_SIZE + PAGE_SIZE
    BY <2>3, PageNumber
  <2>6. p \notin PagesInUse
    <3>1. p \notin {0, elf_hdr \div PAGE_SIZE, boot_info \div PAGE_SIZE}
      BY <2>3, <2>4, ReservedNames DEF Wanted, addr_reserved
    <3>2. ASSUME NEW b \in PageBytes(p), KERNEL_LMA <= b, b < end
          PROVE  FALSE
      <4>1. KERNEL_LMA <= p * PAGE_SIZE
        BY <2>3, <3>2, PageFrom, Sizes DEF KernelPlaced, OnBoundary
      <4>2. p * PAGE_SIZE <= b /\ b \in Int
        BY <2>5 DEF PageBytes
      <4>3. /\ next_free \in Nat /\ npages * StructSize \in Nat /\ RoundUp(end) \in Nat
            /\ end <= RoundUp(end) /\ RoundUp(end) + npages * StructSize <= next_free
        BY <1>1, <2>2, KernelAndPages
      <4>4. p * PAGE_SIZE < next_free
        BY <2>5, <3>2, <4>2, <4>3, Sizes
      <4> QED
        BY <2>4, <4>1, <4>4 DEF Wanted, addr_reserved
    <3>3. ASSUME NEW b \in PageBytes(p), RoundUp(end) <= b,
                 b < RoundUp(end) + npages * StructSize
          PROVE  FALSE
      <4>1. /\ next_free \in Nat /\ npages * StructSize \in Nat /\ RoundUp(end) \in Nat
            /\ OnBoundary(RoundUp(end))
            /\ end <= RoundUp(end) /\ RoundUp(end) + npages * StructSize <= next_free
        BY <1>1, <2>2, KernelAndPages
      <4>2. RoundUp(end) <= p * PAGE_SIZE
        BY <2>3, <3>3, <4>1, PageFrom
      <4>3. p * PAGE_SIZE <= b /\ b \in Int
        BY <2>5 DEF PageBytes
      <4>4. KERNEL_LMA <= p * PAGE_SIZE /\ p * PAGE_SIZE < next_free
        BY <2>5, <3>3, <4>1, <4>2, <4>3, Sizes
      <4> QED
        BY <2>4, <4>4 DEF Wanted, addr_reserved
    <3> QED
      BY <3>1, <3>2, <3>3 DEF PagesInUse
  <2>7. ASSUME NEW b \in PageBytes(p)
        PROVE  \E e \in FreeEntries : b \in EntryBytes(e)
    <3>1. PICK j \in DOMAIN mmap : mmap[j].type = FREE /\ Within(p, j)
      BY <2>4 DEF Passed
    <3>2. /\ bios[j].addr \in Nat /\ bios[j].len \in Nat /\ bios[j].type = FREE
          /\ j \in DOMAIN bios /\ mmap[j].addr \in Nat
          /\ bios[j].addr <= mmap[j].addr
          /\ End(mmap[j]) \in Nat /\ OnBoundary(End(mmap[j]))
          /\ End(mmap[j]) <= bios[j].addr + bios[j].len
      BY <2>1, <2>2, <3>1, Regions DEF FreeAt
    <3>3. p * PAGE_SIZE + PAGE_SIZE <= End(mmap[j])
      BY <2>5, <3>1, <3>2, Apart DEF Within
    <3>4. mmap[j].addr <= p * PAGE_SIZE
      BY <3>1 DEF Within
    <3>5. p * PAGE_SIZE <= b /\ b < p * PAGE_SIZE + PAGE_SIZE /\ b \in Int
      BY <2>5, Sizes DEF PageBytes
    <3>6. b \in EntryBytes(bios[j])
      BY <2>5, <3>2, <3>3, <3>4, <3>5, Sizes DEF EntryBytes
    <3>7. bios[j] \in FreeEntries
      BY <3>2 DEF FreeEntries, ToSet
    <3> QED
      BY <3>6, <3>7
  <2> QED
    BY <2>6, <2>7
<1> QED
  BY <1>1, Inductive, PTL

\* After page_init() no usable page below BOOT_MAP_LIM is left behind.
THEOREM NothingForgottenHolds ==
    ASSUME OrderlyMaps, KernelPlaced
    PROVE  Spec => []NothingForgotten
<1>1. ASSUME BootInv
      PROVE  NothingForgotten
  <2> SUFFICES ASSUME pc \in {"ext", "done"},
                      NEW p \in (0 .. BOOT_MAP_LIM \div PAGE_SIZE - 1) \ PagesInUse,
                      NEW e \in FreeEntries, PageBytes(p) \subseteq EntryBytes(e)
               PROVE  p \in ToSet(freed)
    BY DEF NothingForgotten
  <2>1. TypeInv
    BY <1>1 DEF BootInv, Computed, TypeInv
  <2>2. BOOT_MAP_LIM \div PAGE_SIZE \in Nat /\ p \in Nat /\ p < BOOT_MAP_LIM \div PAGE_SIZE
    BY Sizes, Down
  <2> DEFINE a == p * PAGE_SIZE
  <2>3. a \in Nat /\ OnBoundary(a) /\ (p + 1) * PAGE_SIZE = a + PAGE_SIZE
    BY <2>2, PageNumber
  <2>4. OnBoundary(a + PAGE_SIZE)
    BY <2>3, NextBoundary
  <2>5. a < BOOT_MAP_LIM
    <3>1. BOOT_MAP_LIM = (BOOT_MAP_LIM \div PAGE_SIZE) * PAGE_SIZE
      BY Boundary, Sizes
    <3>2. (BOOT_MAP_LIM \div PAGE_SIZE - p) * PAGE_SIZE
              = (BOOT_MAP_LIM \div PAGE_SIZE) * PAGE_SIZE - p * PAGE_SIZE
      BY <2>2, Sizes
    <3>3. (BOOT_MAP_LIM \div PAGE_SIZE - p) * PAGE_SIZE > 0
      BY <2>2, Sizes
    <3> QED
      BY <2>3, <3>1, <3>2, <3>3, Sizes
  <2>6. PICK j \in DOMAIN bios : e = bios[j] /\ bios[j].type = FREE
    BY DEF FreeEntries, ToSet
  <2>7. j \in DOMAIN mmap /\ mmap[j].type = FREE /\ FreeAt(j)
    BY <2>1, <2>6, MapFacts DEF TypeInv, TypeOK, FreeAt
  <2>8. /\ mmap[j].addr = RoundUp(bios[j].addr)
        /\ End(mmap[j]) = RoundDown(bios[j].addr + bios[j].len)
        /\ bios[j].addr \in Nat /\ bios[j].len \in Nat
        /\ bios[j].addr + bios[j].len <= WORD - PAGE_SIZE
        /\ End(mmap[j]) \in Nat
    BY <2>1, <2>7, Regions
  <2>9. bios[j].addr <= a /\ a + PAGE_SIZE <= bios[j].addr + bios[j].len
    <3>1. a \in PageBytes(p) /\ a + PAGE_SIZE - 1 \in PageBytes(p)
      BY <2>3, Sizes DEF PageBytes
    <3>2. a \in EntryBytes(bios[j]) /\ a + PAGE_SIZE - 1 \in EntryBytes(bios[j])
      BY <2>6, <3>1
    <3> QED
      BY <2>3, <2>8, <3>2, Sizes DEF EntryBytes
  <2> HIDE DEF a
  <2>10. RoundUp(bios[j].addr) <= a
    <3>1. bios[j].addr + PAGE_SIZE <= WORD
      BY <2>8, Sizes
    <3> QED
      BY <2>3, <2>8, <2>9, <3>1, Up
  <2>11. a + PAGE_SIZE <= RoundDown(bios[j].addr + bios[j].len)
    <3>1. bios[j].addr + bios[j].len \in Nat /\ a + PAGE_SIZE \in Nat
      BY <2>3, <2>8, Sizes
    <3> QED
      BY <2>4, <2>9, <3>1, Down
  <2>12. Within(p, j)
    BY <2>3, <2>8, <2>10, <2>11, Sizes DEF Within, a
  <2>13. Passed(p)
    BY <2>7, <2>12 DEF Passed
  <2>14. p < npages
    BY <1>1, <2>2, <2>5, <2>7, <2>12, HasStruct DEF a
  <2>15. ~ addr_reserved(a)
    <3>1. a \notin {0, elf_hdr, RoundDown(boot_info)}
      BY <2>2, ReservedNames DEF PagesInUse, a
    <3>2. /\ npages \in Nat /\ npages * StructSize \in Nat /\ next_free \in Nat
          /\ RoundUp(end) \in Nat
          /\ \A b \in Nat : OnBoundary(b) /\ end <= b => RoundUp(end) <= b
          /\ \A b \in Nat : OnBoundary(b) /\ RoundUp(end) + npages * StructSize <= b
                 => next_free <= b
      BY <1>1, KernelAndPages
    <3>3. a \in PageBytes(p) /\ p \in 0 .. npages - 1
      BY <2>2, <2>3, <2>14, <3>2, Sizes DEF PageBytes, a
    <3>4. ASSUME KERNEL_LMA <= a, a < next_free
          PROVE  FALSE
      <4>1. CASE a < end
        BY <3>3, <3>4, <4>1 DEF PagesInUse
      <4>2. CASE end <= a
        <5>1. RoundUp(end) <= a
          BY <2>3, <3>2, <4>2
        <5>2. a < RoundUp(end) + npages * StructSize
          BY <2>3, <3>2, <3>4
        <5> QED
          BY <3>3, <5>1, <5>2 DEF PagesInUse
      <4> QED
        BY <2>3, <4>1, <4>2, Sizes
    <3> QED
      BY <3>1, <3>4 DEF addr_reserved
  <2>16. Wanted(p)
    BY <2>5, <2>15 DEF Wanted, a
  <2> QED
    BY <1>1, <2>2, <2>13, <2>16 DEF BootInv, FreedPassed
<1> QED
  BY <1>1, Inductive, PTL
=============================================================================
