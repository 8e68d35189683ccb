-------------------------- MODULE BuddyRefinement --------------------------
(***************************************************************************)
(* The buddy allocator implements PageAllocator.  The free pages are what  *)
(* the blocks on loan leave of the pages boot handed over, and coalescing  *)
(* is complete: NULL is returned only if no aligned block is free.         *)
(***************************************************************************)
EXTENDS BuddyProofs

-----------------------------------------------------------------------------
(* Coalescing is complete *)

\* Two aligned blocks that share a page are nested.
LEMMA Nested ==
    ASSUME NEW i \in 0 .. BUDDY_MAX_ORDER, NEW k \in 0 .. BUDDY_MAX_ORDER, i <= k,
           NEW a \in Nat, NEW c \in Nat, Aligned(a, i), Aligned(c, k),
           NEW x \in Frames(a, i) \cap Frames(c, k)
    PROVE  Frames(a, i) \subseteq Frames(c, k)
<1> DEFINE S == Size[i]
           T == Size[k]
<1>1. S \in Nat \ {0} /\ T \in Nat \ {0} /\ T % S = 0 /\ a % S = 0 /\ c % T = 0
  BY Sizes, PowersDivide DEF Aligned
<1>2. Frames(a, i) = a .. a + S - 1 /\ Frames(c, k) = c .. c + T - 1 BY DEF Frames
<1> HIDE DEF S, T
<1>3. x \in Nat /\ a <= x /\ x < a + S /\ c <= x /\ x < c + T BY <1>1, <1>2
<1>4. c % S = 0 /\ (c + T) % T = 0 /\ c + T \in Nat
  <2>1. c + T \in Nat BY <1>1
  <2>2. c % S = 0 BY <1>1, Coarser
  <2>3. (c + T) % T = 0 BY <1>1, NextMultiple
  <2> QED BY <2>1, <2>2, <2>3
<1>5. (c + T) % S = 0 BY <1>1, <1>4, Coarser
<1>6. c <= a
  <2> SUFFICES ASSUME a < c PROVE FALSE OBVIOUS
  <2>1. a + S <= c BY <1>1, <1>4, Gap
  <2> QED BY <2>1, <1>1, <1>3
<1>7. a + S <= c + T
  <2>1. a < c + T BY <1>1, <1>3
  <2> QED BY <2>1, <1>1, <1>4, <1>5, Gap
<1> QED BY <1>1, <1>2, <1>6, <1>7

\* A non-empty set of numbers has a least element.
LEMMA LeastElement ==
    ASSUME NEW T, T \subseteq Nat, T # {}
    PROVE  \E x \in T : \A y \in T : x <= y
<1>1. PICK x \in T : \A y \in T : ~ (<<y, x>> \in OpToRel(<, Nat))
  BY NatLessThanWellFounded, WFMin
<1>2. \A y \in T : ~ (y < x) BY <1>1 DEF OpToRel
<1> QED BY <1>2

\* Take a smallest free block in the region: if it is smaller than the region,
\* its buddy lies in the region too, is free, and so would have been merged.
LEMMA RegionInOneBlock ==
    ASSUME BuddyInv, InFlight = {}, NEW k \in Orders, NEW r \in Regions(k),
           Frames(r, k) \subseteq FreePages
    PROVE  \E p \in FreeHeads : pp_order[p] >= k /\ Frames(r, k) \subseteq Block(p)
<1> DEFINE F == {p \in FreeHeads : Block(p) \cap Frames(r, k) # {}}
<1>1. \A x \in FreePages : \E p \in FreeHeads : x \in Block(p)
  BY DEF FreePages
<1>2. /\ r \in Nat /\ Aligned(r, k) /\ k \in 0 .. BUDDY_MAX_ORDER /\ k \in Nat
      /\ Size[k] \in Nat \ {0} /\ r \in Frames(r, k)
  <2>1. k \in 0 .. BUDDY_MAX_ORDER /\ k \in Nat /\ Size[k] \in Nat \ {0}
    BY Sizes, PageBlocksAssumption DEF Orders
  <2>2. r \in Nat /\ Aligned(r, k) BY PageBlocksAssumption DEF Regions, Pages
  <2> QED BY <2>1, <2>2 DEF Frames
<1>3. \A p \in FreeHeads :
          /\ p \in Pages /\ p \in Nat /\ p \in Live /\ Aligned(p, pp_order[p])
          /\ pp_order[p] \in Orders /\ pp_order[p] \in 0 .. BUDDY_MAX_ORDER
          /\ pp_order[p] \in Nat /\ p \in Block(p)
          /\ p \in ToSet(buddy_free_list[pp_order[p]])
  <2> TAKE p \in FreeHeads
  <2>1. /\ p \in Pages /\ pp_order[p] \in Orders
        /\ p \in ToSet(buddy_free_list[pp_order[p]])
    BY ListedPages DEF BuddyInv
  <2>2. p \in Live /\ p \in Nat BY <2>1, PageBlocksAssumption DEF Live, Pages
  <2>3. Aligned(p, pp_order[p]) BY <2>2 DEF BuddyInv, HeadsAligned
  <2>4. pp_order[p] \in 0 .. BUDDY_MAX_ORDER /\ pp_order[p] \in Nat
    BY <2>1, PageBlocksAssumption DEF Orders
  <2> QED BY <2>1, <2>2, <2>3, <2>4, LivePages
<1>4. PICK m \in F : \A p \in F : pp_order[m] <= pp_order[p]
  <2> DEFINE O == {pp_order[p] : p \in F}
  <2>1. O \subseteq Nat BY <1>3
  <2>2. O # {}
    <3>1. \E p \in F : TRUE BY <1>1, <1>2
    <3> QED BY <3>1
  <2>3. PICK o \in O : \A y \in O : o <= y
    <3> HIDE DEF O
    <3> QED BY <2>1, <2>2, LeastElement
  <2> QED BY <2>3
<1> DEFINE j == pp_order[m]
<1>5. PICK x : x \in Block(m) /\ x \in Frames(r, k) BY <1>4
<1>6. /\ m \in FreeHeads /\ Block(m) = Frames(m, j) /\ j \in Orders /\ j \in Nat
      /\ j \in 0 .. BUDDY_MAX_ORDER
      /\ m \in Nat /\ Aligned(m, j)
  BY <1>3, <1>4 DEF Block
<1>7. CASE k <= j
  <2>1. Frames(r, k) \subseteq Frames(m, j)
    BY <1>2, <1>5, <1>6, <1>7, Nested
  <2> QED BY <2>1, <1>6, <1>7, <1>2
<1>8. CASE j < k
  <2> DEFINE b == BuddyOf(m, j)
             lo == IF m < b THEN m ELSE b
             hi == IF m < b THEN b ELSE m
  <2>1. /\ b \in Nat /\ Aligned(b, j) /\ Size[j] \in Nat \ {0} /\ b # m
        /\ lo \in Nat /\ hi \in Nat
    <3>1. b \in Nat /\ Aligned(b, j) /\ b # m BY <1>6, BuddyHalves, BuddyNotSelf
    <3>2. Size[j] \in Nat \ {0} BY <1>6, Sizes
    <3> QED BY <3>1, <3>2, <1>6
  <2>2. /\ Aligned(lo, j + 1)
        /\ Frames(lo, j + 1) = Frames(lo, j) \cup Frames(hi, j)
    BY <1>6, <2>1, BuddiesJoin
  <2>3. {lo, hi} = {m, b} OBVIOUS
  <2> HIDE DEF b, lo, hi, j
  <2>4. /\ b \in Frames(lo, j + 1) /\ m \in Frames(lo, j + 1)
        /\ x \in Frames(lo, j + 1) /\ j + 1 \in 0 .. BUDDY_MAX_ORDER /\ j + 1 <= k
    <3>1. b \in Frames(b, j) /\ m \in Frames(m, j) BY <2>1, <1>6 DEF Frames
    <3>2. x \in Frames(m, j) BY <1>5, <1>6
    <3>3. j + 1 \in 0 .. BUDDY_MAX_ORDER /\ j + 1 <= k
      BY <1>2, <1>6, <1>8, PageBlocksAssumption DEF Orders
    <3>4. Frames(lo, j + 1) = Frames(m, j) \cup Frames(b, j) BY <2>2, <2>3
    <3> QED BY <3>1, <3>2, <3>3, <3>4
  <2>5. Frames(lo, j + 1) \subseteq Frames(r, k)
    BY <1>2, <1>5, <2>1, <2>2, <2>4, Nested
  <2>6. PICK g \in FreeHeads : b \in Block(g)
    BY <1>1, <2>4, <2>5
  <2> DEFINE i == pp_order[g]
  <2>7. /\ g \in F /\ j <= i /\ Block(g) = Frames(g, i) /\ g \in Nat /\ Aligned(g, i)
        /\ i \in Orders /\ i \in Nat /\ i \in 0 .. BUDDY_MAX_ORDER
    <3>1. g \in F BY <2>4, <2>5, <2>6
    <3> QED BY <3>1, <1>3, <1>4, <2>6 DEF Block, j
  <2> HIDE DEF i
  <2>8. CASE i = j
    <3>1. Size[j] \in Nat \ {0} /\ b % Size[j] = 0 /\ g % Size[j] = 0
          /\ g <= b /\ b < g + Size[j]
      BY <2>1, <2>6, <2>7, <2>8 DEF Aligned, Frames
    <3>2. b = g
      <4> SUFFICES ASSUME g < b PROVE FALSE BY <3>1, <2>1, <2>7
      <4>1. g + Size[j] <= b BY <3>1, <2>1, <2>7, Gap
      <4> QED BY <4>1, <3>1, <2>1, <2>7
    <3>3. b \in ToSet(buddy_free_list[j]) /\ m \in ToSet(buddy_free_list[j])
      BY <3>2, <2>8, <1>3, <1>6, <2>6 DEF i, j
    <3> QED BY <3>3, <1>6 DEF BuddyInv, NoFreeBuddies, b
  <2>9. CASE j < i
    <3>1. j + 1 <= i BY <2>7, <2>9, <1>6
    <3>2. Frames(lo, j + 1) \subseteq Frames(g, i)
      BY <2>1, <2>2, <2>4, <2>6, <2>7, <3>1, Nested
    <3>3. m \in Block(g) BY <3>2, <2>4, <2>7
    <3>4. m = g BY <3>3, <1>3, <1>6, <2>6, LivePages
    <3> QED BY <3>4, <2>9, <2>7, <1>6 DEF i, j
  <2> QED BY <2>7, <2>8, <2>9, <1>6
<1> QED BY <1>2, <1>6, <1>7, <1>8

\* Outside the allocator, free memory is as coalesced as it can be.
THEOREM CoalescingComplete == Spec => []FullyCoalesced
<1>1. BuddyInv => FullyCoalesced
  <2> SUFFICES ASSUME BuddyInv, pc = "idle", NEW k \in Orders, NEW r \in Regions(k),
                      Frames(r, k) \subseteq FreePages
               PROVE  \E p \in FreeHeads : Frames(r, k) \subseteq Block(p)
    BY DEF FullyCoalesced
  <2>1. InFlight = {} BY DEF InFlight
  <2> QED BY <2>1, RegionInOneBlock
<1> QED BY <1>1, Invariance, PTL

-----------------------------------------------------------------------------
(* The steps of the allocator, seen from its callers *)

HeldPages == UNION {Block(p) : p \in held}

\* What is not on loan is free: the free pages are those boot handed over that
\* lie in no block on loan.
LEMMA FreePagesRest ==
    ASSUME BuddyInv
    PROVE  /\ FreePages = Given \ HeldPages
           /\ HeldPages \subseteq Given
           /\ \A p \in held, q \in held : p # q => Block(p) \cap Block(q) = {}
<1>1. Live = FreeHeads \cup InFlight \cup held BY DEF Live
<1>2. \A p \in FreeHeads \cup InFlight : p \notin held
  <2>1. \A p \in FreeHeads : pp_free[p] = 1
    BY ListedPages DEF BuddyInv, FreeFlagsMatchLists
  <2> QED BY <2>1 DEF BuddyInv, HeldInUse, InFlightOK
<1>3. \A p, q \in Live : p # q => Block(p) \cap Block(q) = {}
  BY DEF BuddyInv, BlocksDisjoint
<1>4. UNION {Block(p) : p \in Live} = Given BY DEF BuddyInv, NoPageLost
<1>5. Given = FreePages \cup HeldPages
  BY <1>1, <1>4 DEF FreePages, HeldPages
<1>6. FreePages \cap HeldPages = {}
  <2> SUFFICES ASSUME NEW x, x \in FreePages, x \in HeldPages PROVE FALSE
    OBVIOUS
  <2>1. PICK p \in FreeHeads \cup InFlight : x \in Block(p) BY DEF FreePages
  <2>2. PICK q \in held : x \in Block(q) BY DEF HeldPages
  <2> QED BY <2>1, <2>2, <1>1, <1>2, <1>3
<1> QED BY <1>1, <1>3, <1>5, <1>6

\* The same of the state after a step.
LEMMA FreePagesRestNext ==
    BuddyInv' => FreePages' = Given' \ HeldPages'
<1> DEFINE FreeIsRest == FreePages = Given \ HeldPages
<1>1. BuddyInv => FreeIsRest BY FreePagesRest
<1> HIDE DEF FreeIsRest
<1>2. BuddyInv' => FreeIsRest' BY <1>1, PTL
<1> QED BY <1>2 DEF FreeIsRest

\* The pages of the abstract loans are those of the blocks on loan.
LEMMA LoanedIsHeld == Abstract!LoanedPages = HeldPages
<1> DEFINE loans == {<<p, pp_order[p]>> : p \in held}
<1>1. \A p \in held : Abstract!Frames(p, pp_order[p]) = Block(p)
  BY DEF Abstract!Frames, Frames, Block
<1>2. Abstract!LoanedPages = UNION {Abstract!Frames(b[1], b[2]) : b \in loans}
  BY DEF Abstract!LoanedPages
<1>3. \A x : x \in Abstract!LoanedPages <=>
               \E p \in held : x \in Abstract!Frames(p, pp_order[p])
  <2>1. ASSUME NEW x, NEW b \in loans, x \in Abstract!Frames(b[1], b[2])
        PROVE  \E p \in held : x \in Abstract!Frames(p, pp_order[p])
    <3>1. PICK p \in held : b = <<p, pp_order[p]>> OBVIOUS
    <3> QED BY <2>1, <3>1
  <2>2. ASSUME NEW x, NEW p \in held, x \in Abstract!Frames(p, pp_order[p])
        PROVE  \E b \in loans : x \in Abstract!Frames(b[1], b[2])
    <3>1. <<p, pp_order[p]>> \in loans OBVIOUS
    <3> QED BY <2>2, <3>1
  <2> QED BY <1>2, <2>1, <2>2
<1>4. \A x : x \in HeldPages <=> \E p \in held : x \in Block(p)
  BY DEF HeldPages
<1> QED BY <1>1, <1>3, <1>4

\* A step that moves no page between the allocator and its callers, and takes
\* none from boot, is invisible to the callers.
LEMMA Invisible ==
    ASSUME BuddyInv, BuddyInv', held' = held, Given' = Given, ret' = ret,
           \A p \in held : pp_order'[p] = pp_order[p]
    PROVE  UNCHANGED Abstract!absVars
<1>1. \A p \in held : Block(p)' = Block(p) BY DEF Block, Frames
<1>2. HeldPages' = HeldPages BY <1>1 DEF HeldPages
<1>3. FreePages' = FreePages BY <1>2, FreePagesRest, FreePagesRestNext
<1>4. {<<p, pp_order[p]>> : p \in held}' = {<<p, pp_order[p]>> : p \in held}
  OBVIOUS
<1> QED BY <1>3, <1>4 DEF Abstract!absVars

\* page_init() hands one more page over.
LEMMA PageInitGives ==
    ASSUME BuddyInv, BuddyInv', PageInit
    PROVE  \E p \in ToSet(BootPages) : Abstract!Give(p)
<1>1. PICK p : p = BootPages[booted + 1] OBVIOUS
<1>2. /\ booted < Len(BootPages) /\ booted' = booted + 1 /\ ret' = NONE
      /\ UNCHANGED <<pp_order, held>>
  BY DEF PageInit
<1>3. /\ booted \in Nat /\ booted + 1 \in DOMAIN BootPages
      /\ \A i \in 1 .. booted : i \in DOMAIN BootPages /\ i # booted + 1
  <2>1. BootPages \in Seq(Pages) /\ booted \in 0 .. Len(BootPages)
    BY BuddyAssumption DEF BuddyInv, TypeOK
  <2>2. DOMAIN BootPages = 1 .. Len(BootPages) /\ Len(BootPages) \in Nat BY <2>1
  <2>3. booted \in Nat /\ booted < Len(BootPages) BY <1>2, <2>1, <2>2
  <2> HIDE <2>1
  <2> QED BY <2>2, <2>3
<1>4. p \in ToSet(BootPages) BY <1>1, <1>3 DEF ToSet
<1>5. p \notin Given BY <1>1, <1>3, BuddyAssumption DEF Given
<1>6. Given' = Given \cup {p}
  <2>1. 1 .. booted' = (1 .. booted) \cup {booted + 1} BY <1>2, <1>3
  <2> QED BY <2>1, <1>1 DEF Given
<1>7. HeldPages' = HeldPages BY <1>2 DEF HeldPages, Block, Frames
<1>8. FreePages' = FreePages \cup {p}
  BY <1>5, <1>6, <1>7, FreePagesRest, FreePagesRestNext
<1>9. p \notin FreePages \cup Abstract!LoanedPages
  BY <1>5, FreePagesRest, LoanedIsHeld
<1> QED BY <1>2, <1>4, <1>8, <1>9 DEF Abstract!Give

\* Whoever frees a block gives back exactly that block.
LEMMA FreeReleases ==
    ASSUME BuddyInv, BuddyInv', NEW p \in held, held' = held \ {p},
           ret' = NONE, pp_order' = pp_order, Given' = Given
    PROVE  \E k \in Orders : \E q \in Pages : Abstract!Release(q, k)
<1>1. p \in Pages /\ pp_order[p] \in Orders BY HeldFacts
<1>2. HeldPages = HeldPages' \cup Block(p)
  BY DEF HeldPages, Block, Frames
<1>3. HeldPages' \cap Block(p) = {}
  <2>1. \A q \in held' : Block(q) \cap Block(p) = {} BY FreePagesRest
  <2>2. HeldPages' = UNION {Block(q) : q \in held'}
    BY DEF HeldPages, Block, Frames
  <2> QED BY <2>1, <2>2
<1>4. FreePages' = FreePages \cup Block(p)
  <2>1. Block(p) \subseteq Given BY <1>2, FreePagesRest
  <2> QED BY <2>1, <1>2, <1>3, FreePagesRest, FreePagesRestNext
<1>5. Block(p) = Abstract!Frames(p, pp_order[p])
  BY DEF Abstract!Frames, Frames, Block
<1>6. {<<q, pp_order[q]>> : q \in held}'
         = {<<q, pp_order[q]>> : q \in held} \ {<<p, pp_order[p]>>}
  OBVIOUS
<1>7. <<p, pp_order[p]>> \in {<<q, pp_order[q]>> : q \in held} OBVIOUS
<1>8. PICK k \in Orders : k = pp_order[p] BY <1>1
<1>9. Abstract!Release(p, k)
  BY <1>4, <1>5, <1>6, <1>7, <1>8 DEF Abstract!Release
<1> QED BY <1>1, <1>9

\* The end of a split lends the block that is left, all of it free until then.
LEMMA SplitDoneLends ==
    ASSUME BuddyInv, BuddyInv', SplitDone
    PROVE  \E k \in Orders : \E q \in Pages : Abstract!Alloc(q, k)
<1>1. PICK c : c = cur OBVIOUS
<1>2. /\ pc = "split" /\ held' = held \cup {c} /\ ret' = c
      /\ UNCHANGED <<pp_order, booted>>
  BY <1>1 DEF SplitDone
<1>3. /\ InFlight = {c} /\ c \in Pages /\ c \notin held /\ Aligned(c, pp_order[c])
      /\ pp_order[c] \in Orders
  BY <1>1, <1>2, CurFacts DEF BuddyInv, InFlightOK
<1>4. Block(c) \subseteq FreePages BY <1>3 DEF FreePages
<1>5. HeldPages' = HeldPages \cup Block(c)
  BY <1>2 DEF HeldPages, Block, Frames
<1>6. Given' = Given BY <1>2 DEF Given
<1>7. FreePages' = FreePages \ Block(c)
  BY <1>5, <1>6, FreePagesRest, FreePagesRestNext
<1>8. Block(c) = Abstract!Frames(c, pp_order[c]) /\ Abstract!Aligned(c, pp_order[c])
  BY <1>3 DEF Abstract!Frames, Frames, Block, Abstract!Aligned, Aligned
<1>9. {<<q, pp_order[q]>> : q \in held}'
         = {<<q, pp_order[q]>> : q \in held} \cup {<<c, pp_order[c]>>}
  BY <1>2
<1>10. PICK k \in Orders : k = pp_order[c] BY <1>3
<1>11. Abstract!Alloc(c, k)
  BY <1>2, <1>4, <1>7, <1>8, <1>9, <1>10 DEF Abstract!Alloc
<1> QED BY <1>3, <1>11

\* NULL is returned only when no aligned block of that order is free: by
\* completeness of coalescing such a block would be on some list.
LEMMA NullRefuses ==
    ASSUME BuddyInv, BuddyInv', NEW order \in ReqOrders,
           BuddyFindNull(order, FALSE)
    PROVE  \E k \in Orders : Abstract!Refuse(k)
<1>1. /\ pc = "idle" /\ Candidates(order) = {} /\ ret' = NULL
      /\ UNCHANGED <<fields, buddy_free_list, cur, want, held, booted, pc>>
  BY DEF BuddyFindNull, Running
<1>2. order \in Orders /\ order \in Nat
  BY BuddyAssumption, PageBlocksAssumption DEF Orders
<1>3. ASSUME NEW r \in Regions(order), Frames(r, order) \subseteq FreePages
      PROVE  FALSE
  <2>1. InFlight = {} BY <1>1 DEF InFlight
  <2>2. PICK p \in FreeHeads : pp_order[p] >= order
    BY <1>2, <1>3, <2>1, RegionInOneBlock
  <2>3. pp_order[p] \in Orders /\ p \in ToSet(buddy_free_list[pp_order[p]])
    BY ListedPages DEF BuddyInv
  <2>4. buddy_free_list[pp_order[p]] # <<>> BY <2>3 DEF ToSet
  <2> QED BY <2>2, <2>3, <2>4, <1>1 DEF Candidates
<1>4. Abstract!Regions(order) = Regions(order)
  BY DEF Abstract!Regions, Regions, Abstract!Pages, Pages, Abstract!Aligned, Aligned
<1>5. \A r \in Abstract!Regions(order) :
         ~ (Abstract!Frames(r, order) \subseteq FreePages)
  BY <1>3, <1>4 DEF Abstract!Frames, Frames
<1>6. FreePages' = FreePages
      /\ {<<q, pp_order[q]>> : q \in held}' = {<<q, pp_order[q]>> : q \in held}
  BY <1>1 DEF FreePages, FreeHeads, InFlight, Block, Frames, fields
<1> QED BY <1>1, <1>2, <1>5, <1>6 DEF Abstract!Refuse

\* Every step of the allocator is a step of the abstract one or invisible.
LEMMA StepRefines ==
    ASSUME BuddyInv, BuddyInv', [Next]_vars
    PROVE  [Abstract!AbsNext]_(Abstract!absVars)
<1>0. Abstract!Orders = Orders /\ Abstract!Pages = Pages
  BY DEF Abstract!Orders, Orders, Abstract!Pages, Pages
<1>1. CASE PageInit BY <1>1, PageInitGives DEF Abstract!AbsNext
<1>2. CASE MergeBuddy
  <2>1. held' = held /\ Given' = Given /\ ret' = ret
    BY <1>2 DEF MergeBuddy, Given
  <2> QED BY <2>1, <1>2, MergeBuddyInv, Invisible
<1>3. CASE MergeDone \/ AddMerged
  <2>1. held' = held /\ Given' = Given /\ ret' = ret /\ pp_order' = pp_order
    BY <1>3 DEF MergeDone, AddMerged, Given, fields
  <2> QED BY <2>1, Invisible
<1>4. CASE BuddySplit
  <2>1. held' = held /\ Given' = Given /\ ret' = ret
    BY <1>4 DEF BuddySplit, Given
  <2> QED BY <2>1, <1>4, BuddySplitInv, Invisible
<1>5. CASE SplitDone BY <1>0, <1>5, SplitDoneLends DEF Abstract!AbsNext
<1>6. ASSUME NEW order \in ReqOrders, BuddyFind(order)
      PROVE  UNCHANGED Abstract!absVars
  <2>1. held' = held /\ Given' = Given /\ ret' = ret /\ pp_order' = pp_order
    BY <1>6 DEF BuddyFind, Given, fields
  <2> QED BY <2>1, Invisible
<1>7. ASSUME NEW order \in ReqOrders, NEW zero \in BOOLEAN,
             BuddyFindNull(order, zero)
      PROVE  [Abstract!AbsNext]_(Abstract!absVars)
  <2>1. CASE zero
    <3>1. held' = held /\ Given' = Given /\ ret' = ret /\ pp_order' = pp_order
      BY <1>7, <2>1 DEF BuddyFindNull, Given, fields
    <3> QED BY <3>1, Invisible
  <2>2. CASE ~ zero
    <3>1. zero = FALSE BY <2>2
    <3> QED BY <1>0, <1>7, <3>1, NullRefuses DEF Abstract!AbsNext
  <2> QED BY <2>1, <2>2
<1>8. ASSUME NEW p \in held, PageFree(p)
      PROVE  Abstract!AbsNext
  <2>1. held' = held \ {p} /\ ret' = NONE /\ pp_order' = pp_order /\ Given' = Given
    BY <1>8 DEF PageFree, Given
  <2> QED BY <1>0, <2>1, FreeReleases DEF Abstract!AbsNext
<1>9. ASSUME NEW p \in held, Reference(p)
      PROVE  UNCHANGED Abstract!absVars
  <2>1. held' = held /\ Given' = Given /\ ret' = ret /\ pp_order' = pp_order
    BY <1>9 DEF Reference, Given
  <2> QED BY <2>1, Invisible
<1>10. ASSUME NEW p \in held, PageDecref(p)
       PROVE  [Abstract!AbsNext]_(Abstract!absVars)
  <2>1. pp_order' = pp_order /\ Given' = Given BY <1>10 DEF PageDecref, Given
  <2>2. CASE pp_ref[p] = 1
    <3>1. held' = held \ {p} /\ ret' = NONE BY <1>10, <2>2 DEF PageDecref
    <3> QED BY <1>0, <2>1, <3>1, FreeReleases DEF Abstract!AbsNext
  <2>3. CASE pp_ref[p] # 1
    <3>1. held' = held /\ ret' = ret BY <1>10, <2>3 DEF PageDecref
    <3> QED BY <2>1, <3>1, Invisible
  <2> QED BY <2>2, <2>3
<1>11. CASE UNCHANGED vars
  <2>1. held' = held /\ Given' = Given /\ ret' = ret /\ pp_order' = pp_order
    BY <1>11 DEF vars, fields, Given
  <2> QED BY <2>1, Invisible
<1> QED BY <1>1, <1>2, <1>3, <1>4, <1>5, <1>6, <1>7, <1>8, <1>9, <1>10, <1>11
        DEF Next, Cpu, Call

\* The buddy allocator implements the abstract one, for every size of memory,
\* number of orders and memory map: buddy_find() lends only free blocks, every
\* one aligned, refuses only when there is none, and page_free() takes back
\* exactly the block that was lent.
THEOREM Refinement == Spec => ImplementsPageAllocator
<1>1. Init => Abstract!AbsInit
  <2> SUFFICES ASSUME Init PROVE Abstract!AbsInit OBVIOUS
  <2>1. held = {} /\ ret = NONE /\ Given = {} BY DEF Init, Given
  <2>2. FreePages = {} BY <2>1, InitInv, FreePagesRest
  <2> QED BY <2>1, <2>2 DEF Abstract!AbsInit
<1>2. BuddyInv /\ BuddyInv' /\ [Next]_vars => [Abstract!AbsNext]_(Abstract!absVars)
  BY StepRefines
<1> QED BY <1>1, <1>2, Invariance, PTL
        DEF Spec, ImplementsPageAllocator, Abstract!AbsSpec

=============================================================================
