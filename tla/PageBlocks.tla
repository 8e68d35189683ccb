---------------------------- MODULE PageBlocks ----------------------------
(***************************************************************************)
(* Physical pages and the power-of-two blocks of them that the buddy       *)
(* allocator (kernel/mem/buddy.c) hands out.  A page is named by its index *)
(* in the array pages[], so page2pa() and pa2page() are the identity on    *)
(* names; a block is named by its first page and its order.                *)
(***************************************************************************)
EXTENDS Integers, Sequences, FiniteSets

CONSTANTS
    NPages,            \* npages: length of the struct page_info array
    BUDDY_MAX_ORDER,   \* number of free lists; orders go from 0 to this minus 1
    Size               \* Size[k] is 1 << k, the pages of a block of order k

ASSUME PageBlocksAssumption ==
    /\ NPages \in Nat \ {0}
    /\ BUDDY_MAX_ORDER \in Nat \ {0}

\* Size is a constant so that no definition recurses; these facts fix it.
ASSUME SizeAssumption ==
    /\ Size \in [0 .. BUDDY_MAX_ORDER -> Nat \ {0}]
    /\ Size[0] = 1
    /\ \A k \in 0 .. BUDDY_MAX_ORDER - 1 : Size[k + 1] = 2 * Size[k]

Pages  == 0 .. NPages - 1
Orders == 0 .. BUDDY_MAX_ORDER - 1

\* The pages of the block of order k that starts at page p.
Frames(p, k) == p .. p + Size[k] - 1

Aligned(p, k) == p % Size[k] = 0

\* page2pa(p) ^ ((1 << k) * PAGE_SIZE): flip bit k of the page number.
BuddyOf(p, k) ==
    IF p % Size[k + 1] < Size[k] THEN p + Size[k] ELSE p - Size[k]

\* Every block of order k on its natural boundary.
Regions(k) == {p \in Pages : Aligned(p, k) /\ p + Size[k] <= NPages}
=============================================================================
