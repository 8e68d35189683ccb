--------------------------- MODULE PageAllocator ---------------------------
(***************************************************************************)
(* What the buddy allocator promises its callers, with no lists, orders or *)
(* flags: a set of free pages and a set of blocks on loan.  A caller gets  *)
(* an aligned block made of free pages only, is refused only when no such  *)
(* block exists, and what it gives back becomes free again.                *)
(***************************************************************************)
EXTENDS PageBlocks

CONSTANTS
    Usable,      \* the pages handed to the allocator while booting
    NULL, NONE   \* "no such page", and what a call without a result returns

VARIABLES
    free,        \* pages nobody owns
    loans,       \* blocks <<p, k>> owned by callers
    ret          \* result of the last call that returned

absVars == <<free, loans, ret>>

LoanedPages == UNION {Frames(b[1], b[2]) : b \in loans}

AbsInit == free = {} /\ loans = {} /\ ret = NONE

\* Boot hands over one page that is neither free nor on loan.
Give(p) ==
    /\ p \in Usable \ (free \cup LoanedPages)
    /\ free' = free \cup {p}
    /\ ret' = NONE
    /\ UNCHANGED loans

Alloc(p, k) ==
    /\ Aligned(p, k)
    /\ Frames(p, k) \subseteq free
    /\ free' = free \ Frames(p, k)
    /\ loans' = loans \cup {<<p, k>>}
    /\ ret' = p

\* NULL is an answer only if no aligned block of that order is free.
Refuse(k) ==
    /\ \A p \in Regions(k) : ~ (Frames(p, k) \subseteq free)
    /\ ret' = NULL
    /\ UNCHANGED <<free, loans>>

Release(p, k) ==
    /\ <<p, k>> \in loans
    /\ free' = free \cup Frames(p, k)
    /\ loans' = loans \ {<<p, k>>}
    /\ ret' = NONE

AbsNext ==
    \/ \E p \in Usable : Give(p)
    \/ \E k \in Orders :
          \/ \E p \in Pages : Alloc(p, k) \/ Release(p, k)
          \/ Refuse(k)

AbsSpec == AbsInit /\ [][AbsNext]_absVars
=============================================================================
