------------------------------- MODULE Buddy -------------------------------
(***************************************************************************)
(* The physical page allocator of kernel/mem/buddy.c.                      *)
(*                                                                         *)
(* The kernel runs on one CPU with interrupts off, so a call runs to its   *)
(* end; its loops are modelled one iteration per action, with pc naming    *)
(* the loop, so that what holds between iterations and that the loops end  *)
(* can be stated.  pc = "idle" is the kernel outside the allocator.  Two   *)
(* states are final: "panic" (the kernel monitor takes over) and "wild",   *)
(* a list_add() to buddy_free_list[BUDDY_MAX_ORDER], one past the array,   *)
(* after which nothing is known of the memory next to it.                  *)
(*                                                                         *)
(* A free list is the sequence of its pages from head->next on: list_add() *)
(* puts a page in front and list_pop_tail(), its name notwithstanding,     *)
(* takes the one in front (lib/list.c, modelled in its own module).        *)
(***************************************************************************)
EXTENDS PageBlocks, SequencesExt

CONSTANTS
    BootPages,     \* the pages page_init() passes to page_free(), in order
    ReqOrders,     \* orders callers pass to buddy_find(), page_alloc() included
    MaxRef,        \* bound on pp_ref (the code has 16 bits)
    BONUS_LAB1,    \* whether that macro is defined when the kernel is built
    NULL, NONE     \* results that are not pages

ASSUME BuddyAssumption ==
    /\ BootPages \in Seq(Pages)
    /\ \A i, j \in DOMAIN BootPages : BootPages[i] = BootPages[j] => i = j
    /\ ReqOrders \subseteq Orders
    /\ MaxRef \in Nat \ {0}
    /\ BONUS_LAB1 \in BOOLEAN
    /\ NULL \notin Pages /\ NONE \notin Pages /\ NULL # NONE

VARIABLES
    pp_order, pp_free, pp_ref,   \* the fields of struct page_info
    buddy_free_list,             \* one sequence of pages per order
    pc,                          \* where the CPU is
    cur,                         \* page (lhs): the block being split or merged
    want,                        \* req_order of the split in progress
    held,                        \* first pages of the blocks callers own
    booted,                      \* how many of BootPages have been freed
    ret                          \* result of the last call that returned

fields == <<pp_order, pp_free, pp_ref>>
vars == <<fields, buddy_free_list, pc, cur, want, held, booted, ret>>

Init ==
    /\ pp_order = [p \in Pages |-> 0]
    /\ pp_free  = [p \in Pages |-> 0]
    /\ pp_ref   = [p \in Pages |-> 0]
    /\ buddy_free_list = [k \in Orders |-> <<>>]
    /\ pc = "idle" /\ cur = NULL /\ want = 0
    /\ held = {} /\ booted = 0 /\ ret = NONE

-----------------------------------------------------------------------------
(* Derived state *)

FreeHeads == {p \in Pages : \E k \in Orders : p \in ToSet(buddy_free_list[k])}
InFlight  == IF pc \in {"split", "merge", "add", "wild"} THEN {cur} ELSE {}
Live      == FreeHeads \cup held \cup InFlight
Block(p)  == Frames(p, pp_order[p])
Given     == {BootPages[i] : i \in 1 .. booted}
FreePages == UNION {Block(p) : p \in FreeHeads \cup InFlight}

-----------------------------------------------------------------------------
(* lib/list.c as the allocator uses it *)

ListAdd(s, p) == <<p>> \o s
ListDel(s, p) == RemoveAt(s, CHOOSE i \in DOMAIN s : s[i] = p)

-----------------------------------------------------------------------------
(* page_free() *)

\* FIND_PRIMARY: clear the low bits up to and including the order's own.
Primary(p) == p - (p % Size[pp_order[p] + 1])

-----------------------------------------------------------------------------
(* Faults a programmer could have made here, one per operator.  No action    *)
(* uses them; each takes the place of the definition its name begins with    *)
(* to see that the properties below would notice.                            *)

\* The buddy looked for at the distance of a page whatever the order.
MisplacedSingle(p) ==
    BONUS_LAB1 /\ Primary(p) # p /\ BuddyOf(p, 0) # Primary(p)

\* No buddy_merge() before the list_add().
EnterPageFreeUnmerged(p) ==
    /\ pp_free' = [pp_free EXCEPT ![p] = 1]
    /\ pc' = "add"
    /\ cur' = p

\* The order raised on lhs and on rhs, which may be the same page.
MergeBuddyTwice ==
    /\ pc = "merge"
    /\ LET k == pp_order[cur]
           buddy == BuddyOf(cur, k)
           primary == IF cur < buddy THEN cur ELSE buddy
       IN  /\ buddy \in ToSet(buddy_free_list[k])
           /\ buddy_free_list' =
                 [buddy_free_list EXCEPT ![k] = ListDel(@, buddy)]
           /\ pp_order' = [pp_order EXCEPT ![primary] = k + 2]
           /\ cur' = primary
           /\ pc' = IF k + 2 < BUDDY_MAX_ORDER THEN "merge" ELSE "add"
    /\ UNCHANGED <<pp_free, pp_ref, want, held, booted, ret>>

\* No list_del() of the buddy.
MergeBuddyListed ==
    /\ pc = "merge"
    /\ LET k == pp_order[cur]
           buddy == BuddyOf(cur, k)
           primary == IF cur < buddy THEN cur ELSE buddy
       IN  /\ buddy \in ToSet(buddy_free_list[k])
           /\ pp_order' = [pp_order EXCEPT ![primary] = k + 1]
           /\ cur' = primary
           /\ pc' = IF k + 1 < BUDDY_MAX_ORDER THEN "merge" ELSE "add"
    /\ UNCHANGED <<pp_free, pp_ref, buddy_free_list, want, held, booted, ret>>

\* The buddy's order compared, but not that it is free.
MergeBuddyUnchecked ==
    /\ pc = "merge"
    /\ LET k == pp_order[cur]
           buddy == BuddyOf(cur, k)
           primary == IF cur < buddy THEN cur ELSE buddy
       IN  /\ buddy \in Pages /\ pp_order[buddy] = k
           /\ buddy_free_list' = [buddy_free_list EXCEPT
                 ![k] = SelectSeq(@, LAMBDA p : p # buddy)]
           /\ pp_order' = [pp_order EXCEPT ![primary] = k + 1]
           /\ cur' = primary
           /\ pc' = IF k + 1 < BUDDY_MAX_ORDER THEN "merge" ELSE "add"
    /\ UNCHANGED <<pp_free, pp_ref, want, held, booted, ret>>

\* No break when the buddy is not free.
MergeDoneUnbroken ==
    /\ pc = "merge"
    /\ BuddyOf(cur, pp_order[cur]) \notin ToSet(buddy_free_list[pp_order[cur]])
    /\ UNCHANGED vars

\* Only larger blocks considered.
CandidatesLarger(order) ==
    {k \in Orders : k > order /\ buddy_free_list[k] # <<>>}

\* The upper half flagged free but put on no list.
BuddySplitUnlisted ==
    /\ pc = "split"
    /\ pp_order[cur] # want
    /\ LET k == pp_order[cur] - 1
           buddy == BuddyOf(cur, k)
       IN  /\ pp_order' = [pp_order EXCEPT ![cur] = k, ![buddy] = k]
           /\ pp_free' = [pp_free EXCEPT ![buddy] = 1]
    /\ UNCHANGED <<pp_ref, buddy_free_list, pc, cur, want, held, booted, ret>>

\* The flag of the page handed out left set.
SplitDoneFlagged ==
    /\ pc = "split"
    /\ pp_order[cur] = want
    /\ held' = held \cup {cur}
    /\ ret' = cur
    /\ pc' = "idle" /\ cur' = NULL /\ want' = 0
    /\ UNCHANGED <<fields, buddy_free_list, booted>>

-----------------------------------------------------------------------------
(* page_free(), continued *)

\* Under BONUS_LAB1 a page whose primary has a larger order is not freed ...
Rejected(p) ==
    /\ BONUS_LAB1
    /\ Primary(p) # p
    /\ pp_order[Primary(p)] > pp_order[p]

\* ... and one that is neither its primary nor the primary's buddy is a bug.
Misplaced(p) ==
    /\ BONUS_LAB1
    /\ Primary(p) # p
    /\ BuddyOf(p, pp_order[p]) # Primary(p)

\* The body of page_free(p) up to the call of buddy_merge().
EnterPageFree(p) ==
    IF Misplaced(p) THEN pc' = "panic" /\ UNCHANGED <<pp_free, cur>>
    ELSE IF Rejected(p) THEN UNCHANGED <<pc, pp_free, cur>>
    ELSE /\ pp_free' = [pp_free EXCEPT ![p] = 1]
         /\ pc' = "merge"
         /\ cur' = p

\* page_init() hands the next page of the memory map over.
PageInit ==
    /\ pc = "idle"
    /\ booted < Len(BootPages)
    /\ booted' = booted + 1
    /\ ret' = NONE
    /\ EnterPageFree(BootPages[booted + 1])
    /\ UNCHANGED <<pp_order, pp_ref, buddy_free_list, want, held>>

Running == pc = "idle" /\ booted = Len(BootPages)

PageFree(p) ==
    /\ Running
    /\ p \in held
    /\ pp_ref[p] = 0
    /\ held' = held \ {p}
    /\ ret' = NONE
    /\ EnterPageFree(p)
    /\ UNCHANGED <<pp_order, pp_ref, buddy_free_list, want, booted>>

\* A mapping of the page is added: insert_pte() and insert_pde() count it.
Reference(p) ==
    /\ Running
    /\ p \in held
    /\ pp_ref[p] < MaxRef
    /\ pp_ref' = [pp_ref EXCEPT ![p] = @ + 1]
    /\ UNCHANGED <<pp_order, pp_free, buddy_free_list, pc, cur, want, held,
                   booted, ret>>

PageDecref(p) ==
    /\ Running
    /\ p \in held
    /\ pp_ref[p] > 0
    /\ pp_ref' = [pp_ref EXCEPT ![p] = @ - 1]
    /\ IF pp_ref[p] = 1
       THEN /\ held' = held \ {p}
            /\ ret' = NONE
            /\ EnterPageFree(p)
       ELSE UNCHANGED <<pp_free, pc, cur, held, ret>>
    /\ UNCHANGED <<pp_order, buddy_free_list, want, booted>>

-----------------------------------------------------------------------------
(* buddy_merge() and the list_add() that ends page_free() *)

MergeBuddy ==
    /\ pc = "merge"
    /\ LET k == pp_order[cur]
           buddy == BuddyOf(cur, k)
           primary == IF cur < buddy THEN cur ELSE buddy
           other == IF cur < buddy THEN buddy ELSE cur
       IN  /\ buddy \in ToSet(buddy_free_list[k])
           /\ buddy_free_list' =
                 [buddy_free_list EXCEPT ![k] = ListDel(@, buddy)]
           /\ pp_free' = [pp_free EXCEPT ![other] = 0, ![primary] = 1]
           /\ pp_order' = [pp_order EXCEPT ![primary] = k + 1]
           /\ cur' = primary
           /\ pc' = IF k + 1 < BUDDY_MAX_ORDER THEN "merge" ELSE "add"
    /\ UNCHANGED <<pp_ref, want, held, booted, ret>>

MergeDone ==
    /\ pc = "merge"
    /\ BuddyOf(cur, pp_order[cur]) \notin ToSet(buddy_free_list[pp_order[cur]])
    /\ pc' = "add"
    /\ UNCHANGED <<fields, buddy_free_list, cur, want, held, booted, ret>>

AddMerged ==
    /\ pc = "add"
    /\ IF pp_order[cur] < BUDDY_MAX_ORDER
       THEN /\ buddy_free_list' =
                  [buddy_free_list EXCEPT ![pp_order[cur]] = ListAdd(@, cur)]
            /\ pc' = "idle"
            /\ cur' = NULL
       ELSE /\ pc' = "wild"
            /\ UNCHANGED <<buddy_free_list, cur>>
    /\ UNCHANGED <<fields, want, held, booted, ret>>

-----------------------------------------------------------------------------
(* page_alloc() and buddy_find() *)

Candidates(order) == {k \in Orders : k >= order /\ buddy_free_list[k] # <<>>}

\* The smallest order with a free block is popped and split down to order.
BuddyFind(order) ==
    /\ Running
    /\ \E k \in Candidates(order) :
          /\ \A j \in Candidates(order) : k <= j
          /\ cur' = Head(buddy_free_list[k])
          /\ buddy_free_list' = [buddy_free_list EXCEPT ![k] = Tail(@)]
    /\ want' = order
    /\ pc' = "split"
    /\ UNCHANGED <<fields, held, booted, ret>>

\* No block: buddy_find() returns NULL.  page_alloc() passes that NULL to
\* page2kva() when it zeroes the page, whose KADDR() panics.  (Under BONUS_LAB1
\* page_alloc() always zeroes; zero = FALSE is then a direct buddy_find().)
BuddyFindNull(order, zero) ==
    /\ Running
    /\ Candidates(order) = {}
    /\ IF zero THEN pc' = "panic" /\ UNCHANGED ret
               ELSE ret' = NULL /\ UNCHANGED pc
    /\ UNCHANGED <<fields, buddy_free_list, cur, want, held, booted>>

BuddySplit ==
    /\ pc = "split"
    /\ pp_order[cur] # want
    /\ LET k == pp_order[cur] - 1
           buddy == BuddyOf(cur, k)
       IN  IF buddy \in Pages
           THEN /\ pp_order' = [pp_order EXCEPT ![cur] = k, ![buddy] = k]
                /\ pp_free' = [pp_free EXCEPT ![buddy] = 1]
                /\ buddy_free_list' =
                      [buddy_free_list EXCEPT ![k] = ListAdd(@, buddy)]
                /\ UNCHANGED pc
           ELSE /\ pc' = "panic"     \* pa2page() panics
                /\ pp_order' = [pp_order EXCEPT ![cur] = k]
                /\ UNCHANGED <<pp_free, buddy_free_list>>
    /\ UNCHANGED <<pp_ref, cur, want, held, booted, ret>>

SplitDone ==
    /\ pc = "split"
    /\ pp_order[cur] = want
    /\ pp_free' = [pp_free EXCEPT ![cur] = 0]
    /\ held' = held \cup {cur}
    /\ ret' = cur
    /\ pc' = "idle" /\ cur' = NULL /\ want' = 0
    /\ UNCHANGED <<pp_order, pp_ref, buddy_free_list, booted>>

-----------------------------------------------------------------------------
\* What the CPU does of itself, and what the rest of the kernel may call.
Cpu == PageInit \/ MergeBuddy \/ MergeDone \/ AddMerged \/ BuddySplit \/ SplitDone

Call ==
    \/ \E order \in ReqOrders :
          \/ BuddyFind(order)
          \/ \E zero \in BOOLEAN : BuddyFindNull(order, zero)
    \/ \E p \in held : PageFree(p) \/ Reference(p) \/ PageDecref(p)

Next == Cpu \/ Call

\* Nothing preempts the allocator: the CPU always takes its next step.
Spec == Init /\ [][Next]_vars /\ WF_vars(Cpu)

-----------------------------------------------------------------------------
(* Properties *)

\* Every variable holds what its C type and its use allow; a page in flight
\* is one the CPU is splitting, merging or about to list.
TypeOK ==
    /\ pp_order \in [Pages -> 0 .. BUDDY_MAX_ORDER]
    /\ pp_free \in [Pages -> 0 .. 1]
    /\ pp_ref \in [Pages -> 0 .. MaxRef]
    /\ buddy_free_list \in [Orders -> Seq(Pages)]
    /\ pc \in {"idle", "split", "merge", "add", "panic", "wild"}
    /\ cur \in Pages \cup {NULL}
    /\ InFlight \subseteq Pages
    /\ want \in Orders
    /\ held \subseteq Pages
    /\ booted \in 0 .. Len(BootPages)
    /\ ret \in Pages \cup {NULL, NONE}

\* A free list holds a page once, under the page's own order, flagged free
\* and unreferenced; outside the allocator only such pages are flagged free.
\* (The kernel's own lab1_check_buddy_consistency() looks for this at boot.)
FreeFlagsMatchLists ==
    /\ \A k \in Orders :
          /\ IsInjective(buddy_free_list[k])
          /\ \A p \in ToSet(buddy_free_list[k]) :
                pp_order[p] = k /\ pp_free[p] = 1 /\ pp_ref[p] = 0
    /\ \A p \in Pages : pp_free[p] = 1 => p \in FreeHeads \cup InFlight

\* The blocks on the free lists, on loan and in flight overlap nowhere, so no
\* page is ever in the hands of two owners ...
BlocksDisjoint ==
    \A p, q \in Live : p # q => Block(p) \cap Block(q) = {}

\* ... and together they are exactly the pages boot handed over: no split,
\* merge or free loses a page or invents one.
NoPageLost == UNION {Block(p) : p \in Live} = Given

\* Outside the allocator the free pages are as coalesced as they can be: an
\* aligned region of free pages is never spread over several free blocks.
FullyCoalesced ==
    pc = "idle" =>
        \A k \in Orders : \A r \in Regions(k) :
            Frames(r, k) \subseteq FreePages =>
                \E p \in FreeHeads : Frames(r, k) \subseteq Block(p)

\* Blocks lie on multiples of their size: buddies are found by flipping a bit.
HeadsAligned == \A p \in Live : Aligned(p, pp_order[p])

\* No two free blocks are buddies: page_free() merges as far as it goes.
NoFreeBuddies ==
    \A k \in Orders : \A p \in ToSet(buddy_free_list[k]) :
        BuddyOf(p, k) \notin ToSet(buddy_free_list[k])

\* Pages that boot has not handed over are as page_init() initialised them.
PendingUntouched ==
    \A p \in Pages \ Given : pp_order[p] = 0 /\ pp_free[p] = 0

\* Blocks on loan are not flagged free, and only they are referenced.
HeldInUse ==
    /\ \A p \in held : pp_free[p] = 0 /\ pp_order[p] \in Orders
    /\ \A p \in Pages : pp_ref[p] # 0 => p \in held

\* The block in flight is nobody else's and as far along as pc says.
InFlightOK ==
    /\ \A p \in InFlight :
          p \notin held \cup FreeHeads /\ pp_free[p] = 1
    /\ pc = "split" => pp_order[cur] \in Orders /\ want <= pp_order[cur]
    /\ pc = "merge" => pp_order[cur] \in Orders
    /\ pc = "add" /\ pp_order[cur] \in Orders =>
          BuddyOf(cur, pp_order[cur]) \notin ToSet(buddy_free_list[pp_order[cur]])
    /\ pc = "wild" => pp_order[cur] = BUDDY_MAX_ORDER

\* The inductive invariant: what lists, flags, orders and blocks satisfy between
\* any two iterations of the allocator's loops.
BuddyInv ==
    /\ TypeOK /\ FreeFlagsMatchLists /\ BlocksDisjoint /\ NoPageLost
    /\ HeadsAligned /\ NoFreeBuddies /\ PendingUntouched /\ HeldInUse
    /\ InFlightOK

\* The check page_free() makes under BONUS_LAB1 never turns away, and never
\* trips over, a block its owner may legally free.
ValidFreeAccepted ==
    pc = "idle" => \A p \in held : ~ Misplaced(p) /\ ~ Rejected(p)

\* Boot keeps a page of every aligned pair of largest blocks.
TopPairsReserved ==
    \A r \in Regions(BUDDY_MAX_ORDER) :
        ~ (Frames(r, BUDDY_MAX_ORDER) \subseteq ToSet(BootPages))

\* "Buddy orders go from 0 to BUDDY_MAX_ORDER - 1": page_free() never adds a
\* block of order BUDDY_MAX_ORDER to a list.  buddy_merge() does not see to it
\* itself; it holds only under TopPairsReserved.
ListIndexInBounds == pc # "wild"

\* Merging and splitting end: every call into the allocator returns.
CallsReturn == (pc \in {"split", "merge", "add"}) ~> (pc = "idle")

\* A block on loan is its owner's: no step of the allocator changes its order,
\* and with it its extent, or flags it free until the owner gives it back.
LoanUntouched ==
    [][\A p \in held \cap held' :
          pp_order'[p] = pp_order[p] /\ pp_free'[p] = 0]_vars

\* Lists, orders and flags implement the abstract allocator: a block leaves
\* the free pages when its split ends and returns when page_free() is called.
Abstract == INSTANCE PageAllocator WITH
                Usable <- ToSet(BootPages),
                free   <- FreePages,
                loans  <- {<<p, pp_order[p]>> : p \in held}
ImplementsPageAllocator == Abstract!AbsSpec
=============================================================================
