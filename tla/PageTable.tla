----------------------------- MODULE PageTable -----------------------------
(***************************************************************************)
(* The page tables: the walk of kernel/mem/walk.c over four levels of      *)
(* tables with the callbacks of insert.c, remove.c, lookup.c, map.c,       *)
(* ptbl.c and dump.c, and the references they count in pp_ref.             *)
(*                                                                         *)
(* A page is its index in pages[]; an address is a number of bytes modulo  *)
(* WORD.  Any page may be used as a table, so all of memory is read as     *)
(* tables, and what it holds when the kernel starts, or when a caller has  *)
(* written to a page, is arbitrary.  The walk is a stack of loops, one per *)
(* level; one iteration is an action, with the callbacks it makes.  The    *)
(* build is the default one, without BONUS_LAB1: page_alloc() gives single *)
(* pages, for ALLOC_HUGE too, and zeroes them only for ALLOC_ZERO.         *)
(***************************************************************************)
EXTENDS Integers, Sequences, FiniteSets

CONSTANTS
    NPAGES,          \* npages: the pages the allocator manages
    ENTRIES,         \* PAGE_TABLE_ENTRIES
    Span,            \* Span[k]: the bytes an entry of level k stands for;
                     \* level 1 is the page table and level 4 the PML4
    WORD,            \* addresses are computed modulo WORD
    REF_LIM,         \* pp_ref is counted modulo REF_LIM
    kernel_pml4,     \* the page of the kernel's PML4
    PickFree(_),     \* which of the free pages page_alloc() takes
    InsertAddrs,     \* where callers insert pages ...
    Ranges,          \* ... and what they remove: pairs of va and size
    ProgramHeaders,  \* of the kernel's ELF file: [load, va, size, pa, exec, write]
    KERNEL_VMA,      \* where the kernel half of the address space begins
    KernelRegion,    \* what boot_map_kernel() maps first: [va, size, pa, flags]
    StackRegion, PagesRegion,   \* what pml4_setup() maps then
    BootMaps,        \* regions mapped with boot_map_region() later
    DumpMasks,       \* masks of dump_page_tables()
    Leftovers,       \* what memory may hold when the kernel starts
    PageData,        \* what callers write into a page before they insert it
    GoesOn,          \* a bound: whether calls begin once one has gone astray
    NULL

Pages  == 0 .. NPAGES - 1
Flags  == {"PRESENT", "WRITE", "USER", "HUGE", "NO_EXEC"}
Slots  == 0 .. ENTRIES - 1
Levels == 1 .. 4
Addrs  == 0 .. WORD - 1
PAGE_SIZE == Span[1]
Entries   == [page : Nat, flags : SUBSET Flags]

Regions == [va : Addrs, size : Nat, pa : Nat, flags : SUBSET Flags]

\* Permissions callers ask for: none, those of buddy_map_chunk().
Permissions == {{}, {"WRITE", "NO_EXEC"}}

ASSUME PageTableAssumption ==
    /\ NPAGES \in Nat \ {0} /\ ENTRIES \in Nat \ {0, 1} /\ WORD \in Nat \ {0}
    /\ REF_LIM \in Nat \ {0, 1}
    /\ kernel_pml4 \in Pages
    /\ Span \in [Levels -> Nat \ {0}]
    /\ InsertAddrs \subseteq Addrs
    /\ \A r \in Ranges : r[1] \in Addrs /\ r[2] \in Nat
    /\ {KernelRegion, StackRegion, PagesRegion} \cup BootMaps \subseteq Regions
    \* Later static mappings are of memory the allocator does not manage.
    /\ \A b \in BootMaps : b.pa >= NPAGES
    /\ ProgramHeaders \in Seq([load : BOOLEAN, va : Addrs, size : Nat, pa : Nat,
                                exec : BOOLEAN, write : BOOLEAN])
    /\ \A m \in DumpMasks : m \subseteq Flags
    /\ Leftovers \subseteq [Pages -> [Slots -> Entries]]
    /\ PageData \subseteq [Slots -> Entries] /\ GoesOn \in BOOLEAN
    /\ NULL \notin Pages \cup (Pages \X Slots)

ASSUME PickFreeAssumption ==
    \A S \in SUBSET Pages : S # {} => PickFree(S) \in S

ASSUME SpanAssumption ==
    /\ PAGE_SIZE >= 2
    /\ \A k \in 1 .. 3 : Span[k + 1] = ENTRIES * Span[k]
    /\ \A k \in Levels : WORD % Span[k] = 0
    /\ WORD % (ENTRIES * Span[4]) = 0

VARIABLES
    entries,   \* every page as a table: entries[page][slot]
    pp_ref,    \* the reference counts of struct page_info
    free,      \* the pages page_alloc() may take
    op,        \* the call under way or, when idle, the last one
    loops,     \* the loops of the walk, innermost first
    found,     \* lookup_info.entry: a pair of table and slot, or NULL
    region,    \* dump_info: the region not printed yet
    lines,     \* the regions printed by the last dump
    setup,     \* the region of BootCalls pml4_setup() maps next
    ret,       \* what the last call returned
    pc,        \* "idle", "walk", "panic" or "wild"
    leftover,  \* history: the entries, pairs of table and slot, that are
               \* present and that the code has not written
    astray     \* history: a call that changes entries has used one of them

memory == <<entries, pp_ref, free, leftover>>
vars == <<entries, pp_ref, free, op, loops, found, region, lines, setup, ret, pc,
          leftover, astray>>

HOLE  == [page |-> 0, flags |-> {}]
Empty == [i \in Slots |-> HOLE]
NoRegion == [base |-> 0, end |-> 0, flags |-> {}]

Present(e) == "PRESENT" \in e.flags
Huge(e)    == "HUGE" \in e.flags

\* boot_map_kernel(): a region per program header, not PRESENT; those that are
\* not loaded or below KERNEL_VMA are passed over.
Loaded(h) == h.load /\ h.va >= KERNEL_VMA

RegionOf(h) ==
    [va |-> h.va, size |-> h.size, pa |-> h.pa,
     flags |-> (IF h.exec THEN {} ELSE {"NO_EXEC"})
                   \cup (IF h.write THEN {"WRITE"} ELSE {})]

BootCalls ==
    <<KernelRegion>>
        \o [i \in DOMAIN ProgramHeaders |-> RegionOf(ProgramHeaders[i])]
        \o <<StackRegion, PagesRegion>>

PassedOver(i) ==
    i - 1 \in DOMAIN ProgramHeaders /\ ~ Loaded(ProgramHeaders[i - 1])

\* The entries of page p that are present when it holds table t.
PresentIn(p, t) == {x \in {p} \X Slots : Present(t[x[2]])}

\* In pml4_setup(), after page_alloc(ALLOC_ZERO): one page is zeroed.
Init ==
    /\ setup = 1
    /\ entries \in {[m EXCEPT ![kernel_pml4] = Empty] : m \in Leftovers}
    /\ leftover = UNION {PresentIn(p, entries[p]) : p \in Pages}
    /\ astray = FALSE
    /\ pp_ref = [p \in Pages |-> 0]
    /\ free = Pages \ {kernel_pml4}
    /\ op = [name |-> "none"] /\ loops = <<>> /\ found = NULL
    /\ region = NoRegion /\ lines = {} /\ ret = NULL
    /\ pc = "idle"

-----------------------------------------------------------------------------
(* Addresses *)

RoundDown(a) == a - (a % PAGE_SIZE)
RoundUp(a)   == RoundDown((a + PAGE_SIZE - 1) % WORD)

PageStarts(base, end) == {a \in base .. end : a % PAGE_SIZE = 0}

\* Which entry of a table of level k an address selects, and the last address
\* for which it is the same entry.
Index(k, a) == (a \div Span[k]) % ENTRIES
End(k, a)   == a - (a % Span[k]) + Span[k] - 1

\* hpage_aligned()
HPageAligned(a) == a % Span[2] = 0

\* The entries a walk to address a goes through: that of the directory pointer
\* table, that of the page directory, and the leaf, of a page or a huge page.
Below(k, e, a) ==
    IF Present(e) /\ ~ Huge(e) /\ e.page \in Pages
    THEN entries[e.page][Index(k, a)] ELSE HOLE

Directory(a) == Below(3, entries[kernel_pml4][Index(4, a)], a)

Pde(a) == Below(2, Directory(a), a)

Leaf(a) == IF Present(Pde(a)) /\ Huge(Pde(a)) THEN Pde(a) ELSE Below(1, Pde(a), a)

Maps(a, p) == Present(Leaf(a)) /\ Leaf(a).page = p

\* The entries that walk goes through, in their tables.
Way(a) ==
    {<<kernel_pml4, Index(4, a)>>,
     <<entries[kernel_pml4][Index(4, a)].page, Index(3, a)>>,
     <<Directory(a).page, Index(2, a)>>}
        \cup (IF Huge(Pde(a)) THEN {} ELSE {<<Pde(a).page, Index(1, a)>>})

-----------------------------------------------------------------------------
(* Faults a programmer could have made, one per operator: no action uses     *)
(* them, they take the place of the definition their name begins with.       *)
(* They stand before the walk and spell out what it has names for.           *)

\* next = X_end(next), without the + 1.
StepLoopShort(s) ==
    <<[Head(s) EXCEPT !.next = End(Head(s).level, Head(s).next)]>> \o Tail(s)

\* The page table walked like the tables above it.
DescendsBelow(e) == Present(e) /\ ~ Huge(e)

\* An entry whose page is unreferenced, but which is not cleared.
ClearCountOnly(e) ==
    /\ pp_ref' = [pp_ref EXCEPT ![e.page] = (@ + REF_LIM - 1) % REF_LIM]
    /\ free' = free \cup (IF pp_ref[e.page] = 1 THEN {e.page} ELSE {})
    /\ UNCHANGED <<entries, leftover>>

\* dump_hole() printing the region and keeping its flags.
EndedKept(r) == r

-----------------------------------------------------------------------------
(* The walk *)

Top   == Head(loops)
Slot  == Index(Top.level, Top.next)
Entry == entries[Top.table][Slot]

Loop(k, table, base, end) ==
    [level |-> k, table |-> table, next |-> base, end |-> end]

\* for (next = base; next < end; next = X_end(next) + 1)
InBody == loops # <<>> /\ Top.next < Top.end

StepLoop(s) ==
    <<[Head(s) EXCEPT !.next = (End(Head(s).level, Head(s).next) + 1) % WORD]>>
        \o Tail(s)

\* The walk is in an iteration of operation name at one of the levels ks.
In(name, ks) == pc = "walk" /\ op.name = name /\ InBody /\ Top.level \in ks

\* After the callbacks: into the next table, or on to the next entry.  Tables
\* are used at their physical address, which must be memory.
Descends(e) == Top.level > 1 /\ Present(e) /\ ~ Huge(e)

Proceed ==
    /\ LET e == entries'[Top.table][Slot]
       IN  IF ~ Descends(e)
           THEN loops' = StepLoop(loops) /\ pc' = "walk"
           ELSE IF e.page \in Pages
           THEN /\ loops' = <<Loop(Top.level - 1, e.page, Top.next,
                                   End(Top.level, Top.next))>> \o loops
                /\ pc' = "walk"
           ELSE pc' = "wild" /\ UNCHANGED loops
    /\ astray' = (astray \/ (op.name \notin {"lookup", "dump"}
                                /\ <<Top.table, Slot>> \in leftover))

\* pml4_walk_range(kernel_pml4, base, end, ...), for a call that begins.
WalkFrom(base, end) ==
    /\ loops' = <<Loop(4, kernel_pml4, base, end)>>
    /\ found' = NULL /\ region' = NoRegion /\ lines' = {} /\ ret' = NULL
    /\ pc' = "walk"

WalkPageRange(base, end) ==
    WalkFrom(RoundDown(base), (RoundUp(end % WORD) + WORD - 1) % WORD)

WalkAllPages == WalkFrom(0, WORD - 1)

\* A level whose callback the operation does not set.
Pass ==
    /\ In("remove", {3, 4}) \/ In("lookup", {3, 4}) \/ In("boot_map", {3, 4})
    /\ UNCHANGED memory
    /\ Proceed
    /\ UNCHANGED <<op, found, region, lines, setup, ret>>

\* The end of an inner loop: on to the next entry of the outer one.
LeaveLoop ==
    /\ pc = "walk" /\ ~ InBody /\ Len(loops) > 1
    /\ loops' = StepLoop(Tail(loops))
    /\ UNCHANGED <<memory, op, found, region, lines, setup, ret, pc, astray>>

-----------------------------------------------------------------------------
(* What callbacks do to memory *)

Plus(n)  == (n + 1) % REF_LIM
Minus(n) == (n + REF_LIM - 1) % REF_LIM

\* page_decref() of the page an entry points to, before anything else changes.
Decref(e) == [pp_ref EXCEPT ![e.page] = Minus(@)]
FreedBy(e) == IF Decref(e)[e.page] = 0 THEN {e.page} ELSE {}

\* An entry set, or cleared, in the table the walk is in.
Set(e) ==
    /\ entries' = [entries EXCEPT ![Top.table][Slot] = e]
    /\ leftover' = leftover \ {<<Top.table, Slot>>}

\* pa2page() panics for a page that has no struct page_info.
Unmanaged(e) == Present(e) /\ e.page \notin Pages

\* page_free() of a page that is free already ruins the free lists.
FreedTwice(e) == Present(e) /\ e.page \in free /\ pp_ref[e.page] = 1

-----------------------------------------------------------------------------
(* page_insert() *)

\* Calls begin after pml4_setup() has returned.
Begin ==
    /\ pc = "idle" /\ setup > Len(BootCalls)
    /\ astray => GoesOn
    /\ UNCHANGED setup

\* A page just allocated, as it was, zeroed, or written to.
PageInsertFresh(va, perms) ==
    /\ Begin /\ free # {}
    /\ HPageAligned(va)
    /\ LET p == PickFree(free)
       IN  /\ free' = free \ {p}
           /\ \/ UNCHANGED <<entries, leftover>>
              \/ \E t \in {Empty} \cup PageData :
                    /\ entries' = [entries EXCEPT ![p] = t]
                    /\ leftover' = (leftover \ ({p} \X Slots)) \cup PresentIn(p, t)
           /\ op' = [name |-> "insert", page |-> p, va |-> va,
                     flags |-> perms \cup {"PRESENT"}]
    /\ WalkPageRange(va, va + PAGE_SIZE)
    /\ UNCHANGED <<pp_ref, astray>>

\* The page that is mapped at a, once more, there or elsewhere.
PageInsertAgain(a, va, perms) ==
    /\ Begin
    /\ Present(Leaf(a)) /\ Leaf(a).page \in Pages
    /\ HPageAligned(va)
    /\ op' = [name |-> "insert", page |-> Leaf(a).page, va |-> va,
              flags |-> perms \cup {"PRESENT"}]
    /\ astray' = (astray \/ Way(a) \cap leftover # {})
    /\ WalkPageRange(va, va + PAGE_SIZE)
    /\ UNCHANGED memory

\* Any page at an address where no 2M page could begin.
PageInsertMisaligned(va) ==
    /\ Begin
    /\ ~ HPageAligned(va)
    /\ op' = [name |-> "insert", va |-> va]
    /\ ret' = -1 /\ found' = NULL /\ region' = NoRegion /\ lines' = {}
    /\ UNCHANGED <<memory, loops, pc, astray>>

\* The page the call inserts, counted, in place of whatever the entry held.
Install ==
    /\ pp_ref' = [(IF Present(Entry) THEN Decref(Entry) ELSE pp_ref)
                     EXCEPT ![op.page] = Plus(@)]
    /\ free' = free \cup (IF Present(Entry) THEN FreedBy(Entry) ELSE {})
    /\ Set([page |-> op.page, flags |-> op.flags])

InsertPte ==
    /\ In("insert", {1, 4})
    /\ ~ Unmanaged(Entry) /\ ~ FreedTwice(Entry)
    /\ Install
    /\ Proceed
    /\ UNCHANGED <<op, found, region, lines, setup, ret>>

\* ptbl_alloc() for an entry that is not present: a page that is not zeroed.
NewTable ==
    LET p == PickFree(free)
    IN  /\ free' = free \ {p}
        /\ pp_ref' = [pp_ref EXCEPT ![p] = Plus(@)]
        /\ Set([page |-> p, flags |-> {"PRESENT", "WRITE", "USER"}])

PtblAlloc == IF Present(Entry) THEN UNCHANGED memory ELSE free # {} /\ NewTable

InsertPde ==
    /\ In("insert", {2, 3})
    /\ IF Huge(Entry)
       THEN ~ Unmanaged(Entry) /\ ~ FreedTwice(Entry) /\ Install
       ELSE PtblAlloc
    /\ Proceed
    /\ UNCHANGED <<op, found, region, lines, setup, ret>>

-----------------------------------------------------------------------------
(* page_remove(), unmap_page_range() *)

UnmapPageRange(va, size) ==
    /\ Begin
    /\ op' = [name |-> "remove", va |-> va, size |-> size]
    /\ WalkPageRange(va, va + size)
    /\ UNCHANGED <<memory, astray>>

Clear(e) ==
    /\ pp_ref' = Decref(e)
    /\ free' = free \cup FreedBy(e)
    /\ Set(HOLE)

RemovePte ==
    /\ In("remove", {1})
    /\ ~ Unmanaged(Entry) /\ ~ FreedTwice(Entry)
    /\ IF Present(Entry) THEN Clear(Entry) ELSE UNCHANGED memory
    /\ Proceed
    /\ UNCHANGED <<op, found, region, lines, setup, ret>>

\* A fault: huge pages are left where they are.
RemovePdeNever ==
    /\ In("remove", {2})
    /\ UNCHANGED memory
    /\ Proceed
    /\ UNCHANGED <<op, found, region, lines, setup, ret>>

RemovePde ==
    /\ In("remove", {2})
    /\ Huge(Entry) => ~ Unmanaged(Entry) /\ ~ FreedTwice(Entry)
    /\ IF Present(Entry) /\ Huge(Entry) THEN Clear(Entry) ELSE UNCHANGED memory
    /\ Proceed
    /\ UNCHANGED <<op, found, region, lines, setup, ret>>

-----------------------------------------------------------------------------
(* page_lookup() *)

PageLookup(va) ==
    /\ Begin
    /\ op' = [name |-> "lookup", va |-> va]
    /\ WalkPageRange(va, va + PAGE_SIZE)
    /\ UNCHANGED <<memory, astray>>

\* A fault: the first entry kept, not the last.
LookupEntryFirst ==
    /\ In("lookup", {1, 2})
    /\ found' = IF Present(Entry) /\ found = NULL THEN <<Top.table, Slot>> ELSE found
    /\ UNCHANGED memory
    /\ Proceed
    /\ UNCHANGED <<op, region, lines, setup, ret>>

\* lookup_pte(), and lookup_pde(), which does not ask for a huge page.
LookupEntry ==
    /\ In("lookup", {1, 2})
    /\ found' = IF Present(Entry) THEN <<Top.table, Slot>> ELSE found
    /\ UNCHANGED memory
    /\ Proceed
    /\ UNCHANGED <<op, region, lines, setup, ret>>

-----------------------------------------------------------------------------
(* boot_map_region() *)

BootMapRegion(b) ==
    /\ pc = "idle"
    /\ op' = [name |-> "boot_map", va |-> b.va, size |-> b.size,
              page |-> b.pa, flags |-> b.flags]
    /\ WalkPageRange(b.va, b.va + b.size)
    /\ UNCHANGED <<memory, astray>>

BootMapPte ==
    /\ In("boot_map", {1})
    /\ Set([page |-> op.page, flags |-> op.flags])
    /\ op' = [op EXCEPT !.page = @ + 1]
    /\ UNCHANGED <<pp_ref, free>>
    /\ Proceed
    /\ UNCHANGED <<found, region, lines, setup, ret>>

\* The entry is overwritten before ptbl_split() looks at it, so that it never
\* is a huge page there: ptbl_split() is ptbl_alloc().
BootMapPde ==
    /\ In("boot_map", {2})
    /\ IF "HUGE" \in op.flags \/ "PRESENT" \in op.flags
       THEN /\ Set([page |-> op.page, flags |-> op.flags])
            /\ UNCHANGED <<pp_ref, free>>
       ELSE free # {} /\ NewTable
    /\ op' = IF "HUGE" \in op.flags THEN [op EXCEPT !.page = @ + ENTRIES] ELSE op
    /\ Proceed
    /\ UNCHANGED <<found, region, lines, setup, ret>>

-----------------------------------------------------------------------------
(* dump_page_tables() *)

DumpPageTables(mask) ==
    /\ Begin
    /\ op' = [name |-> "dump", around |-> FALSE,
              mask |-> mask \cup {"PRESENT", "WRITE", "NO_EXEC", "USER"}]
    /\ WalkAllPages
    /\ UNCHANGED <<memory, astray>>

\* dump_hole() prints the region it is given, if it is of present pages.
Printed(r) == IF Present(r) THEN {r} ELSE {}

Ended(r) == [r EXCEPT !.flags = {}]

\* dump_pte(), and dump_pde() for a huge page: the entry continues the region
\* or begins another.
Extended(r) ==
    LET flags == Entry.flags \cap op.mask
        last  == End(Top.level, Top.next)
    IN  IF flags = r.flags THEN [r EXCEPT !.end = last]
        ELSE [base |-> Top.next, end |-> last, flags |-> flags]

Shows == Top.level = 1 \/ (Top.level = 2 /\ Huge(Entry))

\* The callback and then, for an entry that is not present, dump_hole().
\* op.around is history: the walk has passed the last address.
DumpEntry ==
    /\ In("dump", Levels)
    /\ LET r == IF Shows THEN Extended(region) ELSE region
           h == ~ Present(Entry)
       IN  /\ region' = IF h THEN Ended(r) ELSE r
           /\ lines' = lines
                \cup (IF Shows /\ r.flags # region.flags THEN Printed(region) ELSE {})
                \cup (IF h THEN Printed(r) ELSE {})
    /\ op' = [op EXCEPT !.around =
                  @ \/ (End(Top.level, Top.next) = WORD - 1 /\ ~ Descends(Entry))]
    /\ UNCHANGED memory
    /\ Proceed
    /\ UNCHANGED <<found, setup, ret>>

-----------------------------------------------------------------------------
(* The end of a call *)

WalkDone == pc = "walk" /\ ~ InBody /\ Len(loops) = 1

\* page_lookup() gives pa2page() the entry with all its flags: with the bit of
\* NO_EXEC it is no address of a page.
LookupDone ==
    /\ WalkDone /\ op.name = "lookup"
    /\ LET e == entries[found[1]][found[2]]
       IN  IF found = NULL
           THEN ret' = NULL /\ pc' = "idle"
           ELSE IF "NO_EXEC" \notin e.flags /\ e.page \in Pages
           THEN ret' = e.page /\ pc' = "idle"
           ELSE ret' = ret /\ pc' = "panic"
    /\ loops' = <<>>
    /\ UNCHANGED <<memory, op, found, region, lines, setup, astray>>

OtherDone ==
    /\ WalkDone /\ op.name # "lookup"
    /\ ret' = 0 /\ pc' = "idle" /\ loops' = <<>>
    /\ IF op.name = "dump"
       THEN lines' = lines \cup Printed(region) /\ region' = NoRegion
       ELSE UNCHANGED <<lines, region>>
    /\ UNCHANGED <<memory, op, found, setup, astray>>

\* The page of an entry to be replaced or removed loses a reference ...
Unreferences ==
    \/ In("insert", {1, 4}) \/ In("remove", {1})
    \/ (In("insert", {2, 3}) \/ In("remove", {2})) /\ Huge(Entry)

\* ... which it may have no struct page_info for ...
NoSuchPage ==
    /\ Unreferences /\ Unmanaged(Entry)
    /\ pc' = "panic"
    /\ UNCHANGED <<memory, op, loops, found, region, lines, setup, ret, astray>>

\* ... or which may be its last for a second time.
FreeAgain ==
    /\ Unreferences /\ FreedTwice(Entry)
    /\ pc' = "wild"
    /\ UNCHANGED <<memory, op, loops, found, region, lines, setup, ret, astray>>

\* ptbl_alloc() without memory: it writes through NULL.
NoTable ==
    /\ \/ In("insert", {2, 3}) /\ ~ Huge(Entry) /\ ~ Present(Entry)
       \/ In("boot_map", {2}) /\ op.flags \cap {"HUGE", "PRESENT"} = {}
    /\ free = {}
    /\ pc' = "wild"
    /\ UNCHANGED <<memory, op, loops, found, region, lines, setup, ret, astray>>

\* pml4_setup() goes on.
Pml4Setup ==
    /\ pc = "idle" /\ setup <= Len(BootCalls)
    /\ IF PassedOver(setup)
       THEN UNCHANGED <<memory, op, loops, found, region, lines, ret, pc, astray>>
       ELSE BootMapRegion(BootCalls[setup])
    /\ setup' = setup + 1

Call ==
    \/ \E va \in InsertAddrs, perms \in Permissions : PageInsertFresh(va, perms)
    \/ \E a, va \in InsertAddrs, perms \in Permissions : PageInsertAgain(a, va, perms)
    \/ \E va \in InsertAddrs : PageInsertMisaligned(va)
    \/ \E r \in Ranges : UnmapPageRange(r[1], r[2]) \/ PageLookup(r[1])
    \/ \E b \in BootMaps : Begin /\ BootMapRegion(b)
    \/ \E mask \in DumpMasks : DumpPageTables(mask)

Walk ==
    \/ InsertPte \/ InsertPde \/ RemovePte \/ RemovePde \/ LookupEntry
    \/ BootMapPte \/ BootMapPde \/ DumpEntry \/ Pass \/ LeaveLoop
    \/ LookupDone \/ OtherDone \/ NoSuchPage \/ FreeAgain \/ NoTable

Next == Pml4Setup \/ Call \/ Walk

\* Nothing interrupts a walk.
Spec == Init /\ [][Next]_vars /\ WF_vars(Walk)

-----------------------------------------------------------------------------
(* Properties *)

LoopType == [level : Levels, table : Pages, next : Addrs, end : Addrs]

\* Every variable keeps its type; the loops of a walk are one per level, from
\* the PML4's, and every table walked is a page of memory.
TypeOK ==
    /\ entries \in [Pages -> [Slots -> Entries]]
    /\ pp_ref \in [Pages -> 0 .. REF_LIM - 1]
    /\ free \subseteq Pages
    /\ setup \in 1 .. Len(BootCalls) + 1
    /\ pc \in {"idle", "walk", "panic", "wild"}
    /\ leftover \subseteq Pages \X Slots /\ astray \in BOOLEAN
    /\ loops \in Seq(LoopType)
    /\ \A i \in DOMAIN loops : loops[i].level = 4 - Len(loops) + i

\* The entries that point to a page, wherever they are in memory, leaving out
\* those the code has not written.
References(p) ==
    {x \in (Pages \X Slots) \ leftover :
        Present(entries[x[1]][x[2]]) /\ entries[x[1]][x[2]].page = p}

\* pp_ref counts the entries that point to a page (kernel/include paging.h), so
\* that a page given back to the allocator is one that no entry points to.
MappedNotFree == \A p \in free : References(p) = {}

\* So it is as long as no call has changed anything by way of an entry that was
\* in memory when the kernel started or that a caller wrote there as data:
\* whatever is mapped, remapped, unmapped and walked over, with tables that are
\* not zeroed, no page is given out twice.
MappedKept == ~ astray => MappedNotFree

\* Then, too, no page has more such entries than pp_ref counts.
CountsCover == \A p \in Pages : Cardinality(References(p)) <= pp_ref[p]

\* The pages from va to the end of the span of va's entry in the PML4: inner
\* loops do not end where the range does.
ToSpanEnd(va) == PageStarts(RoundDown(va), End(4, va))

Returned(name) == pc = "idle" /\ op.name = name

\* The pages of [va, va + size), which page_remove() and unmap_page_range() are
\* to unmap (kernel/mem/remove.c).
RangeOfCall == PageStarts(RoundDown(op.va), op.va + op.size - 1)

\* When they have returned, no page of the range is mapped, whatever is in
\* memory and however the tables overlap.
RemoveUnmaps == Returned("remove") => \A a \in RangeOfCall : ~ Present(Leaf(a))

\* And they clear no entry for an address outside of the range.
RemovesOnlyRange ==
    [][(pc = "walk" /\ op.name = "remove" /\ entries' # entries)
        => Top.next \in RoundDown(op.va) .. op.va + op.size - 1]_vars

\* page_lookup() returns NULL only if nothing is mapped at va; what it returns
\* is a page that a directory entry of the span, or the leaf behind one, is of,
\* and the page mapped at va if no directory entry behind va leads elsewhere.
LookupFinds ==
    Returned("lookup") =>
        /\ Present(Leaf(op.va)) => ret # NULL
        /\ ret # NULL => \E a \in ToSpanEnd(op.va) :
               Present(Pde(a)) /\ (Pde(a).page = ret \/ Maps(a, ret))
        /\ /\ Present(Leaf(op.va))
           /\ \A a \in ToSpanEnd(op.va) :
                  Present(Pde(a)) => Maps(a, Leaf(op.va).page)
           => ret = Leaf(op.va).page

\* Until it has passed the last address, the regions a dump has printed or is
\* about to print are of pages mapped with the flags shown, no two of them
\* should be one, and they leave out no page the dump has passed.
Shown == lines \cup Printed(region)

DumpShows ==
    op.name = "dump" /\ pc = "walk" /\ ~ op.around =>
        /\ \A r \in Shown : \A a \in PageStarts(r.base, r.end) :
               Present(Leaf(a)) /\ r.flags = Leaf(a).flags \cap op.mask
        /\ \A r, s \in Shown : s.base = r.end + 1 => r.flags # s.flags
        /\ \A a \in PageStarts(0, Top.next - 1) :
               Present(Leaf(a)) => \E r \in Shown : r.base <= a /\ a <= r.end

\* Every walk of a range ends, whatever the tables hold ...
WalkEnds == (pc = "walk" /\ op.name # "dump") ~> (pc # "walk")

\* ... and so should walk_all_pages(), which the tests call and go on after
\* (kernel/tests/lab2.c: "check_ptbl_flags() succeeded!").
WalkAllEnds == (pc = "walk") ~> (pc # "walk")
=============================================================================
