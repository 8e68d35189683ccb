------------------------------ MODULE BootMem ------------------------------
(***************************************************************************)
(* Physical memory at boot: kernel/mem/boot.c and mem_init(), page_init()  *)
(* and page_init_ext() of kernel/mem/init.c.  From the memory map of the   *)
(* firmware the kernel sizes and allocates the array pages[] and decides   *)
(* which pages to hand to page_free(), one by one; what page_free() then   *)
(* does with them is module Buddy, whose BootPages is freed of this one.   *)
(* Addresses are bytes; the loops make one iteration per action.           *)
(***************************************************************************)
EXTENDS Integers, SequencesExt

CONSTANTS
    PAGE_SIZE, BOOT_MAP_LIM,
    WORD,            \* physical addresses are computed modulo WORD
    KERNEL_LMA, end, \* the kernel image is [KERNEL_LMA, end)
    StructSize,      \* sizeof (struct page_info)
    boot_info,       \* where the boot loader left struct boot_info ...
    elf_hdr,         \* ... and the ELF header
    MemMaps,         \* the memory maps a firmware may report
    FREE             \* MMAP_FREE; every other type is treated alike

Entries(Types) == [type : Types, addr : 0 .. WORD - 1, len : 0 .. WORD - 1]

ASSUME BootMemAssumption ==
    /\ PAGE_SIZE \in Nat \ {0} /\ StructSize \in Nat \ {0}
    /\ WORD \in Nat /\ BOOT_MAP_LIM \in 1 .. WORD - 1
    /\ WORD % PAGE_SIZE = 0 /\ BOOT_MAP_LIM % PAGE_SIZE = 0
    /\ KERNEL_LMA \in Nat /\ end \in Nat /\ KERNEL_LMA <= end
    /\ boot_info \in Nat /\ elf_hdr \in Nat
    /\ \A m \in MemMaps : m \in Seq(Entries({m[j].type : j \in DOMAIN m}))

VARIABLES
    bios,        \* the memory map as the firmware reported it
    mmap,        \* the memory map as the kernel has it
    next_free,   \* boot_alloc()'s static variable
    npages,
    freed,       \* the pages passed to page_free(), in order
    pc,          \* the step of mem_init(), "panic" or "done"
    i, pa        \* entry and address the loops of page_init() are at

vars == <<bios, mmap, next_free, npages, freed, pc, i, pa>>

RoundDown(a) == a - (a % PAGE_SIZE)
RoundUp(a)   == RoundDown((a + PAGE_SIZE - 1) % WORD)

End(e) == (e.addr + e.len) % WORD

Init ==
    /\ bios \in MemMaps
    /\ mmap = bios
    /\ next_free = RoundUp(end)
    /\ npages = 0 /\ freed = <<>>
    /\ pc = "align" /\ i = 1 /\ pa = 0

-----------------------------------------------------------------------------
(* Faults a programmer could have made, one per operator: no action uses     *)
(* them, they take the place of the definition their name begins with.       *)

\* The first free region taken for the highest.
HighestAddrFirst ==
    LET free == {j \in DOMAIN mmap : mmap[j].type = FREE}
    IN  IF free = {} THEN 0
        ELSE End(mmap[CHOOSE j \in free : \A k \in free : j <= k])

\* pages[] not limited to the memory that is mapped.
CountPagesUnlimited ==
    /\ pc = "count"
    /\ npages' = HighestAddrFirst \div PAGE_SIZE
    /\ pc' = "alloc"
    /\ UNCHANGED <<bios, mmap, next_free, freed, i, pa>>

\* Only the kernel image reserved, not what boot_alloc() added to it.
addr_reservedImage(a) ==
    \/ a \in {0, elf_hdr, RoundDown(boot_info)}
    \/ KERNEL_LMA <= a /\ a < RoundUp(end)

\* The page behind the last reserved one reserved too.
addr_reservedBeyond(a) ==
    \/ a \in {0, elf_hdr, RoundDown(boot_info)}
    \/ KERNEL_LMA <= a /\ a <= next_free

\* No address skipped.
VisitPageAny(skip) ==
    /\ i <= Len(mmap) /\ mmap[i].type = FREE /\ pa < End(mmap[i])
    /\ pa' = (pa + PAGE_SIZE) % WORD
    /\ IF pa \div PAGE_SIZE < npages
       THEN freed' = Append(freed, pa \div PAGE_SIZE) /\ UNCHANGED pc
       ELSE pc' = "panic" /\ UNCHANGED freed
    /\ UNCHANGED <<bios, mmap, next_free, npages, i>>

\* The entry left as it was.
NextEntryAgain ==
    /\ pc \in {"init", "ext"}
    /\ i <= Len(mmap)
    /\ ~ (mmap[i].type = FREE /\ pa < End(mmap[i]))
    /\ UNCHANGED vars

-----------------------------------------------------------------------------
(* mem_init() up to page_init() *)

\* Free regions shrink to page boundaries, all others grow to them.
AlignedEntry(e) ==
    LET base == IF e.type = FREE THEN RoundUp(e.addr) ELSE RoundDown(e.addr)
        len  == (e.len - (base - e.addr)) % WORD
        lim  == IF e.type = FREE THEN RoundDown((base + len) % WORD)
                                 ELSE RoundUp((base + len) % WORD)
    IN  [e EXCEPT !.addr = base, !.len = (lim - base) % WORD]

AlignBootInfo ==
    /\ pc = "align"
    /\ mmap' = [j \in DOMAIN mmap |-> AlignedEntry(mmap[j])]
    /\ pc' = "count"
    /\ UNCHANGED <<bios, next_free, npages, freed, i, pa>>

\* highest_addr: where the last of the free regions ends.
HighestAddr ==
    LET free == {j \in DOMAIN mmap : mmap[j].type = FREE}
    IN  IF free = {} THEN 0
        ELSE End(mmap[CHOOSE j \in free : \A k \in free : k <= j])

CountPages ==
    /\ pc = "count"
    /\ npages' = (IF HighestAddr < BOOT_MAP_LIM THEN HighestAddr
                                                ELSE BOOT_MAP_LIM) \div PAGE_SIZE
    /\ pc' = "alloc"
    /\ UNCHANGED <<bios, mmap, next_free, freed, i, pa>>

\* The loops over the map start again at its first entry.
FromFirstEntry == i' = 1 /\ pa' = IF mmap = <<>> THEN 0 ELSE mmap[1].addr

\* boot_alloc() of pages[], whose assertion keeps it in mapped memory; then
\* page_init() converts the map's address, which needs a page to exist.
AllocPages ==
    /\ pc = "alloc"
    /\ next_free' = RoundUp(next_free + npages * StructSize)
    /\ pc' = IF next_free' < BOOT_MAP_LIM /\ npages > 0 THEN "init" ELSE "panic"
    /\ FromFirstEntry
    /\ UNCHANGED <<bios, mmap, npages, freed>>

-----------------------------------------------------------------------------
(* page_init() and page_init_ext() *)

addr_reserved(a) ==
    \/ a \in {0, elf_hdr, RoundDown(boot_info)}
    \/ KERNEL_LMA <= a /\ a < next_free

InRegion == i <= Len(mmap) /\ mmap[i].type = FREE /\ pa < End(mmap[i])

\* page_free(pa2page(a)): pa2page() panics if the page has no struct.
HandOver(a) ==
    IF a \div PAGE_SIZE < npages
    THEN freed' = Append(freed, a \div PAGE_SIZE) /\ UNCHANGED pc
    ELSE pc' = "panic" /\ UNCHANGED freed

VisitPage(skip) ==
    /\ InRegion
    /\ pa' = (pa + PAGE_SIZE) % WORD
    /\ IF skip THEN UNCHANGED <<freed, pc>> ELSE HandOver(pa)
    /\ UNCHANGED <<bios, mmap, next_free, npages, i>>

PageInit ==
    pc = "init" /\ VisitPage(pa >= BOOT_MAP_LIM \/ addr_reserved(pa))

PageInitExt ==
    pc = "ext" /\ VisitPage(pa < BOOT_MAP_LIM)

NextEntry ==
    /\ pc \in {"init", "ext"}
    /\ i <= Len(mmap) /\ ~ InRegion
    /\ i' = i + 1
    /\ pa' = IF i < Len(mmap) THEN mmap[i + 1].addr ELSE pa
    /\ UNCHANGED <<bios, mmap, next_free, npages, freed, pc>>

LastEntryDone ==
    /\ pc \in {"init", "ext"}
    /\ i > Len(mmap)
    /\ pc' = IF pc = "init" THEN "ext" ELSE "done"
    /\ FromFirstEntry
    /\ UNCHANGED <<bios, mmap, next_free, npages, freed>>

Next ==
    \/ AlignBootInfo \/ CountPages \/ AllocPages
    \/ PageInit \/ PageInitExt \/ NextEntry \/ LastEntryDone

\* Nothing interrupts the boot.
Spec == Init /\ [][Next]_vars /\ WF_vars(Next)

-----------------------------------------------------------------------------
(* Properties *)

TypeOK ==
    /\ bios \in MemMaps
    /\ DOMAIN mmap = DOMAIN bios
    /\ \A j \in DOMAIN mmap : mmap[j] \in Entries({bios[j].type})
    /\ next_free \in 0 .. WORD - 1
    /\ npages \in 0 .. BOOT_MAP_LIM \div PAGE_SIZE
    /\ freed \in Seq(0 .. npages - 1)
    /\ pc \in {"align", "count", "alloc", "init", "ext", "done", "panic"}
    /\ i \in 1 .. Len(mmap) + 1
    /\ pa \in 0 .. WORD - 1

PageBytes(p)   == p * PAGE_SIZE .. (p + 1) * PAGE_SIZE - 1
EntryBytes(e)  == e.addr .. e.addr + e.len - 1
FreeEntries    == {e \in ToSet(bios) : e.type = FREE}

\* The pages somebody uses before the allocator exists: the interrupt vectors
\* and the memory map, the kernel image, pages[], boot_info and the ELF header.
PagesInUse ==
    {0, elf_hdr \div PAGE_SIZE, boot_info \div PAGE_SIZE}
        \cup {p \in 0 .. npages - 1 : \E b \in PageBytes(p) :
                  KERNEL_LMA <= b /\ b < end}
        \cup {p \in 0 .. npages - 1 : \E b \in PageBytes(p) :
                  RoundUp(end) <= b /\ b < RoundUp(end) + npages * StructSize}

\* No page is given to the allocator twice: a second page_free() of a page on
\* a free list would put it into two blocks.
FreedOnce == IsInjective(freed)

\* The allocator never gets a page that is in use, nor one of which even a
\* byte lies outside the free memory the firmware reported.
FreedUsable ==
    \A p \in ToSet(freed) :
        /\ p \notin PagesInUse
        /\ \A b \in PageBytes(p) : \E e \in FreeEntries : b \in EntryBytes(e)

\* After page_init() no usable page below BOOT_MAP_LIM is left behind.
NothingForgotten ==
    pc \in {"ext", "done"} =>
        \A p \in (0 .. BOOT_MAP_LIM \div PAGE_SIZE - 1) \ PagesInUse :
            (\E e \in FreeEntries : PageBytes(p) \subseteq EntryBytes(e))
                => p \in ToSet(freed)

\* page_init() meets no page without a struct page_info.
PageInitCompletes == [][pc = "init" => pc' # "panic"]_vars

\* The loops over the map end, whatever addresses it holds.
BootEnds == <>(pc \in {"done", "panic"})
=============================================================================
