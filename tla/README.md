# A formal model of the OpenLSD kernel

TLA+ modules, TLC configurations and TLAPS proofs for the kernel in `src/`: a
teaching kernel for x86-64 (labs 1 and 2: physical memory and page tables).
The kernel runs on one CPU. Interrupts are off from the boot loader on and no
interrupt table is loaded, so a call runs to its end; what makes the code hard
is not preemption but long sequences of legal calls on shared structures
(lists, per-page fields, page tables), boundaries (orders, addresses, ends of
regions) and error paths.

## 1. Inventory

| Component | Sources | State | Operations | Modules |
|---|---|---|---|---|
| linked lists | `lib/list.c`, `include/list.h` | `next` and `prev` of every cell | init, insert after/before, add, add_tail, del, pop, pop_tail | `List`, `SeqLists`, `ListProofs` |
| buddy allocator | `kernel/mem/buddy.c`, `include/kernel/mem/buddy.h` | `pp_order`, `pp_free`, `pp_ref` of every page, `buddy_free_list[]` | page_alloc, buddy_find, buddy_split, page_free, buddy_merge, page_decref; buddy_migrate, buddy_map_chunk (never called) | `PageBlocks`, `Buddy`, `PageAllocator`, `BuddyProofs`, `BuddyRefinement` |
| boot memory | `kernel/mem/boot.c`, `kernel/mem/init.c` | memory map, `next_free`, `npages`, loop positions | align_boot_info, boot_alloc, mem_init, page_init, page_init_ext | `BootMem`, `BootMemProofs` |
| page tables | `kernel/mem/{walk,ptbl,insert,remove,lookup,map,tlb}.c` | four levels of tables, `pp_ref` | walk with callbacks, page_insert, page_remove, page_lookup, boot_map_region, boot_map_kernel, ptbl_alloc; ptbl_split/merge/free (never reached) | `PageTable`, `PageTableProofs`, `WalkProofs` |
| page table dump | `kernel/mem/dump.c` | region being merged | dump_page_tables | `PageTable`, `WalkProofs` |
| console | `kernel/console.c` | input ring, keyboard modifiers, cursor | cons_intr, cons_getc, kbd_proc_data, cga_putc | `InputQueue`, `Console`, `ConsoleProofs`; `Characters`, `Keyboard`, `Screen`, `TerminalProofs` |
| line editor, monitor | `lib/readline.c`, `kernel/monitor.c` | line buffer | readline, monitor, runcmd | `Console`, `ConsoleProofs`, `Terminal`, `TerminalProofs` |
| red-black tree | `lib/rbtree.c` | tree links and colours | insert, remove, replace | not modelled: nothing calls it |
| interrupt controller | `kernel/pic.c` | masks | remap, enable, disable | not planned: port writes, no interrupts |
| formatting, strings | `lib/printfmt.c`, `lib/string.c`, `kernel/printf.c` | none | printf, memmove, ... | `memmove` in `Screen`; formatting not modelled |
| entry, panic | `kernel/main.c`, `kernel/boot.S` | `panicstr` | kmain, panic | only what a panic means to callers |
| boot loader | `boot/` | | loads the kernel, asks the BIOS for the memory map | not planned: its output is the input of `BootMem` |
| self-tests, build | `kernel/tests/`, Makefiles, scripts | | | read, not modelled |

How they interact: the boot loader leaves `struct boot_info` and the memory
map. `mem_init()` aligns the map, sizes `pages[]`, takes memory for it with
`boot_alloc()` and hands every usable page to `page_free()`. From then on the
buddy allocator is the only source of memory. Its free lists are `lib/list.c`
lists threaded through `pages[]`. The page-table code takes pages from it,
counts mappings in `pp_ref` and returns pages through `page_decref()`. A panic
anywhere ends in the monitor, which runs on the console.

What makes each component correct:

* lists: after any sequence of operations a list read forwards is the list read
  backwards, every node is in at most one list, a removed node points to itself;
* buddy allocator: no page is in two blocks and none is lost; lists, orders and
  flags agree; free memory is coalesced as far as it can be, so that a request
  is refused only when no block of that size is free; a block on loan is not
  touched; calls return;
* boot memory: exactly the usable pages are handed over, each once; no page of
  the kernel, of `pages[]` or of the boot data is among them; the loops end;
* page tables: a range that is removed is not mapped afterwards and nothing else
  is unmapped, a lookup finds what is mapped, `pp_ref` counts at least the entries
  that point to a page, a page with entries is never free, walks end; what a dump
  prints is what is mapped;
* console: characters come out in the order they went in, none twice, none lost;
  a line fits its buffer; what is typed is read; no modifier outlives its key;
  the screen shows the line that will be run; a command gets its words.

`PROJECT.json` lists the hazards at their lines, with the properties for them.

## 2. Modules

### `PageBlocks`, `Buddy`, `PageAllocator`: the physical page allocator

A page is its index in `pages[]`; `page2pa()` and `pa2page()` are then the
identity. `PageBlocks` has the arithmetic of blocks: `Size[k]` for `1 << k`,
`BuddyOf(p, k)` for the flip of address bit `k + 12`, alignment. `Size` is a
constant function fixed by `SizeAssumption`, so that nothing recurses.

`Buddy` has the three fields of `struct page_info` and one sequence per free
list, in the order of the `next` pointers. `list_add()` puts a page in front and
`list_pop_tail()` takes the front one; that this is what the pointers do is the
matter of `List`. Each iteration of a loop of the code is an action:

| Code | Action |
|---|---|
| `page_init()`'s call of `page_free()` | `PageInit` |
| `page_free()` up to `buddy_merge()` | `EnterPageFree`, in `PageFree`, `PageDecref`, `PageInit` |
| an iteration of `buddy_merge()` that merges / that stops | `MergeBuddy` / `MergeDone` |
| `list_add()` after `buddy_merge()` | `AddMerged` |
| `buddy_find()`: search and pop | `BuddyFind`, or `BuddyFindNull` if there is none |
| an iteration of `buddy_split()` / the end of `buddy_find()` | `BuddySplit` / `SplitDone` |
| `pp_ref += 1` in the page-table code | `Reference` |

`held` is what callers own; callers free only what they own and only with
`pp_ref` 0, as the assertion at the top of `page_free()` asks. `page_alloc()`
is `buddy_find(0)`, or under `BONUS_LAB1` `buddy_find(9)` with `ALLOC_HUGE`
(without it the flag is ignored, `buddy.c:215`), and the zeroing, which matters
only when there is no page: `page2kva(NULL)` panics.
`pc = "panic"` is the panic and `pc = "wild"` the write past
`buddy_free_list[]`; both are final because nothing is known after them.

`PageAllocator` is the promise: a set of free pages and a set of loans. It may
refuse a request only if no aligned block of that order is free. `Buddy`
implements it (`ImplementsPageAllocator`) with the pages of the free lists and
of the block in flight as the free pages; a block is allocated when its split
ends and free again when `page_free()` is entered.

### `List`, `SeqLists`: `lib/list.c`

`List` keeps `next` and `prev` of every cell and does the writes in the order
of the statements, because the cells involved may be the same. A node is
inserted only when it is in no list and only next to a cell that is in one;
`list_del()` is allowed for every node, since `buddy_merge()` calls it for a
page that is in no list. `SeqLists` is the promise: sequences, and a node in
one of them at most.

### `PageTable`: the page tables

A page is its index in `pages[]` and holds `ENTRIES` entries whether or not it
is used as a table, because the code may read any page as one. Addresses are
bytes modulo `WORD`. The walk of `walk.c` is four nested loops: the variable
`loops` is their stack, innermost first, and one iteration with the callbacks it
makes is an action.

| Code | Action |
|---|---|
| the next `boot_map_region()` of `pml4_setup()`, those of `boot_map_kernel()` included | `Pml4Setup` |
| `page_insert()` of a page just allocated / of one mapped already / where no huge page could begin | `PageInsertFresh` / `PageInsertAgain` / `PageInsertMisaligned` |
| `page_remove()` and `unmap_page_range()`, `page_lookup()`, `boot_map_region()`, `dump_page_tables()`, up to the walk | `UnmapPageRange`, `PageLookup`, `BootMapRegion`, `DumpPageTables` |
| an iteration with `insert_pte()` / `insert_pde()` | `InsertPte` / `InsertPde` |
| with `remove_pte()` / `remove_pde()` | `RemovePte` / `RemovePde` |
| with `lookup_pte()` or `lookup_pde()` | `LookupEntry` |
| with `boot_map_pte()` / `boot_map_pde()` | `BootMapPte` / `BootMapPde` |
| with `dump_pte()` or `dump_pde()`, and `dump_hole()` | `DumpEntry` |
| at a level without a callback / the end of an inner loop | `Pass` / `LeaveLoop` |
| the end of the walk and the rest of the call | `LookupDone`, `OtherDone` |
| `pa2page()` of an address past `pages[]` / `page_decref()` of a free page whose count is 1 / `ptbl_alloc()` without memory | `NoSuchPage` / `FreeAgain` / `NoTable` |

Each action ends in `Proceed`: into the table the entry now points to, or on to
the next entry. Inner loops run to the end of the entry above and not to the end
of the range (`walk.c:107`), so that a call acts on all pages from its address to
the end of the span of the PML4 entry (`ToSpanEnd`). The properties ask for what
the comments promise: `RemoveUnmaps` that the pages of `[va, va + size)` are
unmapped, `RemovesOnlyRange` that no others are (which is not so, section 4),
`LookupFinds` that a mapped page is not missed, that what is returned is the page of
an entry of the span, and when it is that of `va`. `page_insert()` also sets
`insert_pte()` as the callback of the PML4 (`insert.c:109`): the page is installed as
a PDPT as well and has two references after one call.

The allocator is the set `free`, as `PageAllocator` promises it for single
pages; which free page is taken is the constant `PickFree`. The build is the default
one, in which `page_alloc(ALLOC_HUGE)` gives a single page too (`buddy.c:215`).

What memory holds. `pml4_setup()` zeroes the page of the PML4 and nothing else: at `Init`
every other page has whatever table of `Leftovers` says, and a caller may have written
to a page it allocated (`PageData`; `lab2.c:356-361,414-419` fill pages before they insert
them), had it zeroed, or left it as it was. A page freed keeps its entries. Any of this
becomes entries when the page becomes a table, by `ptbl_alloc()` (`ptbl.c:20`) or by
being inserted itself. Two history variables, read by no guard of the code, tell such
entries from those the code has written: `leftover` is the set of the present entries that
the code has not written, and `astray` becomes true when a call that
changes entries, an insertion, a removal or a map of boot, has used one of them. Unmapping through such
an entry takes a reference nobody counted, which is what `MappedNotFree` fails by;
`MappedKept` is what holds until then. When the count was of a page that is free already,
`page_free()` ruins the free lists, and nothing is known any more: `pc = "wild"`.

Assumed: nobody writes to mapped pages, or to pages given back, but the page-table
code; tables are used at their physical address, as the code
does; maps made with `boot_map_region()` after `pml4_setup()` are of memory
outside `pages[]`. `BootMaps` stands for such maps; the kernel makes none at this
commit. The TLB is not modelled.

### `BootMem`: from the firmware's map to the allocator

Addresses are bytes modulo `WORD` (the code has 64 bits), lengths wrap as in C.
`AlignBootInfo`, `CountPages` and `AllocPages` are the steps of `mem_init()`;
`PageInit` and `PageInitExt` visit one page each, `NextEntry` and
`LastEntryDone` advance the loops. `freed` is the sequence of pages handed to
`page_free()`: the `BootPages` of `Buddy`. `pml4_setup()`, between `page_init()`
and `page_init_ext()`, changes none of this state.

### `Console`, `InputQueue`: from the devices to the line

The devices receive at any time; interrupts are off, so the CPU sees it only
when `cons_getc()` polls. One iteration of a loop of the code is an action:

| Code | Action |
|---|---|
| the serial port or the keyboard has something new | `SerialReceives`, `KbdReceives` |
| an iteration of `cons_intr()` for the serial port / for the keyboard | `PollSerial`, `PollKbd` |
| the end of `cons_getc()`, and `getchar()`'s test of it | `Take` |
| an iteration of `readline()` with its character | `Edit` |
| `runcmd()` and the next `readline()` in `monitor()`, or `mon_ptdump()` for good | `RunCmd` |

A key is what `kbd_proc_data()` makes of its scan code: a character, or `NO`
for the zero of the many that make none; which one, and the reboot by
Ctrl-Alt-Del, is the matter of `Keyboard`. A
device keeps what it received until it is asked: what the hardware itself loses
is not the kernel's matter. `TypeAhead` bounds how far the user is ahead.

A line whose first word is `ptdump` (`PtdumpLines`) ends everything: `mon_ptdump()`
(`monitor.c:142`) walks all pages and does not return (finding 5). All other commands
return; `mon_pageinfo()` may panic in `pa2page()`, but a panic calls `monitor()`, whose
loop goes on reading the same way.

`InputQueue` is the promise of `cons_getc()`'s comment. The queue is what lies
between `rpos` and `wpos` (`Waiting`). `LineOK` says what a line may hold: DEL at
the beginning of a line fails `readline()`'s first test, passes the second as a
character not below `' '`, and becomes part of the line.

### `Characters`, `Keyboard`, `Screen`, `Terminal`: the user at the monitor

`Keyboard` has scan codes. The hardware side (external) sends what an AT
keyboard sends: `E0` before extended keys, the top bit on release, the code
again while a key is held, and around an extended key the release and press of
a shift that is in fact down. `ShiftAfter` and `CharOf` are the two results of
`kbd_proc_data()`, its static `shift` and the character; the tables have the
keys modelled. `Screen` is `cga_putc()`: one cell per character, the cursor, the
scroll through `memmove()` byte range by byte range.

| Code | Action |
|---|---|
| a modifier pressed or repeated, released; another key struck | `User` |
| an iteration of `cons_intr(kbd_proc_data)` | `PollKbd` |
| an iteration of `readline()` with its echo | `ReadChar` |
| `runcmd()`'s parsing, with its message if there are too many words | `Parse` |
| a command that returns, or the message that there is none; the next prompt | `RunCmd` |

Between `PollKbd` and `ReadChar` is the queue that `InputQueue` promises, so the ring
is not modelled twice. What follows from the tables: both shift keys share a
bit, so that releasing one of two turns shift off; Ctrl-Enter is `'\r'`, which ends
a line as `'\n'` does; Delete is a code above `' '`, so it is typed into
the line; a tab never reaches the line, but commands print it.

### Faults

Each of the state machines has a section of operators named after a
definition of the model, each with one mistake a programmer could have made (a
missing `list_del()`, a test left out, two writes swapped). They are used by no
action; substituted for their definition they show that each property can fail.

## 3. Runs

| Run | Instance | Shows |
|---|---|---|
| `buddy` | 8 pages, 3 orders, page 0 reserved, requests of order 0 and 2 | type, `FreeFlagsMatchLists`, `BlocksDisjoint`, `NoPageLost`, `FullyCoalesced`, `ListIndexInBounds`, `LoanUntouched`, `CallsReturn`, refinement of `PageAllocator` |
| `buddy_bonus` | the same with `BONUS_LAB1`, pages 0 and 3 reserved, counts to 2 | the inductive invariant `BuddyInv`, `ValidFreeAccepted`, and the refinement once more, which a check that turned a legal free away would break |
| `buddy_top_merge` | 8 pages, 2 orders | **violated**: a free pair of largest blocks is merged once too often |
| `list` | 2 lists, 3 nodes | `LinksMatch`, `EveryCellPlaced`, refinement of `SeqLists`, and function by function `EachCallAsPromised`; no deadlock |
| `boot_mem` | all maps of one or two regions over ten byte positions, 4-byte pages, 10 pages below `BOOT_MAP_LIM` | `FreedOnce`, `FreedUsable`, `NothingForgotten`, `PageInitCompletes`, `BootEnds` |
| `console` | ring of 3, line buffer of 3, five characters, the line of two printable ones is `ptdump`, the user up to 2 ahead | `LineOK`, refinement of `InputQueue`, `TypedIsRead` |
| `page_table` | 7 pages, tables of 2 entries, pages of 2 bytes, addresses below 64; three places to insert at, four ranges, a header not loaded and one of user space; memory zero or one page of it full of references, which callers also write into pages | `MappedKept`, `RemoveUnmaps`, `LookupFinds`, `DumpShows`, `WalkEnds` |
| `page_table_leftovers` | 5 pages, one of them full of references | **violated**: a page in use is freed through an entry found in a new table |
| `page_table_remove` | 5 pages, memory zero | **violated**: removing a page unmaps others |
| `page_table_walk_all` | the same | **violated**: `walk_all_pages()` starts over at address 0 |
| `terminal` | a screen of 4 rows of 2, a buffer of 6, room for 2 arguments, three modifiers and five keys | `ModifiersHeld`, `LineShown`, `ArgumentsAreWords` |
| `console_overrun` | as `console`, the user up to 3 ahead | **violated**: a full ring reads as an empty one |

Bounds. Eight pages and three orders have split and merge cascades of every
length up to the largest order, several blocks of each size, buddies that are
free, on loan, split or partly reserved; requests of order 0 and 2 force both
the shortest and the longest cascade. Three nodes in two lists give every case
of the pointer writes: neighbours that are the head, the same node, or
different ones. The byte positions of the maps lie on, before and after page
boundaries, inside the kernel image and `pages[]`, and on both sides of
`BOOT_MAP_LIM`. `MaxRef` bounds `pp_ref`, which the code keeps in 16 bits.
A ring of three wraps at every third character and is full with one
character more than the user may be ahead; a line buffer of three is full after two
characters, with erases, line ends and ignored characters before and after.
Two entries per table are the fewest with a neighbour behind the one asked for
at every level; seven pages are the root, a path of tables of one page each, a
second path in part, and pages to map, and they run out. All of the address
space repeats above address 32 with two entries at the root (`WORD` is twice the root's
span), as addresses of 64 bits repeat those of 48. `pp_ref` is counted modulo 32
and does not get there. `GoesOn = FALSE` is a bound: once a call has gone astray it is
followed to its end and no other begins; what the properties then say is of that call. The
theorems have no such bound. On a screen of rows of two every line wraps, and a buffer
of six scrolls it more than once. In the instance no key is moved
before the kernel has read what the last one made: more codes on the wire and more
characters in the queue are `Console`'s matter; caps lock is left to the module
and out of the instance.

Deadlock is not checked in the runs of `Buddy`, `BootMem`, `PageTable`, `Terminal` and
`Console`: a panic, a wild write or a reboot stops the system, the boot ends, and
`ptdump` never returns.

Fairness. `Buddy` assumes weak fairness of `Cpu`, the allocator's own steps:
nothing preempts it. Callers are under no fairness; they may never call.
`BootMem` assumes weak fairness of `Next`: nothing interrupts the boot. `List`
has no liveness property and no fairness. `Console` assumes weak fairness of
`Cpu`: the monitor is never preempted and waits for nothing but input. A command that does
not return is a state from which `Cpu` has no step, and the exception `TypedIsRead`
states.
`PageTable` assumes weak fairness of `Walk`: nothing interrupts a walk; callers
need not call. `Terminal` has no liveness property: that what is typed is read
is `Console`'s. A device
that receives without end keeps `cons_intr()` in its loop for ever, so
`TypedIsRead` speaks of users who stop typing at some time.

Assumptions about the firmware. The maps of `MCBootMem` are ascending and
their regions apart, as the BIOS of the supported machine reports them. The
kernel does not check it: with overlapping free regions a page would be freed
twice, and with an unsorted map `highest_addr` (the end of the *last* free
region) would be too low for `page_init()`.
`OrderlyMaps` in `BootMemProofs` is this assumption.

## 4. What the code does differently from its comments

1. `buddy.c:17`: "Buddy orders go from 0 to BUDDY_MAX_ORDER - 1". The loop of
   `buddy_merge()` (`buddy.c:157`) allows one merge more. A free aligned pair of
   largest blocks becomes a block of order `BUDDY_MAX_ORDER`, which
   `buddy.c:266` adds to a list past the end of the array. `IndexInBounds`
   proves that it cannot happen if boot keeps a page out of each such pair
   (`TopPairsReserved`); with 8 MiB managed and blocks up to 2 MiB, the
   kernel's own configuration, nothing ensures that.
2. `buddy.c:196`: "Returns NULL if out of free memory". With `ALLOC_ZERO`, and
   always under `BONUS_LAB1`, it panics (`buddy.c:223,226`). In the model: `BuddyFindNull`
   ends in `pc = "panic"`; one look at the line shows it and no run is spent on it.
3. `init.c:151`: "Add the rest of the physical memory to the buddy allocator".
   `page_init_ext()` panics on the first page of it (`init.c:252`), because
   `pages[]` is never extended: `buddy_map_chunk()` has no caller. In the model:
   `PageInitExt` ends in `pc = "panic"`, in states of the run `boot_mem`. The kernel does not
   even get there, because its own checks hang first (finding 5).
4. `console.c:394`: "return the next input character from the console, or 0 if
   none waiting". `cons_intr()` stores without looking at `rpos`
   (`console.c:388`). With `CONSBUFSIZE` characters waiting `wpos` meets `rpos`,
   `cons_getc()` returns 0 and the whole ring is lost; beyond that the oldest
   are. `RingIsQueue` proves that nothing is lost before.
5. `walk.c:226`: "Helper function to walk over all pages"; the tests call it and
   then report success (`lab2.c:41-43`). The address after the last PML4 entry is 0,
   which is below `end` (`walk.c:188`): `walk_all_pages()` never returns, nor does
   `dump_page_tables()` nor the command `ptdump`. `mem_init()` calls it in its checks (`init.c:142`), so the
   kernel with all its checks does not reach `page_init_ext()` (finding 3).
   `WalkEnds` holds of the walks over ranges.

6. `paging.h:23`: "pp_ref is the count of pointers (usually in page table entries) to
   this page". Entries that were in a page before it became a table are pointers that
   nobody counted: `ptbl_alloc()` does not zero the page (`ptbl.c:20`), and `insert_pte()`
   installs the inserted page itself as a PDPT (`insert.c:109`). The walk then unreferences
   the pages they point to (`insert.c:27`, `remove.c:23`) and frees one that is mapped
   (`page_table_leftovers`). `MappedPagesKept` proves that this is the only way to it.
7. `remove.c:54`: "Unmaps the range of pages from [va, va + size)", and
   `lab2.c:379-399` asserts that the neighbours of a page removed are still mapped.
   Walks go on to the end of the span of the PML4 entry (`walk.c:107`), and everything
   behind the range is unmapped as well (`page_table_remove`). In the same way
   `page_insert()` maps its page at every page behind `va`, and `page_lookup()`, which
   keeps the last entry it meets, returns a page mapped behind `va`, or one that is
   a page table: `LookupFinds` states how far its answer can be relied on.

What else the model shows. `insert.c:71` promises to "Map the physical page page at virtual
address va", but `page_insert()` may return 0 with its page not mapped there, even where
memory was zero at the start and nobody wrote to a page. A page that was a table
before keeps the entries the code wrote, so that an entry of a new table
may lead back to a table above; `insert_pte()` fills that one with the page,
and the way to the addresses filled before is gone. The instance `page_table` is too small for
it. With 10 pages, tables of 2 entries, spans of 2, 4, 8 and 16 bytes, `PickFree` the least page,
`InsertAddrs = {0, 4}`, `Ranges = {<<2, 2>>}` and empty boot regions, TLC finds a state
with `Returned("insert")`, `ret = 0` and `~ Maps(op.va, op.page)` eight calls deep: three times
a page just allocated at 4 and a removal at 2, then twice a page that is mapped, again at 4. No property
of `page_insert()`'s result is therefore stated or proved. `lab2.c:419` asserts that an insertion at
`PAGE_SIZE` succeeds, where `page_insert()` returns -1, because it asks every address to be one
where a 2M page could begin (`insert.c:116`; `PageInsertMisaligned`).

Besides, `boot_map_region()` sets no callback that would make a PDPT or a page directory, so on
the empty PML4 of `pml4_setup()` it maps nothing (`BootMapsNothing` in the proofs); one
`page_insert()` leaves `pp_ref` at more than 1, where `lab2.c:255` expects 1; after
`page_remove()` `page_lookup()` finds the entry of the directory, where
`lab2.c:268` expects NULL.

## 5. Proofs

For all values of the constants that satisfy `PageBlocksAssumption`,
`SizeAssumption` and `BuddyAssumption`:

* `Invariance`: `Spec => []BuddyInv`. The properties are not inductive by
  themselves. Merging must keep blocks disjoint, for which blocks have to be
  aligned (`HeadsAligned`); that `MergeDone` leaves nothing to merge needs that
  no two free blocks are buddies (`NoFreeBuddies`); that a boot page is in no
  block yet needs `PendingUntouched`; that a block handed out or returned
  belongs to nobody else needs `HeldInUse` and `InFlightOK`. The proof has a
  lemma per action, over lemmas on `BuddyOf`, halves of blocks and lists.
* from it `TypeCorrect`, `NeverOwnedTwice`, `PagesConserved`, `ListsCorrect`,
  `FreesAccepted`, `LoansUntouched`, and `IndexInBounds` under
  `TopPairsReserved`;
* `CoalescingComplete` (`BuddyRefinement`): an aligned region of free pages lies
  in one free block. A block that meets the region either covers it or lies
  inside it; of those inside one of least order would have its buddy
  inside the region too, free and of the same order, against `NoFreeBuddies`;
* `Refinement`: `Spec => ImplementsPageAllocator`. The step that needs more
  than bookkeeping is the refusal: by `CoalescingComplete` an empty list for
  every order from the requested one on means no region of that order is free.

For all finite sets of heads and nodes (`ListProofs`):

* `LinksAlwaysMatch`: `next` and `prev` stay inverse to each other, from pointer
  types and the four-write argument per operation;
* `Representation`: there are always sequences, a node in one of them at most,
  whose neighbours the pointers join (`Represents`). `LinksMatch` is not enough for
  this: two nodes that point to each other and to no head satisfy it. Each
  operation changes the sequences by one insertion or deletion; where they are cut is the
  place of the cell it was given;
* `ListTypeCorrect` and `EveryCellHasItsPlace` from it, and `SequencesImplemented`
  (`Spec => ImplementsSeqLists`) with `CallsAsPromised`, which says of each function that
  it makes the step of its own name. The refinement maps a head to *the* sequence
  it leads to; that there is one only (`OneSequence`) is an induction along the pointers,
  by the least place where two sequences differ.

For every memory map and all sizes (`BootMemProofs`) `TypeCorrect`. For maps whose free
regions are ascending, apart and end before the last page of the address space
(`OrderlyMaps`): `FreedOnceHolds`, `BootPagesFitHolds` and `PageInitCompletesHolds`. If also the kernel and
the ELF header begin at page boundaries (the Makefile puts the kernel at `0x100000`, the
boot loader the header at `0x10000`) and `pages[]` fits behind the kernel
(`KernelPlaced`): `FreedUsableHolds` and `NothingForgottenHolds`. The theorems are about
`page_init()`; at the first page `page_init_ext()` comes to it panics (finding 3). The
invariant `BootInv` says what `mem_init()` has computed by when, that `pa` is at
a page of the entry or at its end (`OnPage`), and that the pages freed are the
wanted ones among those the loops have passed (`FreedPassed`). Rounding is the substance:
that a region rounded inwards has exactly the pages that lie in it as a whole, that rounded
regions stay apart, and that `highest_addr`, the end of the last of them, leaves a
`struct page_info` for every page. `BootPagesFitHolds` joins the two modules: from the
first iteration of `page_init()` on, `freed` is what `BuddyAssumption` and
`PageBlocksAssumption` ask of `BootPages` and `NPages`, so that the theorems about
`Buddy` apply to the pages of every orderly map.

For every size of the ring and of the line buffer (`ConsoleProofs`):
`ConsoleTypeCorrect` and `LineFitsBuffer`, however far the user is ahead, and
`RingIsQueue`, `Spec => ImplementsInputQueue` if `TypeAhead < CONSBUFSIZE`. The
invariant `RingInv` adds to the type that nobody is further ahead than
`TypeAhead` and that the cells between `rpos` and `wpos` hold characters; its
two lemmas say that a store appends to `Waiting` while a cell is left over and
that a take removes its head. Without the bound neither is true (finding 4).

For every size of memory, of tables, of the spans of their entries and of
`pp_ref`, every choice of `PickFree` and all regions boot maps (`PageTableProofs`):

* `TypeCorrect`: the walk keeps one loop per level and reads only pages of memory as tables;
* `MappedPagesKept`: until a call goes astray (section 2), no page that an entry written by
  the code points to is free, and `CountsCorrect`: no page has more such entries than
  `pp_ref` counts. Nothing is assumed of what memory holds, of what callers write into their
  pages and of where they insert them. Both need that no count is about to wrap
  (`CountsBelowLimit`; with 16 bits, 65535 references).

The invariant is `TypeInv`, and `PageInv` as long as `~ astray`. Most of it is about what
`insert_pte()` seems to get wrong: it unreferences
the page in the entry before it references the new one, and if they are the same page
with no other reference it would be freed and then mapped. `InsertHeld` is why
that does not happen: the walk sets the entry of the root first, and from then
on the page has that reference besides the one replaced, because the root is never met
below the top (`RootOnTop`, from `RootUnreferenced`). At the root the page is not referred to yet, or some other
entry refers to it as well; that is so at every entry of the root the walk comes to.
A page that is in the hands of a caller who writes
to it loses entries nobody counted, and gains such entries only in `leftover`. Counting is by `Cardinality` of the set of
entries that point to a page; a lemma per callback says how the set changes.

For the same sizes and maps, and whatever the tables hold, what a walk achieves (`WalkProofs`):

* `RemoveUnmapsHolds`, that no page of the range is mapped at the end, for ranges that are not empty and end before the last entry
  of the PML4 (`RangesInside`): an empty range makes no walk, and one that reaches the
  last entry starts over at address 0 (finding 5). User addresses, all that
  `unmap_user_pages()` asks for (`remove.c:74`), lie in the lower half;
* `LookupFindsHolds`, for addresses whose page lies in one span of the PML4 as well
  (`LookupsInside`), as it does for every address at a page boundary. The answer is the page
  of an entry of the span in any memory (`Answer`), that of the address only under
  the condition `LookupFinds` states;
* `DumpShowsHolds`: `Spec /\ []NoHugeAbove => []DumpShows`. The walk neither
  goes below a PDPT entry with the huge bit (`walk.c:153`) nor calls that a hole, and
  `dump.c` has no callback for it: the region in hand would go on across it. The kernel
  makes no such entries, but tables are not zeroed (`ptbl.c:21`), and a page with entries
  from one level may come back as a table of another. `NoHugeAbove` excludes that; it is
  true of every dump in the instance `page_table` runs.

The loops of a walk lie inside each other and lead to their addresses the way the
processor goes (`Shape`: `OnWay`, `Inside`), and never behind the entry of the root in which
the range ends (`Bounded`). So the entry at hand decides for all the addresses
it stands for, and what is true of the addresses passed is kept when a loop is entered or left.
`remove_pte()` may clear, in a page read as a table twice, entries on the way the walk
took; `OnWay` therefore says that an address leads to the table of the loop or to
no table any more (`Leads`), and clearing entries keeps it. Walks that change nothing are
still on a way that is there (`Certain`). `DumpedTo` carries what a dump has printed and
the region it has in hand.

The user at the monitor (`TerminalProofs`):

* `ModifiersHeldAlways`, for every set of keys and any number of codes on the wire.
  Whether a code turns a modifier on or off depends on the one before it and on `E0ESC`,
  so `Accounted` is about all codes under way: a modifier that is on, or that a waiting
  code turns on, is of a key that is down, or a later code turns it off; and the wire
  never ends in `E0`. A code is polled from one end and an event is put at the other;
  the shifts the keyboard makes up around an extended key turn nothing on or off,
  because after `E0` they are no modifier's. The keys are assumed to have codes from 1
  to 127 and not 96, whose release would be `E0` (`KeyboardAssumption`).
* `TerminalTypeCorrect` and `LineShownAlways`, for every screen, buffer, prompt and set of
  commands. `LineInv` adds to the types that in `readline()` the cells before the cursor
  are the prompt and the text (`Shows`). The lemmas say what one `PutChar` does to
  such a text: a character is appended to it (`PutCharAppends`), a backspace takes
  its last one away (`PutCharErases`), and the scroll moves it up with the cursor
  (`ScrollKeeps`), for which `memmove()` has to copy from the front (`MovesDown`). A
  text that fits the screen when it has scrolled is therefore shown whatever was
  printed before it (`PutStringShows`), and so is the prompt after any command. Assumed is that
  the longest line fits so, 1026 of 1920 cells in the kernel, and that the prompt
  has no control characters (`TerminalAssumption`; `lib/readline.c:4`, `console.h`), and
  that the characters told apart are different (`CharactersAssumption`).
* `ArgumentsAreWordsAlways`: what `runcmd()` does to the line character by character,
  zeros for white space and pointers to what follows them, finds the words as
  `WordStarts` and `WordEnd` define them. `ParsedStep` is the invariant of that loop: the
  starts found so far are the words that begin in the part read, ascending (`Started`),
  and the buffer is the line with zeros in that part (`Blanked`).

What a loop over a string leaves is a recursive function of the number of characters.
That there is such a function (`PutsExists`, `CopiesExists`, `ParsesExists`) and what
is true of its values is shown by induction up to a number (`AllUpTo`), from the
well-foundedness of the naturals: the induction theorems that take an operator are
not needed.

TLC evaluates all assumptions in every run. Nothing is assumed of powers of two but
that each is twice the one before (`SizeAssumption`); that a larger one is a multiple of a
smaller one is `PowersDivide`.

Left to TLC: liveness under fairness (`CallsReturn`, `BootEnds`, `TypedIsRead`, `WalkEnds`) and anything
about ENABLED; RECURSIVE operators none of these modules need. Every safety property of a
passing run is stated by a theorem.

To check: `tlc -config Buddy.cfg MCBuddy` and likewise for the other runs
(`PROJECT.json` lists module and configuration); `tlapm BuddyProofs.tla`,
`tlapm BuddyRefinement.tla`, `tlapm ListProofs.tla`,
`tlapm BootMemProofs.tla`, `tlapm ConsoleProofs.tla`, `tlapm PageTableProofs.tla`,
`tlapm WalkProofs.tla`, `tlapm TerminalProofs.tla`.

## 6. Plan

1. `PageBlocks`, `Buddy` and its invariant (done, proved).
2. `PageAllocator` and the refinement (done, proved).
3. `List`, `SeqLists` (done, proved).
4. `BootMem` (done, proved for `page_init()`, and that its pages suit `Buddy`).
5. `PageTable` (done, the safety properties that hold proved); `WalkEnds` stays with TLC.
6. `Console` and `InputQueue` (done, proved).
7. `Keyboard`, `Screen`, `Terminal` (done, proved).

## 7. Not modelled

* The red-black tree: nothing calls it at this commit. Reading it shows that
  `rotate_node()` (`rbtree.c:11`) takes `node->child[dir]` where the child's is
  meant, and that `rb_remove()` reads a colour after it was zeroed (`rbtree.c:181`).
* `ptbl_merge()`, `ptbl_free()`, `buddy_migrate()`, `buddy_map_chunk()`: never called;
  `ptbl_split()`'s huge branch: `boot_map_pde()` has just overwritten the entry
  it looks at.
* The TLB, and with it that `tlb_invalidate()` is given the page's kernel address
  and not the one unmapped (`remove.c:26`, `insert.c:28`).
* The formatting of `printfmt.c`, output to the serial and the parallel port: they
  keep no state that anything else reads.
* The interrupt controller (`pic.c`): port writes; interrupts stay off.
* The boot loader, `boot.S`: assembly before the kernel; its output is the input of
  `BootMem`. `kmain()` calls the parts in order.
