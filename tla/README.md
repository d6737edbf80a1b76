# PeachOS: a verification project

PeachOS is a small 32-bit kernel: a boot loader, a heap, paging, a FAT16 reader
behind file descriptors, processes and tasks that the clock interrupt schedules,
and an `int 0x80` entry for system calls. This directory models it in TLA+,
checks the models with TLC and proves with TLAPS, for every size of the system, that
the heap, paging, the loaders, the task list, the running kernel, the file layer and
the FAT16 reads keep all but three of their invariants, and that the loops of the heap
implement it.

Paths below are relative to the kernel's source directory, `src/src/`.

## The system

| Part | State | Operations | Talks to |
|---|---|---|---|
| Heap (`memory/heap/`) | one byte per block: taken, first, has next | `kmalloc`, `kzalloc`, `kfree` | called by everything |
| Paging (`memory/paging/`) | page directories and tables in heap blocks; `cr3` | `paging_new_4gb`, `paging_map_to`, `paging_switch`, `paging_free_4gb`, `paging_get_physical_address` | heap; called by tasks, processes, `kernel_main` |
| Task list (`task/task.c`, `task.asm`) | `task_head`, `task_tail`, `current_task`, links, saved registers | `task_new`, `task_free`, `task_next`, `task_switch`, `task_page`, `task_return`, save | paging, processes |
| Processes (`task/process.c`) | the process array, `current_process`, one structure per process | `process_load`, `process_terminate` | files, heap, tasks, paging |
| ELF loader (`loader/formats/`) | an `elf_file` and the file in memory | `elf_load`, `elf_close` | files, heap; called by nobody |
| Interrupts (`idt/`) | callbacks, commands; the PIC's in-service register | `interrupt_handler`, `idt_clock`, `idt_handle_exception`, `isr80h_handler` | tasks, processes |
| Files (`fs/file.c`) | descriptor table, file systems | `fopen`, `fread`, `fseek`, `fstat`, `fclose` | path parser, FAT16, heap |
| FAT16 (`fs/fat16/`) | the mounted volume, an item and a position per open file | `resolve`, `open`, `read`, `seek`, `stat`, `close` | disk streams, heap |
| Path parser (`fs/pparser.c`) | the parts of a path, on the heap | parse, free | heap |
| Disk (`disk/`) | one disk; a position per stream | `disk_search_and_init`, stream seek and read | FAT16, ports |
| Start (`kernel.c`, `kernel.asm`) | GDT, TSS, the kernel's directory | `kernel_main`, `panic`, `kernel_page` | all |
| Terminal, strings, GDT, port I/O, boot loader | see `PROJECT.json` | | |

What is hard about it:

* The kernel is entered at any instruction of any program, and leaves through
  `task_return` or through the end of the handler. Context, address space, data
  segments and the interrupt controller must be right on every path.
  Interrupts are off inside the kernel (interrupt gates; `task_return` sets IF),
  so one entry runs to its end, and the interleaving is that of whole entries.
* The heap has no list of allocations; freeing relies on flags left by
  long-gone calls.
* Reads cut a file into clusters and those into sectors, each with its own
  offset arithmetic.
* Error paths: errors are returned as pointers, allocations are not always
  checked, and half-built objects are taken down by hand.

`PROJECT.json` lists the hazards line by line with the properties that watch them.

## Modules

| Module | What it is |
|---|---|
| `HeapTable` | the pure functions of `heap.c` over the block table |
| `Heap` | the heap, one step per call; `live` is what the callers hold |
| `Allocator` | what a heap promises: disjoint intervals, taken and released |
| `HeapLoops` | `heap.c` one loop iteration at a time, refining `Heap` |
| `HeapProofs`, `HeapLoopsProofs` | the theorems about `Heap` and `HeapLoops` |
| `PageTables` | the functions of `paging.c` over directories and tables |
| `Paging` | directories made, mapped and freed, against a page-by-page view. Extends `PageTables` |
| `PagingProofs` | the theorems about `Paging` |
| `ElfFile` | the functions of `elfloader.c` over a header that has been read |
| `Loader` | loading programs and ELF files on one heap. Composes `HeapTable`, `PageTables` and `ElfFile` |
| `LoaderProofs` | the theorems about `Loader` |
| `TaskOps` | the list functions of `task.c` as operators on a record |
| `TaskList` | creating, freeing and scheduling tasks in any order |
| `Kernel` | the closed system: loads, start, interrupts, system calls, faults. Extends `TaskOps` |
| `TaskListProofs`, `KernelProofs` | the theorems about `TaskList` and `Kernel` |
| `FatRead` | an open file: reads and seeks down to the sectors of the disk |
| `FatReadProofs` | the theorems about `FatRead` |
| `FatRecursion` | the recursive reads as the code writes them, against `FatRead` |
| `FatOpen` | what `fopen` does before it has a descriptor: strings, path parser, lookups, one allocation after the other |
| `Files` | mount, the descriptor table and its calls, heap blocks per call. Extends `FatOpen` |
| `FilesProofs` | the theorems about `Files` |
| `MC*` | values for TLC |

Definitions have the names of the C functions. A definition called
`name_Something`, introduced as a plausible slip, is a wrong variant of
`name` used to see that a property notices it.

### Heap

`entries[i]` is a set of flags for the byte of block `i`. `heap_get_start_block`
says what the scan returns: the first run that fits; if none fits, the start of
the free run at the end of the table, if there is one; otherwise `-ENOMEM`. The
second case is what the code does (`bs` survives the loop), so `Heap` hands out
allocations that run past the pool. The invariants hold of them too: no other
call can get the blocks past the end, since the start of a later run is always
in the table and behind the last taken block. `Requests` are the sizes that
need a block and whose rounding does not wrap. For the others `total_blocks` is 0,
the scan never matches, and the code returns the start of the free run at the end
of the table without marking a block of it.

`HeapLoops` has the local variables of the three loops and a history variable
`before`, the table at the time of the call; under the mapping that shows
`before` while a call runs, a whole call is one step of `Heap`.

### Paging

A heap block holds the words of a directory, a table or a chunk. Words are a
base and a set of flags. `view` records what the calls on each chunk ask for,
page by page; the tables must agree with it. Addresses wrap at `N*N*PageSize`
as a 32-bit pointer does. A chunk that is loaded is not freed: `task_free` is
only reached from `task_new` for a task that never ran.

### Tasks and the closed system

`TaskList` calls the list operations in any order. `task_list_remove` leaves the
`prev` link of the task behind alone, so that the free of that task writes through
the freed one, or into the task that has its memory by then. `gone` records for each
task the freed one its `prev` link leads to, and `sound` is false once a free has
gone wrong by such a link. `NextIsSuccessor` and the others hold while `sound` does, and
`OrderLostExactly` says that they could not hold longer: the frees that make `sound` false are
exactly those after which the list is not in order (of three tasks, free the second and then
the third: the first is still followed by the third, although `task.h:40` calls `next` "the next
task in the linked list"). In the kernel `task_free` is only
called by `task_new`, for a task that is not in the list yet.

`Kernel` is the system as it is started: `kernel_main` loads some
number of programs (a member of `Loads`; the repository loads one), then runs
the first task. `s` is the machine with the kernel's variables, and the functions of
the code are operators from one machine to the next, so that an action is the
composition of the calls that the handler makes. `truth` is the register
contents that each program should find.

A frame that an exception with an error code saved is `shifted`: what `task_return`
loads into `ds` are the low 16 bits of the program's `esp`. The stack of a program is at
`0x3FB000` to `0x3FF000`; as long as `esp` is in it, those are a selector far behind the
limit of the GDT, so that the load raises vector 13 inside the kernel (mode
`"fault"`, action `KernelFault`). `idt_handle_exception` then terminates the process of
that task and passes the turn on: the other programs run, and the task with the
shifted frame never does again, although it gets its turn and loses it each time round.
When all tasks are shifted, the faults nest until the kernel stack has run over
what lies below it. `"lost"` stands for that and for what else the code does
not define: a return from the gate of vector 0 in ring 0, and a free through address 0
after a failed `task_new`.

Two things that the code never changes: `current_process`
stays `NULL` while programs run, although `process.c:13` calls it "the current process
that is running" (only `process_unlink` reads it), and so does the `ptr`
of every process, because `process_load_elf` is empty and reports success. No
isr80h command is registered anywhere, so every system call returns 0.

### Loading

`Loader` has one heap: the block table of `HeapTable` and, in `heap.mem`, the words
of the blocks that are page tables; `NULL` in `heap.mem` is the memory at address 0,
where `paging_new_4gb` writes when an allocation fails. Each allocation of a load
takes the blocks that the heap's own search finds. A program is a file and what
`process_load_elf` returns for it: 0, which is all that the code in the build
returns, or `-EINFORMAT`, for which `process_load_data` calls
`process_load_binary`. So the binary loader, which is compiled but not reached, is
checked as it is written. `fopen` is what a loader sees of it: blocks for the path
that nobody gives back and blocks that `fclose` gives back; what it does without
memory is in `Files`, and a load begins when there is room for it (`RoomToOpen`).
A failed `task_new` leaves the machine `"lost"`, as in `Kernel`. `elf_load` and
`elf_close` are the library that `elfloader.c` is; they share the heap, so that what
one of them forgets or frees twice is seen by the other.

An image may run behind the end of the pool (see `heap_pool`); the properties
count such blocks as the program's own, and no other allocation gets them.

### Files and FAT16

`FatRead` knows a byte of the disk by its position, so that a read returns where
its bytes came from, and `Junk` for bytes from outside the sector buffer. A chain
ends in any of the marks of FAT16; the walk knows two of them and takes the others
for cluster numbers, whose position is computed in an `int` that wraps (the build
is `-O0`). For a sector the disk does not have, `disk_read_sector` polls for ever:
`Hang`, after which the specification only stutters. An open directory is read like
a file whose slot is its `fat_directory`. That structure has 16 bytes; the number of the
first cluster is read from behind them, where neither `kzalloc` nor `heap_free` clears the
block. `Stale` are the numbers such a block can have been left with, the first cluster of
a file that was closed among them, and `Outside` what the table gives for a number behind
its end: any entry, or the wait for a sector that is not there.

In `FatOpen` strings are sequences of character codes. A directory is a sequence of
slots with the bytes of their names; the lookup converts each to a string and
compares without case, as the code does. The record `m` counts the free blocks and
those held per kind, so that every allocation of `fopen` can be the first that
fails: an `fopen` finds any number of free blocks (`Rooms`), since the rest of
the kernel takes and returns blocks between the calls. `below` is set where 0 is
freed, `wild` where a pointer that leads nowhere is followed: an error code that
`fopen` closes, a directory that was not allocated. What follows `wild` is not
modelled. Descriptor 0 leads to the word before `file_descriptors`, which is 0 in
the built image.

The history `held` has one record for every caller of `fopen` that got a number: what
it asked for, the position its own calls lead to, and whether it is `lost` (no
descriptor of its own is behind the number, or none any more) or `disturbed` (a call of
another has moved its file). `fread`, `fseek` and `fclose` are calls of one of these
callers with its number. A caller that lost its descriptor for want of memory still calls, and if
the number has been handed out again it reads, moves or closes the file of another; the
history books that on both. It is assumed that a caller uses only numbers that `fopen`
gave it and that it has not closed; what the calls do with a number that no
descriptor is behind is `CallRefused`.

## Runs

| Run | Bounds | Result |
|---|---|---|
| `heap` | 6 blocks of 4 bytes, word of 32, five sizes from 1 byte to more than the pool | passes, 2761 states |
| `heap_loops` | 5 blocks, four sizes | passes, 6697 states |
| `paging` | 2 tables of 2 pages of 2 bytes, 9 blocks, 2 mappings | passes, 22487 states |
| `loader` | 6 tables of 6 pages, 27 blocks, 2 slots, 3 loads, 8 programs, 17 ELF files, 19 degrees of a full heap | passes, 19355 states |
| `task_list` | 3 tasks, each created and freed again and again | passes, 102115 states |
| `kernel` | up to 4 tasks, 3 slots, 2 interrupt lines, 2 register contents, all faults and failures | passes, 120140 states |
| `fat_read` | sectors of 2, clusters of 4, chains of up to 3 clusters and 4 end marks, 8 leftover numbers, items of 1 to 13 bytes | passes, 110354 states |
| `files` | table of 3, 3 opens that leave something, 2 root directories, 10 paths, 10 numbers of free blocks | passes, 40771 states |

* Heap: six blocks hold three allocations of different lengths with gaps, a
  request larger than any gap and one larger than the pool; the rounding and the
  wrap happen below 32. Larger pools are the subject of the proofs.
* Paging: a range can cross the boundary between the two tables and wrap; two
  chunks are alive together, and a freed chunk's blocks are used again in
  another role.
* Tasks: three make a task with a neighbour on both sides, and the second free
  writes through the stale link; the memory of a freed task is used again for a new one.
* Kernel: three tasks tell "the next" from "the first" and "the other"; two
  register contents tell a stale context from a fresh one. A fourth program
  finds the process array full.
* Loader: images of none to three pages, the third of which is the last page before
  the heap; between an empty heap, with room for two small programs,
  and a full one every allocation of a load is once the first that fails. The ELF
  headers have segments in and out of order, one at address 0 in the middle and at
  the end, one whose end wraps, none, and each reason for a refusal. The run stops
  after three loads, so that a deadlock is not an error there.
* FAT: three clusters in every order have all the ways of being next to each
  other or not; item sizes reach beyond the largest file. Entries have 5 bits, `int`
  has 7: of the end marks the code knows two, of the others one wraps to a sector
  of the disk and one does not. Cluster 3 has a number that the walk refuses. The leftover
  numbers of a directory are the clusters, 0 and 1, one behind the disk, one behind the
  table and a negative one.
* Files: with three descriptors the table fills, a middle one is freed and used
  again, and the last one is the one that cannot be used. Names have two and one
  characters, one of them fills both fields; a label has the name of a file; a
  deleted slot hides the directory behind it. The free blocks go up to what the
  longest path needs. Three opens are enough for a caller without a descriptor, one that
  gets the same number, and a third that gets it after the first has closed it.

Runs that show a disagreement between the code and what is said of it (the
`findings` of `PROJECT.json` quote the lines):

| Run | What TLC shows |
|---|---|
| `heap_pool` | an allocation past the end of the pool |
| `kernel_error_code` | an exception with an error code saves a shifted context |
| `kernel_no_more_tasks` | a program runs on after its process was terminated |
| `files_failed_open` | a failed `fopen` follows its error code as a pointer |

### Properties

Heap: `NoOverlap`, `TableMatchesLive`, `CoversRequest`, `AllocatorSpec`
(refinement); `HeapSpec` (refinement) and `EveryCallReturns` of the
loops. Paging: `TranslationExact` (pages, and addresses inside
them), `BlocksAccounted`.
Tasks: `NextIsSuccessor`, `CurrentExists`, `FreePassesTheTurn`, `OrderLostExactly`. Kernel:
`RunsInItsOwnSpace`, `ContextsPreserved`, `NothingInService`,
`ProcessArrayExact`, `RoundRobin` (a turn that ends in a fault of the kernel is a turn),
`NoStarvation` (every task whose frame is not shifted runs again and again).

Loader: `DirectoriesWhole` (the chunk is allocated last, so that a directory with a
table missing is never used, although nothing looks at the tables), `MappedExactly`
(page by page, for each kind of file: an image of more than 511 pages therefore covers
the page of the interrupt stack, which the property does not judge), `WritableIsOwn`,
`BlocksAccounted` (what a failed load and a terminated process leave),
`ElfBoundsExact`.

FAT16: `ReadExactIffAligned`, which says exactly which reads are right (the others are
not: the sector buffer is overrun, or the wrong cluster is read), `WholeFileExact`
(the one read that the process loader would make is right, unless a cluster has the
number of a 12-bit mark), `SucceedsInTheChain`, `HangsBehindTheDisk` (the two ways in
which a file waits for ever; a directory can do so from any leftover number),
`DirectoryReadsLeftover` (a directory delivers the cluster of whatever file its heap
block remembers), `RecursionAgrees`. Files: `MountedIsWhole`, `HeldDescriptorsLead`
(the last descriptor of the table leads nowhere: `file_get_descriptor` refuses its
number; a path cut short for want of memory opens another item; only after memory has
run out does a caller lose its descriptor to another or find its file moved by it),
`HeldByOne` (of those who hold one number, at most one has the descriptor behind it),
`BlocksAccounted`, `WholeWhileMemoryLasts`, `HiddenByDeletedSlots`. Each is explained
where it is defined.

### Fairness

* `HeapLoops`: a call that has begun goes on (`WF(Step)`); nothing preempts the
  kernel and no interrupt is taken inside it. No fairness on the callers.
* `Kernel`: `kernel_main` runs on (`WF` of `Load` and `Start`); the timer raises
  its line again and again (`WF(Raise(0))`); the processor takes a pending
  interrupt that the controller passes on while a program runs (`WF(Deliver)`), and a
  fault inside the kernel at once (`WF(KernelFault)`).
  Nothing is assumed of the programs: they may compute forever.

The other specifications have no liveness property and state no fairness.

## Proofs

Each theorem holds for every value of the constants that the named assumptions
allow. The assumptions say what the constants are (sizes are positive, sets of inputs
have the right type, `NULL` is none of the values); TLC evaluates them on every run.
A lemma that two of the modules need is in both, since the modules of theorems do not
extend one another.

### Heap

`HeapProofs` proves about `Heap`, for every number of blocks, block size, word
size that is a multiple of it, start address and set of sizes (`TableAssumption`):

* `TypeCorrect`, `AllocationsDisjoint`, `TableExact`, `RequestsCovered`: the four
  invariants of the run `heap`;
* `ImplementsAllocator`: every behaviour of `Heap` is one of `Allocator`.

`NoOverlap` is not inductive: an allocation may run past the end of the table,
where the table says nothing, and a search looks at the table only. The
inductive invariant is the conjunction of the four. From the table's exactness
a free run found by the search meets no live allocation inside the table; from
the chain of flags, a run that goes past the end is free up to the end, so no
live allocation starts behind its start, and none that starts before reaches it.
For a free, exactness says that the chain of `HAS_NEXT` flags from the start of
an allocation is the part of it that is inside the table, so that no other entry
changes. The lemmas `StartBlock` (what the search returns), `RoundUp` (the
rounding covers the request and does not wrap), `AddressRoundTrip` (addresses and
blocks) and `LiveStart` (where an allocation starts) carry the arithmetic;
`MallocInv` and `FreeInv` are the two kinds of step, `MallocRefines` and
`FreeRefines` the steps of the refinement.

`HeapLoopsProofs` proves `TypeCorrect`, `ScanExact` and `ImplementsHeap`: the three
loops of `heap.c`, one iteration at a time, implement the heap in which a call is one
step, so that the theorems above hold of what the loops leave behind. `ScanInv` says
only what the scan has seen. The inductive invariant adds that the scan writes nothing
(`ScanRangeInv`), that its result is what `heap_get_start_block` returns
(`FoundInv`), and what the half-written table is, in terms of the table before the
call, while blocks are marked (`MarkInv`) and cleared (`WalkInv`). At the end of each
loop `ScanResult`, `MarkResult` and `WalkResult` turn it into the pure function.

### Paging

`PagingProofs` proves `TypeCorrect`, `Translation` and `BlocksAreAccounted` for every
number of pages, page size and heap. The translation of a chunk can change
by a write to any of its blocks, so that exactness needs the ownership of blocks:
the blocks of a chunk are distinct (`OwnInv`), no two chunks share one and the blocks
in use are exactly those of the chunks (`ShareInv`); `ViewInv` is the translation page
by page, from which the translation of addresses inside a page follows. `MapRange`
says what the loop of `paging_map_to` does, by induction on the number of pages;
`PageIndexes`, `WrapPage` and `PageBehind` are the index arithmetic with its wrap;
`KthBlock` counts the free blocks that the allocations of one call get.

### Loading

`LoaderProofs` proves the five properties of `Loader`, as `NoPartialDirectory`,
`ProgramsMappedExactly`, `ProgramsWriteTheirOwn`, `EveryBlockAccounted` and
`ElfBoundsAreExact`, for every pool, number of pages and process slots, every set of
programs and ELF files and every number of blocks that are taken when the first load
begins. `LoaderAssumption` says that blocks are pages, that stack, program and heap lie in
this order on page boundaries, and that no size takes an address that starts in the
heap over the end of the address space (`Fits`): the pool has 100 MB from 16 MB on,
and files come from a volume of 16 MB.

None of the five is inductive. The invariant (`LoaderInvariant`) says that
every process has what it was loaded with (`Sound`: its blocks, a whole directory, the
translation of every page), every ELF file too (`ElfSound`), that no block has two
owners (`Apart`), and that the table has exactly the blocks that are owned or
lost (`Holds`). That the machine is not lost is needed only for the last. An allocation
may run past the table, as in `Heap`; `Holds` therefore says that then the last block of
the table is taken, which is why no second one does.

A load makes a dozen allocations on a table that each of them changes, and gives some back.
Three relations carry the argument, each closed under the next call: `Grows` (what
was taken since was free, and the rest of the table is the same), `Allocation` (the flags
from this block on chain together its blocks and no others, so that `kfree` gives back those)
and `Freeable` (what is given back takes along what lies behind the table). `Kzalloc` and
`Kfree` establish them for one call, `TakeIs` and `AllTablesIs` for the loops in `fopen` and
`paging_new_4gb`, `LoadFrom` is what a whole `process_load_for_slot` may return.
A directory whose tables were not all allocated is not excluded by any check of the code: it
follows (`KzallocOne`, `New4gb`) from one block being refused only when all are
taken, so that after it the chunk, which is allocated last and checked, is refused too.

The bounds of an ELF file are proved by induction over the program headers, with the
segments seen so far as a set (`BoundsOf`); a base of 0, which the code takes for none,
makes the candidates for the base those after the last segment at 0.

### Tasks and the closed system

`TaskListProofs` proves `TypeCorrect`, `ListInOrder`, `CurrentIsLive` and the action
properties `OrderLost` and `TurnPassedOn` for every set of tasks. The order of the `next` links
alone is not inductive, for `task_list_remove` goes by the `prev` link. The invariant
says, while the list is `sound`, that the `next` links are those of a queue without repetition
(`Linked`), that a `prev` link leads to the task before or, if that was freed, still to it
(`PrevLinks`), and that such a freed task does not stand before it again
(`GoneIsNotBefore`: if its memory holds a task again, that task came later). `RemoveLinked` shows
that a right `prev` link is enough for a free, `RemoveSpoils` that a free with a stale
one leaves a list that is not in order.

`KernelProofs` proves `TypeCorrect`, `OwnSpace`, `Contexts`, `Acknowledged`, `ArrayExact` and
the action property `TurnsGoRound` for any number of tasks, process slots and
interrupt lines, and any mix of faults and failures. That the running
program is in its own space depends on the list having the current task
(`Scheduled`), on the registers and directories being as `process_load` left them when the
first task starts (`BootInv`), and on every saved context being that of its task
(`UserInv`, `TruthInv`). The process array needs that ids are not used twice
(`ArrayInv`). A fault of the kernel itself is handled like one of a program, with the frame
of the task whose turn it was, which is shifted before and after; the turn goes round by the
same lemma. The functions of the code get one lemma each, field by field
(`TaskNextFields`, `ClockFields`, `ExceptionFields`, `LoadFields`, ...); an action is then a
combination of them.

### Files

`FilesProofs` proves `MountedDisk`, `OneHolder`, `FileBlocks` and `WholeItems` for every
table size, every content of the directories, every path and every number of free
blocks at each call. The invariant adds to the four properties that a caller which
did not lose its descriptor holds one of the table (`HeldInv`). The argument for the
blocks goes down into the loops: `Parsing`, `Searching` and `Entering` are the loop
invariants of the path parser, of the search in a directory and of the descent along
the path, each stated as the set of states that the loop may be in; `Opening` is what
`fat16_open` may return, with every allocation possibly failing. `Tally` counts, for
each way out of `fopen`, what it holds apart from what it lost; `SumUpdate`
shows how the sum over the table changes with one slot. These four use nothing about
names: they hold for directories that no FAT16 tool would write, too.

`DescriptorsLead` and `DeletedSlotsHide` are about names, and hold under hypotheses about
them. `WellFormedNames`: the bytes of a slot are capitals and other characters, padded with
spaces, without 0 and dot, or begin with a dot as `.` and `..` do; no caller
asks for a name that begins with a dot or has a 0 in it. Without it the properties are
false of the code, for the comparison ignores case and stops at a 0: a slot in small
letters, which the entries of long names have, is found by a name whose 8.3 form it is
not. `PlainNames`, for the second: the callers ask for 8.3 names without spaces, and there
is memory for the FAT16 descriptor and an item. `MCFiles` assumes both, so TLC evaluates
them for the disks and paths of its runs.

The theory of names goes from the field of a slot (`ProperString`, `Field`) to the string
the code makes of it (`FullName`: it is `Spelled`) and to the comparison (`SameButCase`,
`NoDifference`); `MatchIsName` and `NameIsMatch` say together that the search takes exactly the
slots with the bytes of `ShortName`. `FoundNamed`, `EntryNamed` and `OpenNamed` carry that
through the search, the descent and `fat16_open`; `ParseNamed` shows that the parser returns
the parts asked for, or fewer if memory ran out. The invariant `LeadInv` says of every
holder that its descriptor is of such a prefix of its path, of the slot that this names,
and at its position, or that memory has run out before it was lost or disturbed. The last
follows from `HeldByOne`: whoever calls with a number that another's descriptor is behind has
lost its own (`SharedAfterRanOut`). For the deleted slots `FoundIfWithin` reduces the search to whether the slot is
among the first as many as there are items, and `HiddenCount` counts.

### Reading files

`FatReadProofs` proves the five properties of `FatRead`, as `ReadsExactIffAligned`,
`WholeFilesExact`, `ReadsSucceedInTheChain`, `HangsOnlyBehindTheDisk` and
`DirectoriesReadLeftovers`, for every geometry, every table with a chain for the file, every
file size that ends in its last cluster, every number that a directory's block was left
with, and every sequence of reads and seeks. The
assumption that matters is that an `int` holds every position on the disk: a volume below
2 GiB; the image of the Makefile has 16 MB.

The invariant is small (`Chained`: the chain of a file stays whole, and the number a directory
was left with stays what it is;
`Delivered`: the last read was made of the items that its position and size give); the
work is in what one item delivers (`FileItem`, `FileItemExact`, `WholeItem`, `LeftoverItem`). An item is cut into pieces at cluster lengths and a
piece into parts at sector lengths, each counted from where the item starts and not from
where the cluster or the sector does. `Times` is a walk along entries, and the loop of
`fat16_get_cluster_for_offset`, the chain and the reference are all instances of it; a
refused or unknown mark stays what it is from there on. For the bytes the proof goes
both ways: if no boundary is crossed from the inside, position and chain
agree byte by byte; if one is, the byte behind it is from outside the buffer, or of a
cluster that is not the next one of the chain.

### Loops and induction

The loops of `paging_map_to`, `paging_new_4gb`, `pparser.c`, `fat16.c` and
`elf_process_pheaders` are recursive functions in
the models. That such a function exists and what it computes is proved by a least
counterexample (`WFMin` of the library) with the loop invariant as
a set, which needs no operator as a parameter. Two alternatives of a `CASE` that can be true
together leave its value open to the prover; the models have none in what is proved.

### Only model-checked

* Liveness: `EveryCallReturns` of the loops, `NoStarvation` of the kernel.
* `RecursionAgrees` of `FatRecursion`, which has the reads as recursive operators,
  as the code does; those are out of the prover's reach. It ties what is proved of `FatRead` to
  the recursion of the code on the run's instances.

## Not modelled

* The boot loader, GDT and TSS set-up, port I/O and the terminal: straight-line
  code, constants or single instructions.
* `process_load_for_slot` with a slot that is in use, where `_process` is read
  uninitialised: `process_load` gives it a free one and nobody else calls it.
* `fopen` without memory inside a load, and what a loader does with a descriptor
  that was lost: `Files` has the one, `Loader` the other.
* The state of the disk drive: the ports never report an error, and the code does
  not look for one. `diskstreamer_new` and the allocations of `fat16_resolve` at boot,
  when the heap is empty.
* Slave-PIC interrupts: the slave is never initialised by the kernel.
* Calls with a descriptor number that its caller did not get from `fopen` or has closed, other
  than those that are refused.
* Programs that leave their stack segment before an exception with an error code (see `Kernel`).
* What `kmalloc` does with sizes of 0 and sizes that wrap (see Heap).
* Commented-out code.

## Plan

1. Done: the heap with its loops, the abstract allocator and its proofs; paging;
   tasks and the closed kernel; FAT16 reads with the marks of the table and the end
   of the disk; files with names, paths and exhausted memory; the loaders on the
   heap and the page tables.
2. Done: the proofs about the heap and its loops, paging, the loaders, the task list,
   the kernel, the files and the FAT16 reads.
3. Left: a proof that the recursion of `FatRecursion` agrees with `FatRead`, and the
   liveness properties, for which the prover has no means.
