------------------------------- MODULE Loader -------------------------------
(***************************************************************************)
(* Loading a program (process.c, task.c) with the real block table under   *)
(* it (HeapTable) and the real page tables in its blocks (PageTables), and *)
(* loading an ELF file (elfloader.c), which the build leaves out, next to  *)
(* it on the same heap.  A load runs to its end without interruption; each *)
(* of its allocations takes the blocks that the heap finds, if it finds    *)
(* any.  An allocation is known by its first block.                        *)
(***************************************************************************)
EXTENDS HeapTable, PageTables, ElfFile, FiniteSets

CONSTANTS
    MaxProcesses,   \* PEACHOS_MAX_PROCESSES (12)
    ProcessSize,    \* sizeof(struct process)
    StackSize,      \* PEACHOS_USER_PROGRAM_STACK_SIZE
    ProgramAddr,    \* PEACHOS_PROGRAM_VIRTUAL_ADDRESS (0x400000)
    StackEnd,       \* PEACHOS_PROGRAM_VIRTUAL_STACK_ADDRESS_END (0x3FB000)
    PathBlocks,     \* blocks that an fopen keeps for its path
    OpenBlocks,     \* blocks that fopen takes and fclose gives back
    Programs,       \* files given to process_load, see process_load_binary
    ElfFiles,       \* files given to elf_load
    Occupied,       \* how many blocks the rest of the kernel has taken
    MaxLoads        \* bound: calls of the two loaders

\* A size in bytes that the last block of the heap is not too near the end of the
\* address space for: a pool of 100 MB at 16 MB, and files on a volume of 16 MB.
Fits(size) ==
    /\ size \in Nat /\ size <= Word - BlockSize
    /\ heap_block_to_address(Total - 1) + paging_align_address(size) <= Space

ASSUME LoaderAssumption ==
    /\ BlockSize = PageSize /\ HeapAddr % PageSize = 0
    /\ ProgramAddr \in Nat /\ ProgramAddr % PageSize = 0
    /\ StackEnd \in Nat /\ StackEnd % PageSize = 0
    /\ StackEnd + StackSize <= ProgramAddr /\ ProgramAddr < HeapAddr
    /\ ProcessSize \in Nat \ {0} /\ StackSize \in Nat \ {0}
    /\ Fits(1) /\ Fits(BlockSize) /\ Fits(ProcessSize) /\ Fits(StackSize)
    /\ PathBlocks \in Nat /\ OpenBlocks \in Nat
    /\ \A file \in Programs : file.elf \in Int /\ Fits(file.size)
    /\ \A file \in ElfFiles : Fits(file.size) /\ HeaderType(file.header)
    /\ MaxProcesses \in Nat \ {0}
    /\ Occupied \subseteq 0 .. Total /\ MaxLoads \in Nat

NULL == -1      \* address 0
EIO == 1
EINVAGR == 2
EISTKN == 8

Slot == 0 .. MaxProcesses - 1
NoProcess == [struct |-> NULL]      \* the 0 of an empty slot
UserPage == {"P", "U"}
UserData == {"P", "U", PAGING_IS_WRITEABLE}

VARIABLES
    heap,       \* the block table, the page tables in the blocks, lost blocks
    processes,  \* the array: NoProcess or the process
    gone,       \* history: processes that have been terminated
    elf_files,  \* the ELF files their callers hold
    mode,       \* "running", or "lost" behind a wild pointer
    occupied,   \* the blocks taken before
    loads       \* calls of the two loaders

vars == <<heap, processes, gone, elf_files, mode, occupied, loads>>

-----------------------------------------------------------------------------
(* The heap: a record of the table, the contents of the blocks that are page *)
(* tables (NULL stands for the memory at address 0), and the blocks that     *)
(* nobody will free.                                                         *)

kzalloc(h, size) ==
    LET n == total_blocks(size)
        taken(start) == [h EXCEPT !.table = heap_mark_blocks_taken(@, start, n)]
        result(start) == IF start < 0 THEN [h |-> h, ptr |-> NULL]
                         ELSE [h |-> taken(start), ptr |-> start]
    IN  result(heap_get_start_block(h.table, n))

kfree(h, ptr) == [h EXCEPT !.table = heap_mark_blocks_free(@, ptr)]

BlocksAt(ptr, size) == IF ptr = NULL THEN {} ELSE ptr .. ptr + total_blocks(size) - 1

Leak(h, blocks) == [h EXCEPT !.leaked = @ \cup blocks]

\* k allocations of one block.
Take(h, k) ==
    LET add(a, z) == [h |-> z.h, got |-> a.got \cup {z.ptr}]
        more(a) == add(a, kzalloc(a.h, 1))
        taken[i \in 0 .. k] == IF i = 0 THEN [h |-> h, got |-> {}] ELSE more(taken[i - 1])
    IN  taken[k]

-----------------------------------------------------------------------------
(* The file layer, as a loader sees it.  Files has what fopen does without the *)
(* memory it needs; the loads below are made when it has it.                   *)

RoomToOpen(h) == Cardinality({b \in Block : IsFree(h.table, b)}) >= PathBlocks + OpenBlocks

\* The blocks of the path are lost, those of the open file are fclose's.
fopen(h) ==
    LET opened(path, file) == [h |-> Leak(file.h, path.got), file |-> file.got]
        copied(path) == opened(path, Take(path.h, OpenBlocks))
    IN  copied(Take(h, PathBlocks))

fclose(h, file) ==
    [h EXCEPT !.table = [b \in Block |-> IF b \in file THEN FREE ELSE @[b]]]

-----------------------------------------------------------------------------
(* paging.c and task.c *)

\* Table i of a directory, in the block that z has: identity for its pages.
SetTable(z, directory, i, flags) ==
    [z.h EXCEPT !.mem[z.ptr] = [b \in Index |-> Entry((i * N + b) * PageSize, flags)],
                !.mem[directory][i] = Entry(z.ptr, flags \cup {PAGING_IS_WRITEABLE})]

AllTables(h, directory, flags) ==
    LET filled[i \in 0 .. N] ==
            IF i = 0 THEN h
            ELSE SetTable(kzalloc(filled[i - 1], BlockSize), directory, i - 1, flags)
    IN  filled[N]

\* A plausible slip: the chunk is allocated before the tables.
paging_new_4gb_ChunkFirst(h, flags) ==
    LET filled(c, d) == [h |-> AllTables(d.h, d.ptr, flags), ptr |-> c.ptr, directory |-> d.ptr]
        began(c) == filled(c, kzalloc(c.h, BlockSize))
    IN  began(kzalloc(h, 1))

\* The directory, its N tables, the chunk.  No result of kzalloc is looked at:
\* without memory the words go to address 0.
paging_new_4gb(h, flags) ==
    LET filled(d, c) == [h |-> c.h, ptr |-> c.ptr, directory |-> d.ptr]
        began(d) == filled(d, kzalloc(AllTables(d.h, d.ptr, flags), 1))
    IN  began(kzalloc(h, BlockSize))

\* task_init fails without a chunk.  The error of task_new, whichever, is not the
\* 0 that its caller looks for: the machine is lost.
task_new(h) ==
    LET made(t, c) == [h |-> c.h, task |-> t.ptr, chunk |-> c.ptr, directory |-> c.directory,
                       failed |-> t.ptr = NULL \/ c.ptr = NULL]
        began(t) == made(t, paging_new_4gb(t.h, UserPage))
    IN  began(kzalloc(h, 1))

paging_map_to(h, directory, virt, phys, phys_end, flags) ==
    IF Mappable(virt, phys, phys_end)
    THEN [h EXCEPT !.mem = paging_map_range(@, directory, virt, phys,
                                            (phys_end - phys) \div PageSize, flags)]
    ELSE h

-----------------------------------------------------------------------------
(* process.c *)

\* The results of loading the data: the error or 0, and where the image is.
Data(h, res, filetype, ptr, size) ==
    [h |-> h, res |-> res, filetype |-> filetype, ptr |-> ptr, size |-> size]
NoData(h, res) == Data(h, res, "ELF", NULL, 0)

\* A file: "refused" if fopen returns 0, "directory" if fstat fails, else a file of
\* "size" bytes; "readable" if fread delivers it.  fread refuses 0 bytes.
process_load_binary(h, file) ==
    LET close(a, open) == fclose(a, open.file)
        read(open, image) ==
            IF image.ptr = NULL THEN NoData(close(open.h, open), -ENOMEM)
            ELSE IF file.readable /\ file.size > 0
            THEN Data(close(image.h, open), 0, "BINARY", image.ptr, file.size)
            ELSE NoData(close(kfree(image.h, image.ptr), open), -EIO)
        opened(open) ==
            IF file.kind = "directory" THEN NoData(close(open.h, open), -EINVAGR)
            ELSE read(open, kzalloc(open.h, file.size))
    IN  IF file.kind = "refused" THEN NoData(h, -EIO) ELSE opened(fopen(h))

\* process_load_elf is empty and returns 0: the process has no image.  The
\* -EINFORMAT of a file that is no ELF leads to process_load_binary.
process_load_data(h, file) ==
    IF file.elf = -EINFORMAT THEN process_load_binary(h, file) ELSE NoData(h, file.elf)

\* A plausible slip: the end of the image is not rounded up to a page.
process_map_binary_NotAligned(h, p) ==
    paging_map_to(h, p.directory, ProgramAddr, heap_block_to_address(p.ptr),
                  heap_block_to_address(p.ptr) + p.size, UserData)

process_map_binary(h, p) ==
    paging_map_to(h, p.directory, ProgramAddr, heap_block_to_address(p.ptr),
                  paging_align_address(heap_block_to_address(p.ptr) + p.size), UserData)

\* process_map_elf is empty.
process_map_memory(h, p) ==
    LET image == IF p.filetype = "BINARY" THEN process_map_binary(h, p) ELSE h
        stack == heap_block_to_address(p.stack)
    IN  paging_map_to(image, p.directory, StackEnd, stack,
                      paging_align_address(stack + StackSize), UserData)

\* process_free_process frees nothing, so that a load that fails loses what it has
\* allocated.
process_load_for_slot(h, file) ==
    LET fails(a, res, lost) == [h |-> Leak(a, lost), res |-> res, process |-> NoProcess]
        own(struct, data) == BlocksAt(struct.ptr, ProcessSize) \cup BlocksAt(data.ptr, data.size)
        mapped(a, p) == [h |-> process_map_memory(a, p), res |-> 0, process |-> p]
        tasked(struct, data, stack, task) ==
            IF task.failed THEN fails(task.h, 1, {})
            ELSE mapped(task.h,
                    [struct |-> struct.ptr, filetype |-> data.filetype, ptr |-> data.ptr,
                     size |-> data.size, stack |-> stack.ptr, task |-> task.task,
                     chunk |-> task.chunk, directory |-> task.directory])
        stacked(struct, data, stack) ==
            IF stack.ptr = NULL THEN fails(data.h, -ENOMEM, own(struct, data))
            ELSE tasked(struct, data, stack, task_new(stack.h))
        loaded(struct, data) ==
            IF data.res < 0 THEN fails(data.h, data.res, own(struct, data))
            ELSE stacked(struct, data, kzalloc(data.h, StackSize))
        began(struct) ==
            IF struct.ptr = NULL THEN fails(h, -ENOMEM, {})
            ELSE loaded(struct, process_load_data(struct.h, file))
    IN  began(kzalloc(h, ProcessSize))

-----------------------------------------------------------------------------
Init ==
    /\ \E k \in Occupied :
        /\ occupied = 0 .. k - 1
        /\ heap = [table |-> [b \in Block |-> IF b < k THEN {"TAKEN", "IS_FIRST"} ELSE FREE],
                   mem |-> [b \in Block \cup {NULL} |-> Zeroed],
                   leaked |-> {}]
    /\ processes = [i \in Slot |-> NoProcess]
    /\ gone = {}
    /\ elf_files = {}
    /\ mode = "running"
    /\ loads = 0

\* One more call of a loader.
Call == mode = "running" /\ loads < MaxLoads /\ loads' = loads + 1

FreeSlots == {i \in Slot : processes[i] = NoProcess}

\* The first free slot.  A caller that goes on after an error has the heap that
\* the failed load left.
process_load(file) ==
    /\ Call /\ FreeSlots # {}
    /\ file.elf = -EINFORMAT /\ file.kind # "refused" =>
            RoomToOpen(kzalloc(heap, ProcessSize).h)
    /\ \E load \in {process_load_for_slot(heap, file)} :
        /\ heap' = load.h
        /\ processes' =
                LET slot == CHOOSE i \in FreeSlots : \A j \in FreeSlots : i <= j
                IN  IF load.res = 0 THEN [processes EXCEPT ![slot] = load.process] ELSE processes
        /\ mode' = IF load.res > 0 THEN "lost" ELSE "running"
    /\ UNCHANGED <<gone, elf_files, occupied>>

\* process_unlink; the blocks stay.
process_terminate(slot) ==
    /\ mode = "running" /\ processes[slot] # NoProcess
    /\ gone' = gone \cup {processes[slot]}
    /\ processes' = [processes EXCEPT ![slot] = NoProcess]
    /\ UNCHANGED <<heap, elf_files, mode, occupied, loads>>

-----------------------------------------------------------------------------
(* elfloader.c *)

\* A plausible slip: the memory of a file that is refused is kept.
elf_file_free_KeepMemory(h, elf_file, memory) == kfree(h, elf_file)

elf_file_free(h, elf_file, memory) ==
    kfree(IF memory = NULL THEN h ELSE kfree(h, memory), elf_file)

\* Neither of the two allocations is looked at: without memory the structure is
\* freed, or the file written, at address 0.
elf_load(file) ==
    /\ Call
    /\ \E elf_file \in {kzalloc(heap, 1)} :
       \E open \in {fopen(elf_file.h)} :
       \E memory \in {kzalloc(open.h, file.size)} :
       \E loaded \in {elf_process_loaded(file.header)} :
          LET returns(h, ptr) == heap' = elf_file_free(h, elf_file.ptr, ptr)
                                    /\ UNCHANGED <<elf_files, mode>>
              lost(h) == heap' = h /\ mode' = "lost" /\ UNCHANGED elf_files
          IN  \/ elf_file.ptr = NULL /\ lost(heap)
              \/ elf_file.ptr # NULL /\ file.kind = "refused" /\ returns(elf_file.h, NULL)
              \/ /\ elf_file.ptr # NULL /\ file.kind = "directory" /\ RoomToOpen(elf_file.h)
                 /\ returns(fclose(open.h, open.file), NULL)
              \/ /\ elf_file.ptr # NULL /\ file.kind = "file" /\ RoomToOpen(elf_file.h)
                 /\ \/ file.size > 0 /\ memory.ptr = NULL /\ lost(memory.h)
                    \/ /\ file.size = 0 \/ (memory.ptr # NULL /\ (~ file.readable \/ loaded.res < 0))
                       /\ returns(fclose(memory.h, open.file), memory.ptr)
                    \/ /\ file.size > 0 /\ memory.ptr # NULL /\ file.readable /\ loaded.res = 0
                       /\ heap' = fclose(memory.h, open.file)
                       /\ elf_files' = elf_files \cup
                            {[struct |-> elf_file.ptr, memory |-> memory.ptr, size |-> file.size,
                              header |-> file.header, bounds |-> loaded.bounds]}
                       /\ mode' = mode
    /\ UNCHANGED <<processes, gone, occupied>>

elf_close(file) ==
    /\ mode = "running"
    /\ heap' = kfree(kfree(heap, file.memory), file.struct)
    /\ elf_files' = elf_files \ {file}
    /\ UNCHANGED <<processes, gone, mode, occupied, loads>>

\* Nothing more is said of a machine that is lost.
Lost == mode = "lost" /\ UNCHANGED vars

Next ==
    \/ \E file \in Programs : process_load(file)
    \/ \E slot \in Slot : process_terminate(slot)
    \/ \E file \in ElfFiles : elf_load(file)
    \/ \E file \in elf_files : elf_close(file)
    \/ Lost

Spec == Init /\ [][Next]_vars

-----------------------------------------------------------------------------
Loaded == {processes[i] : i \in Slot} \ {NoProcess}
Ever == Loaded \cup gone

\* The blocks a process owns; an image or a stack may reach behind the table.
Image(p) == BlocksAt(p.ptr, p.size)
Stack(p) == BlocksAt(p.stack, StackSize)
Tables(p) == {heap.mem[p.directory][i].base : i \in Index} \cup {p.directory, p.chunk}
OwnBlocks(p) ==
    BlocksAt(p.struct, ProcessSize) \cup Image(p) \cup Stack(p) \cup {p.task} \cup Tables(p)
ElfBlocks(f) == {f.struct} \cup BlocksAt(f.memory, f.size)

PageOf(address) == address \div PageSize
BlockPage(b) == PageOf(heap_block_to_address(b))
Translate(p, page) == paging_get(heap.mem, p.directory, page * PageSize)

\* paging.c:7-27, task.c:217-224.  The directory of a task is never a partial
\* one, although no allocation of paging_new_4gb is checked: the directory and
\* every table are blocks of the heap, each its own.
DirectoriesWhole ==
    \A p \in Ever : Tables(p) \subseteq Block /\ Cardinality(Tables(p)) = N + 2

\* process.c:376-461.  A program that was loaded as a binary finds its image, all
\* of it, at the program address and can write it; one that was taken for an ELF
\* file finds no image there.  Either has its stack.  Every other page is the
\* kernel's, at its own address, and cannot be written.  That is so of the page below
\* tss.esp0 (kernel.c:133), where the processor pushes the state of a program it
\* interrupts, exactly if the image ends before it; otherwise the pushes go into
\* the program.
MappedExactly ==
    \A p \in Ever, page \in Page :
        LET i == page - PageOf(ProgramAddr)
            j == page - PageOf(StackEnd)
        IN  Translate(p, page) =
                IF p.filetype = "BINARY" /\ i \in 0 .. Cardinality(Image(p)) - 1
                THEN Entry(heap_block_to_address(p.ptr + i), UserData)
                ELSE IF j \in 0 .. Cardinality(Stack(p)) - 1
                THEN Entry(heap_block_to_address(p.stack + j), UserData)
                ELSE Entry(page * PageSize, UserPage)

\* heap.c:95-170, process.c:400-461.  What a program can write is its image and its
\* stack: no page table and no structure of its own, and nothing that another
\* program or an ELF file has.
WritableIsOwn ==
    \A p \in Ever :
        LET writable == {page \in Page : "W" \in Translate(p, page).flags}
            written == {PageOf(Translate(p, page).base) : page \in writable}
        IN  /\ written \subseteq {BlockPage(b) : b \in Image(p) \cup Stack(p)}
            /\ written \cap {BlockPage(b) : b \in {p.task} \cup Tables(p)
                                    \cup BlocksAt(p.struct, ProcessSize)} = {}
            /\ \A q \in Ever \ {p} :
                    written \cap {BlockPage(b) : b \in OwnBlocks(q)} = {}
            /\ \A f \in elf_files : written \cap {BlockPage(b) : b \in ElfBlocks(f)} = {}

\* process.c:190-246, 500-571.  The taken blocks are those taken before, those of
\* the processes, terminated or not, those of the ELF files their callers hold,
\* and those that were lost: the paths, and what a failed load had allocated.
\* The others have been given back.
BlocksAccounted ==
    mode = "running" =>
        {b \in Block : ~ IsFree(heap.table, b)}
            = (occupied \cup heap.leaked \cup (UNION {OwnBlocks(p) : p \in Ever})
                \cup UNION {ElfBlocks(f) : f \in elf_files}) \cap Block

\* elfloader.c:109-153.  The bounds of a loaded ELF file are those of its segments,
\* except that a segment at address 0 counts as none once another follows; and
\* only a file that says where its segments are is loaded.
ElfBoundsExact ==
    \A f \in elf_files : f.header.phoff # 0 /\ BoundsExact(f.header, f.bounds)
=============================================================================
