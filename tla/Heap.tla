-------------------------------- MODULE Heap --------------------------------
(***************************************************************************)
(* The kernel heap: kheap.c over heap.c.  The kernel runs with interrupts  *)
(* off, so each call is one step.  The callers are the rest of the kernel: *)
(* they ask for any size, in any order, and give back what they were given. *)
(* "live" is what the callers hold; the code keeps no such record.         *)
(***************************************************************************)
EXTENDS HeapTable

VARIABLES
    entries,    \* kernel_heap_table.entries
    live        \* the allocations handed out and not freed

vars == <<entries, live>>

\* The blocks of an allocation, those past the end of the table included.
Start(a)  == heap_address_to_block(a.ptr)
Extent(a) == Start(a) .. Start(a) + a.len - 1

-----------------------------------------------------------------------------
\* kheap_init: heap_create accepts the aligned pool and clears the table.
kheap_init ==
    /\ entries = [i \in Block |-> FREE]
    /\ live = {}

\* heap_malloc_blocks: no start block, no allocation (kmalloc returns 0).
heap_malloc_blocks(n, size) ==
    LET start == heap_get_start_block(entries, n)
    IN  IF start < 0
        THEN UNCHANGED vars
        ELSE /\ entries' = heap_mark_blocks_taken(entries, start, n)
             /\ live' = live \cup {[ptr  |-> heap_block_to_address(start),
                                    len  |-> n,
                                    size |-> size]}

kmalloc(size) == heap_malloc_blocks(total_blocks(size), size)

\* kzalloc then clears size bytes from the address it got, which touches no
\* state of the heap: CoversRequest says that those bytes are the caller's.
kzalloc(size) == kmalloc(size)

kfree(a) ==
    /\ entries' = heap_mark_blocks_free(entries, heap_address_to_block(a.ptr))
    /\ live' = live \ {a}

-----------------------------------------------------------------------------
Init == kheap_init

Next ==
    \/ \E size \in Requests : kmalloc(size) \/ kzalloc(size)
    \/ \E a \in live : kfree(a)

Spec == Init /\ [][Next]_vars

-----------------------------------------------------------------------------
\* Every entry is a byte of known flags, every allocation starts at a block
\* of the table and has at least one block.
TypeOK ==
    /\ entries \in Table
    /\ live \subseteq [ptr : Nat, len : Nat \ {0}, size : Nat]
    /\ \A a \in live : \E b \in Block : a.ptr = heap_block_to_address(b)

\* No block is handed out twice (heap_get_start_block with
\* heap_mark_blocks_taken and heap_mark_blocks_free), even by the allocations
\* that run past the end of the table.
NoOverlap ==
    \A a, b \in live : a # b => Extent(a) \cap Extent(b) = {}

\* The table says exactly what the callers hold: IS_FIRST on the first block
\* of each allocation, HAS_NEXT on all but the last, nothing on the other
\* blocks.  heap_mark_blocks_free relies on it to stop where the allocation
\* ends, and it makes a free leave every other allocation alone.
TableMatchesLive ==
    \A i \in Block :
        /\ entries[i] # FREE => \E a \in live : i \in Extent(a)
        /\ \A a \in live : i \in Extent(a) =>
            /\ "TAKEN" \in entries[i]
            /\ "IS_FIRST" \in entries[i] <=> i = Start(a)
            /\ "HAS_NEXT" \in entries[i] <=> i # Start(a) + a.len - 1

\* The blocks handed out hold the bytes asked for, so that the memset of
\* kzalloc and the caller's own writes stay inside them.
CoversRequest == \A a \in live : a.size <= a.len * BlockSize

\* The heap implements an allocator of disjoint intervals.
Abstract == INSTANCE Allocator
    WITH held <- {[start |-> Start(a), len |-> a.len] : a \in live}

AllocatorSpec == Abstract!Spec

\* README.md: "if our heap can allocate 100MB of ram then the heap data pool
\* will be 100MB in size".  Every byte handed out is a byte of that pool.
InPool == \A a \in live : Extent(a) \subseteq Block
=============================================================================
