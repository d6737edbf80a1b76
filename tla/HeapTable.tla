----------------------------- MODULE HeapTable -----------------------------
(***************************************************************************)
(* The block table of the kernel heap and the pure functions of            *)
(* src/src/memory/heap/heap.c over it.  A table entry is one byte; the     *)
(* three bits the code uses are kept as the set of the flags that are on,  *)
(* so that HEAP_BLOCK_TABLE_ENTRY_FREE (0x00) is the empty set.            *)
(***************************************************************************)
EXTENDS Integers

CONSTANTS
    Total,      \* table->total, the number of blocks (25600 in config.h)
    BlockSize,  \* PEACHOS_HEAP_BLOCK_SIZE (4096)
    Word,       \* the modulus of uint32_t and size_t (2^32)
    HeapAddr,   \* PEACHOS_HEAP_ADDRESS, heap->saddr (0x01000000)
    Sizes       \* the sizes the callers ask for

ASSUME TableAssumption ==
    /\ Total \in Nat \ {0}
    /\ BlockSize \in Nat \ {0}
    /\ Word \in Nat \ {0}
    /\ Word % BlockSize = 0
    /\ HeapAddr \in Nat \ {0}
    /\ Sizes \subseteq 0 .. Word - 1

ENOMEM == 3

Block == 0 .. Total - 1
Flag  == {"TAKEN", "IS_FIRST", "HAS_NEXT"}
FREE  == {}
Table == [Block -> SUBSET Flag]

-----------------------------------------------------------------------------
(* Sizes and addresses *)

\* A plausible slip: rounding down, as if the remainder did not need a block.
heap_align_value_to_upper_Floor(val) == val - (val % BlockSize)

\* uint32_t arithmetic: the sum wraps for the sizes above Word - BlockSize.
heap_align_value_to_upper(val) ==
    IF val % BlockSize = 0
        THEN val
        ELSE ((val - (val % BlockSize)) + BlockSize) % Word

\* The number of blocks heap_malloc asks heap_malloc_blocks for.
total_blocks(size) == heap_align_value_to_upper(size) \div BlockSize

\* The sizes that need at least one block and that uint32_t can round up.
Requests == {size \in Sizes : 0 < size /\ size <= Word - BlockSize}

heap_block_to_address(block) == HeapAddr + block * BlockSize

heap_address_to_block(address) == (address - HeapAddr) \div BlockSize

-----------------------------------------------------------------------------
(* The search for free blocks *)

IsFree(table, i) == "TAKEN" \notin table[i]

\* Blocks s .. s+n-1 are in the table and free.
IsFreeRun(table, s, n) ==
    /\ s + n <= Total
    /\ \A i \in s .. s + n - 1 : IsFree(table, i)

LeastOf(S) == CHOOSE x \in S : \A y \in S : x <= y

\* Where a run of n free blocks starts.  The scan compares its counter with n
\* only after counting a block, so a request for no blocks never matches.
FittingStarts(table, n) ==
    {s \in Block : n > 0 /\ IsFreeRun(table, s, n)}

\* The starts from which every block up to the end of the table is free.
TrailingStarts(table) == {s \in Block : IsFreeRun(table, s, Total - s)}

\* A plausible slip: the counter is not reset at a taken block, so that the
\* block after a taken one is taken for the rest of the run.
heap_get_start_block_NoReset(table, n) ==
    LET starts == {s \in Block : n > 0 /\ s + n <= Total /\ IsFree(table, s)}
    IN  IF starts # {} THEN LeastOf(starts) ELSE -ENOMEM

\* First fit.  When the scan reaches the end of the table inside a free run
\* that is too short, "bs" still holds the start of that run and it is
\* returned as if it fitted: -ENOMEM is returned only if the last block is taken.
heap_get_start_block(table, n) ==
    IF FittingStarts(table, n) # {} THEN LeastOf(FittingStarts(table, n))
    ELSE IF TrailingStarts(table) # {} THEN LeastOf(TrailingStarts(table))
    ELSE -ENOMEM

-----------------------------------------------------------------------------
(* Marking blocks *)

\* A plausible slip: the last block of the run also gets HAS_NEXT.
heap_mark_blocks_taken_NextOnLast(table, start, n) ==
    [i \in Block |->
        IF i \in start .. start + n - 1
            THEN {"TAKEN", "HAS_NEXT"}
                 \cup (IF i = start THEN {"IS_FIRST"} ELSE {})
            ELSE table[i]]

\* The loop writes n entries from start on.  The ones past the end of the
\* table are not part of it: nothing reads them back.
heap_mark_blocks_taken(table, start, n) ==
    [i \in Block |->
        IF i \in start .. start + n - 1
            THEN {"TAKEN"}
                 \cup (IF i = start THEN {"IS_FIRST"} ELSE {})
                 \cup (IF i # start + n - 1 THEN {"HAS_NEXT"} ELSE {})
            ELSE table[i]]

\* The blocks the loop of heap_mark_blocks_free visits from start on: it goes
\* to the next block as long as the one it has just freed had HAS_NEXT.
Chain(table, start) ==
    {i \in Block : /\ i >= start
                   /\ \A j \in start .. i - 1 : "HAS_NEXT" \in table[j]}

\* A plausible slip: only the first block is freed.
heap_mark_blocks_free_FirstOnly(table, start) ==
    [i \in Block |-> IF i = start THEN FREE ELSE table[i]]

heap_mark_blocks_free(table, start) ==
    [i \in Block |-> IF i \in Chain(table, start) THEN FREE ELSE table[i]]
=============================================================================
