----------------------------- MODULE HeapLoops -----------------------------
(***************************************************************************)
(* heap.c one loop iteration at a time: the scan of heap_get_start_block,  *)
(* the marking loop of heap_mark_blocks_taken and the walk of              *)
(* heap_mark_blocks_free, with the local variables of the code.  It is     *)
(* shown to implement Heap, in which each call is one step.                *)
(***************************************************************************)
EXTENDS HeapTable

VARIABLES
    entries,    \* kernel_heap_table.entries
    live,       \* the allocations handed out and not freed
    pc,         \* the loop that is running, "idle" between two calls
    call,       \* the call's argument: its size, or the allocation to free
    i,          \* the loop counter
    bc, bs,     \* blocks counted and start of the run, in the scan
    entry,      \* the entry to write next, in the marking loop
    before      \* entries when the call began

vars == <<entries, live, pc, call, i, bc, bs, entry, before>>

NoCall == [size |-> 0]
total == total_blocks(call.size)
end_block == (bs + total) - 1

\* A call returns; its locals are gone.
Return ==
    /\ pc' = "idle"
    /\ call' = NoCall /\ i' = 0 /\ bc' = 0 /\ bs' = -1 /\ entry' = FREE
    /\ before' = entries'

Init ==
    /\ entries = [b \in Block |-> FREE]
    /\ live = {}
    /\ pc = "idle"
    /\ call = NoCall /\ i = 0 /\ bc = 0 /\ bs = -1 /\ entry = FREE
    /\ before = entries

-----------------------------------------------------------------------------
(* heap_malloc *)

heap_malloc(size) ==
    /\ pc = "idle"
    /\ pc' = "scan"
    /\ call' = [size |-> size]
    /\ i' = 0 /\ bc' = 0 /\ bs' = -1
    /\ before' = entries
    /\ UNCHANGED <<entries, live, entry>>

\* A plausible slip: the start of the run is reset to the error code.
ScanTaken_ErrorCode ==
    /\ pc = "scan" /\ i < Total /\ ~IsFree(entries, i)
    /\ bc' = 0 /\ bs' = -ENOMEM /\ i' = i + 1
    /\ UNCHANGED <<entries, live, pc, call, entry, before>>

\* A plausible slip: the loop goes on without the next block.
ScanTaken_Stay ==
    /\ pc = "scan" /\ i < Total /\ ~IsFree(entries, i)
    /\ bc' = 0 /\ bs' = -1
    /\ UNCHANGED <<entries, live, pc, call, i, entry, before>>

ScanTaken ==
    /\ pc = "scan" /\ i < Total /\ ~IsFree(entries, i)
    /\ bc' = 0 /\ bs' = -1 /\ i' = i + 1
    /\ UNCHANGED <<entries, live, pc, call, entry, before>>

\* The "break" leaves the counter where it is; nothing reads it again.
ScanFree ==
    /\ pc = "scan" /\ i < Total /\ IsFree(entries, i)
    /\ bs' = IF bs = -1 THEN i ELSE bs
    /\ bc' = bc + 1
    /\ IF bc + 1 = total THEN pc' = "found" /\ i' = i
                     ELSE pc' = "scan" /\ i' = i + 1
    /\ UNCHANGED <<entries, live, call, entry, before>>

ScanDone == pc = "found" \/ (pc = "scan" /\ i = Total)

\* heap_get_start_block returned -ENOMEM: heap_malloc_blocks returns 0.
ScanFails ==
    /\ ScanDone /\ bs = -1
    /\ UNCHANGED <<entries, live>>
    /\ Return

\* It returned bs: heap_mark_blocks_taken starts.
ScanSucceeds ==
    /\ ScanDone /\ bs # -1
    /\ pc' = "mark"
    /\ i' = bs
    /\ entry' = {"TAKEN", "IS_FIRST"} \cup IF total > 1 THEN {"HAS_NEXT"} ELSE {}
    /\ UNCHANGED <<entries, live, call, bc, bs, before>>

\* A plausible slip: the bound of the HAS_NEXT test is off by one.
MarkBlock_OffByOne ==
    /\ pc = "mark" /\ i <= end_block
    /\ entries' = IF i \in Block THEN [entries EXCEPT ![i] = entry] ELSE entries
    /\ entry' = {"TAKEN"} \cup IF i # end_block THEN {"HAS_NEXT"} ELSE {}
    /\ i' = i + 1
    /\ UNCHANGED <<live, pc, call, bc, bs, before>>

\* An entry past the end of the table is written too, and never read.
MarkBlock ==
    /\ pc = "mark" /\ i <= end_block
    /\ entries' = IF i \in Block THEN [entries EXCEPT ![i] = entry] ELSE entries
    /\ entry' = {"TAKEN"} \cup IF i # end_block - 1 THEN {"HAS_NEXT"} ELSE {}
    /\ i' = i + 1
    /\ UNCHANGED <<live, pc, call, bc, bs, before>>

MarkDone ==
    /\ pc = "mark" /\ i > end_block
    /\ live' = live \cup {[ptr  |-> heap_block_to_address(bs),
                           len  |-> total,
                           size |-> call.size]}
    /\ UNCHANGED entries
    /\ Return

-----------------------------------------------------------------------------
(* heap_free *)

heap_free(a) ==
    /\ pc = "idle"
    /\ pc' = "free"
    /\ call' = a
    /\ i' = heap_address_to_block(a.ptr)
    /\ before' = entries
    /\ UNCHANGED <<entries, live, bc, bs, entry>>

FreeBlock ==
    /\ pc = "free" /\ i < Total
    /\ entries' = [entries EXCEPT ![i] = FREE]
    /\ IF "HAS_NEXT" \in entries[i]
       THEN /\ i' = i + 1
            /\ UNCHANGED <<live, pc, call, bc, bs, entry, before>>
       ELSE live' = live \ {call} /\ Return

\* The walk ran off the end of the table.
FreeDone ==
    /\ pc = "free" /\ i >= Total
    /\ live' = live \ {call}
    /\ UNCHANGED entries
    /\ Return

-----------------------------------------------------------------------------
Step ==
    \/ ScanTaken \/ ScanFree \/ ScanFails \/ ScanSucceeds
    \/ MarkBlock \/ MarkDone
    \/ FreeBlock \/ FreeDone

Next ==
    \/ \E size \in Requests : heap_malloc(size)
    \/ \E a \in live : heap_free(a)
    \/ Step

\* Nothing preempts the kernel: a call that has begun goes on.
Spec == Init /\ [][Next]_vars /\ WF_vars(Step)

-----------------------------------------------------------------------------
\* Every entry is a byte of known flags, and the locals of the loops stay in the
\* ranges that index the table: bs is a block or the -1 the code tests for.
TypeOK ==
    /\ entries \in Table /\ before \in Table
    /\ pc \in {"idle", "scan", "found", "mark", "free"}
    /\ i \in Nat /\ bc \in 0 .. Total /\ bs \in Block \cup {-1}
    /\ entry \in SUBSET Flag

\* The call-level heap, in which a call takes effect when it returns.
Calls == INSTANCE Heap
    WITH entries <- IF pc = "idle" THEN entries ELSE before

\* heap.c as loops implements the heap whose calls are single steps.
HeapSpec == Calls!Spec

\* Every call of heap_malloc and heap_free returns.
EveryCallReturns == (pc # "idle") ~> (pc = "idle")
=============================================================================
