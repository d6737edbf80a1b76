-------------------------- MODULE HeapLoopsProofs --------------------------
(***************************************************************************)
(* The loops of heap.c compute what HeapTable says they compute, and so    *)
(* implement the heap whose calls are single steps, for every pool, block  *)
(* and request size.                                                       *)
(***************************************************************************)
EXTENDS HeapLoops, WellFoundedInduction, TLAPS

\* The least element that the searches of heap.c return exists.
LEMMA LeastOfProperty ==
    ASSUME NEW S, S \subseteq Nat, S # {}
    PROVE  LeastOf(S) \in S /\ \A y \in S : LeastOf(S) <= y
<1> DEFINE R == OpToRel(<, Nat)
<1>1. IsWellFoundedOn(R, Nat)
    BY NatLessThanWellFounded
<1>2. \E x \in S : \A y \in S : ~ (<<y, x>> \in R)
  <2> HIDE DEF R
  <2> QED  BY <1>1, WFMin
<1>3. PICK x \in S : \A y \in S : ~ (<<y, x>> \in R)
    BY <1>2
<1>4. \A y \in S : x <= y
  <2>1. SUFFICES ASSUME NEW y \in S, y < x PROVE FALSE
      OBVIOUS
  <2>2. <<y, x>> \in R
      BY <2>1 DEF OpToRel
  <2> QED
      BY <1>3, <2>2
<1> QED
    BY <1>4 DEF LeastOf

\* heap_address_to_block undoes heap_block_to_address.
LEMMA AddressRoundTrip ==
    ASSUME NEW b \in Nat
    PROVE  heap_address_to_block(heap_block_to_address(b)) = b
<1>1. BlockSize \in Nat \ {0} /\ HeapAddr \in Nat
    BY TableAssumption
<1>2. (b * BlockSize) \div BlockSize = b
    BY <1>1
<1>3. (HeapAddr + b * BlockSize) - HeapAddr = b * BlockSize
    BY <1>1
<1> QED
    BY <1>2, <1>3 DEF heap_address_to_block, heap_block_to_address

\* A request is rounded up to at least one block, and the blocks cover it.
LEMMA RoundUp ==
    ASSUME NEW size \in Requests
    PROVE  /\ size \in Nat \ {0}
           /\ total_blocks(size) \in Nat \ {0}
           /\ size <= total_blocks(size) * BlockSize
<1> DEFINE r == size % BlockSize
           q == size \div BlockSize
<1>1. BlockSize \in Nat \ {0} /\ Word \in Nat \ {0} /\ size \in Nat \ {0} /\ size <= Word - BlockSize
    BY TableAssumption DEF Requests
<1>2. q \in Nat /\ r \in 0 .. BlockSize - 1 /\ size = BlockSize * q + r
    BY <1>1
<1> HIDE DEF q, r
<1>3. CASE r = 0
  <2>1. total_blocks(size) = q
      BY <1>3 DEF total_blocks, heap_align_value_to_upper, q, r
  <2>2. q # 0
      BY <1>1, <1>2, <1>3
  <2>3. q * BlockSize = size
      BY <1>1, <1>2, <1>3
  <2> QED
      BY <1>1, <1>2, <2>1, <2>2, <2>3
<1>4. CASE r # 0
  <2>1. (size - r) + BlockSize = BlockSize * (q + 1)
      BY <1>1, <1>2
  <2>2. (size - r) + BlockSize \in 0 .. Word - 1
      BY <1>1, <1>2, <1>4
  <2>3. ((size - r) + BlockSize) % Word = (size - r) + BlockSize
      BY <1>1, <2>2
  <2>4. heap_align_value_to_upper(size) = BlockSize * (q + 1)
      BY <1>4, <2>1, <2>3 DEF heap_align_value_to_upper, r
  <2>5. (BlockSize * (q + 1)) \div BlockSize = q + 1
      BY <1>1, <1>2
  <2>6. total_blocks(size) = q + 1
      BY <2>4, <2>5 DEF total_blocks
  <2>7. size <= (q + 1) * BlockSize
      BY <1>1, <1>2
  <2> QED
      BY <1>1, <1>2, <2>6, <2>7
<1> QED
    BY <1>3, <1>4

-----------------------------------------------------------------------------

\* The least element is known by being one.
LEMMA LeastOfIs ==
    ASSUME NEW S, S \subseteq Nat, NEW x \in S, \A y \in S : x <= y
    PROVE  LeastOf(S) = x
<1>1. LeastOf(S) \in S /\ LeastOf(S) <= x
    BY LeastOfProperty
<1>2. LeastOf(S) \in Nat /\ x \in Nat /\ x <= LeastOf(S)
    BY <1>1
<1> QED  BY <1>1, <1>2

\* heap_get_start_block returns the start of the first run that is long enough.
LEMMA FirstFit ==
    ASSUME NEW table, NEW n \in Nat \ {0}, NEW s \in FittingStarts(table, n),
           \A t \in FittingStarts(table, n) : s <= t
    PROVE  heap_get_start_block(table, n) = s
<1>1. FittingStarts(table, n) \subseteq Nat
    BY TableAssumption DEF FittingStarts, Block
<1>2. LeastOf(FittingStarts(table, n)) = s
    BY <1>1, LeastOfIs
<1> QED  BY <1>2 DEF heap_get_start_block

\* Without such a run it returns the start of the free run at the end of the table.
LEMMA LastRun ==
    ASSUME NEW table, NEW n \in Nat \ {0}, FittingStarts(table, n) = {},
           NEW s \in Block, IsFreeRun(table, s, Total - s),
           s > 0 => ~ IsFree(table, s - 1)
    PROVE  heap_get_start_block(table, n) = s
<1>0. Total \in Nat \ {0} /\ Block = 0 .. Total - 1
    BY TableAssumption DEF Block
<1>1. TrailingStarts(table) \subseteq Nat /\ s \in TrailingStarts(table)
    BY <1>0 DEF TrailingStarts
<1>2. ASSUME NEW t \in TrailingStarts(table), t < s
      PROVE  FALSE
  <2>1. t \in Block /\ \A b \in t .. Total - 1 : IsFree(table, b)
      BY <1>0 DEF TrailingStarts, IsFreeRun
  <2>2. s - 1 \in t .. Total - 1 /\ s > 0
      BY <1>0, <1>2, <2>1
  <2> QED  BY <2>1, <2>2
<1>3. \A t \in TrailingStarts(table) : s <= t
    BY <1>0, <1>1, <1>2
<1>4. LeastOf(TrailingStarts(table)) = s
    BY <1>1, <1>3, LeastOfIs
<1> QED  BY <1>1, <1>4 DEF heap_get_start_block

\* It fails when neither is there.
LEMMA NoRun ==
    ASSUME NEW table, NEW n \in Nat \ {0}, FittingStarts(table, n) = {},
           ~ IsFree(table, Total - 1)
    PROVE  heap_get_start_block(table, n) < 0
<1>0. Total \in Nat \ {0} /\ Block = 0 .. Total - 1
    BY TableAssumption DEF Block
<1>1. TrailingStarts(table) = {}
    BY <1>0 DEF TrailingStarts, IsFreeRun
<1> QED  BY <1>1 DEF heap_get_start_block, ENOMEM

\* What heap_mark_blocks_taken is to write to block b of the run that starts at bs.
Mark(b) ==
    {"TAKEN"} \cup (IF b = bs THEN {"IS_FIRST"} ELSE {})
              \cup (IF b # end_block THEN {"HAS_NEXT"} ELSE {})

\* The callers hold allocations that start in the table.
LiveInv ==
    \A a \in live : a.ptr \in {heap_block_to_address(b) : b \in Block}

\* A call works on the argument it was given.
CallInv ==
    /\ pc \in {"scan", "found", "mark"} => call \in [size : Requests]
    /\ pc = "free" => call \in live

\* In the scan, the bc blocks up to i are free, start at bs and follow a taken
\* block or the start of the table; no run of total blocks ends before i.
ScanInv ==
    pc = "scan" =>
        /\ bs = -1 <=> bc = 0
        /\ bc > 0 => bs + bc = i /\ IsFreeRun(entries, bs, bc)
        /\ i - bc > 0 => ~IsFree(entries, i - bc - 1)
        /\ \A s \in FittingStarts(entries, total) : s + total > i

\* The scan writes nothing, stays in the table and stops at the first run.
ScanRangeInv ==
    /\ pc \in {"scan", "found"} => entries = before
    /\ pc = "scan" => i <= Total /\ bc <= i /\ bc < total

\* A scan that ended at a run has the block that heap_get_start_block is to return.
FoundInv ==
    pc \in {"found", "mark"} => bs \in Block /\ bs = heap_get_start_block(before, total)

\* The marking loop has written the blocks up to i and has the next one at hand.
MarkInv ==
    pc = "mark" =>
        /\ i \in bs .. end_block + 1
        /\ entry = Mark(i) \/ i = end_block + 1
        /\ \A b \in Block : entries[b] = IF b \in bs .. i - 1 THEN Mark(b) ELSE before[b]

\* The walk of heap_mark_blocks_free has cleared a chain of blocks up to i.
FreeStart == heap_address_to_block(call.ptr)
WalkInv ==
    pc = "free" =>
        /\ FreeStart \in Block /\ i >= FreeStart /\ i <= Total
        /\ \A b \in FreeStart .. i - 1 : "HAS_NEXT" \in before[b]
        /\ \A b \in Block : entries[b] = IF b \in FreeStart .. i - 1 THEN FREE ELSE before[b]

\* The inductive invariant.  ScanInv says what the scan has seen, FoundInv, MarkInv
\* and WalkInv relate the half-written table to the table before the call.
Inv ==
    /\ TypeOK /\ LiveInv /\ CallInv
    /\ ScanInv /\ ScanRangeInv /\ FoundInv /\ MarkInv /\ WalkInv

\* The table and the number of blocks of a call, as the provers need them.
LEMMA TableFacts == Total \in Nat \ {0} /\ Block = 0 .. Total - 1
  BY TableAssumption DEF Block

LEMMA CallFacts ==
    ASSUME Inv, pc \in {"scan", "found", "mark"}
    PROVE  total \in Nat \ {0} /\ call.size \in Requests
<1>1. call.size \in Requests
    BY DEF Inv, CallInv
<1> QED  BY <1>1, RoundUp DEF total

\* A run that is long enough is all free and ends behind the counter of the scan.
LEMMA FitsLater ==
    ASSUME Inv, pc = "scan", NEW t \in FittingStarts(entries, total)
    PROVE  t \in Nat /\ t + total > i /\ \A b \in t .. t + total - 1 : IsFree(entries, b)
<1>1. t + total > i
    BY DEF Inv, ScanInv
<1> QED
    BY <1>1, TableFacts DEF FittingStarts, IsFreeRun

LEMMA InitInv == Init => Inv
<1> SUFFICES ASSUME Init PROVE Inv
    OBVIOUS
<1> USE TableFacts DEF Init
<1>1. TypeOK
    BY DEF TypeOK, Table, Flag, FREE
<1>2. pc = "idle" /\ live = {}
    OBVIOUS
<1> QED
    BY <1>1, <1>2 DEF Inv, LiveInv, CallInv, ScanInv, ScanRangeInv, FoundInv, MarkInv, WalkInv

-----------------------------------------------------------------------------
(* The scan *)

LEMMA MallocStep ==
    ASSUME Inv, NEW size \in Requests, heap_malloc(size)
    PROVE  Inv'
<1> USE TableFacts DEF heap_malloc
<1>1. TypeOK'
    BY DEF Inv, TypeOK
<1>2. LiveInv' /\ CallInv'
    BY DEF Inv, LiveInv, CallInv
<1>3. total' \in Nat \ {0}
    BY RoundUp DEF total
<1>4. ScanInv'
    BY <1>3 DEF ScanInv, FittingStarts, IsFreeRun, total, Inv
<1>5. ScanRangeInv'
    BY <1>3 DEF ScanRangeInv
<1> QED
    BY <1>1, <1>2, <1>4, <1>5 DEF Inv, FoundInv, MarkInv, WalkInv

LEMMA ScanTakenStep ==
    ASSUME Inv, ScanTaken
    PROVE  Inv'
<1> USE TableFacts DEF ScanTaken
<1>0. total \in Nat \ {0} /\ total' = total /\ i \in Nat
    BY CallFacts DEF total, Inv, TypeOK
<1>1. TypeOK'
    BY DEF Inv, TypeOK
<1>2. LiveInv' /\ CallInv'
    BY DEF Inv, LiveInv, CallInv
<1>3. ScanInv'
  <2>1. ASSUME NEW t \in FittingStarts(entries, total)
        PROVE  t + total > i + 1
    <3>1. t \in Nat /\ t + total > i /\ \A b \in t .. t + total - 1 : IsFree(entries, b)
        BY <2>1, FitsLater
    <3>2. t + total = i + 1 => i \in t .. t + total - 1
        BY <1>0, <3>1
    <3> QED  BY <1>0, <3>1, <3>2
  <2> QED
      BY <1>0, <2>1 DEF ScanInv
<1>4. ScanRangeInv'
    BY <1>0 DEF Inv, ScanRangeInv
<1> QED
    BY <1>1, <1>2, <1>3, <1>4 DEF Inv, FoundInv, MarkInv, WalkInv

LEMMA ScanFreeStep ==
    ASSUME Inv, ScanFree
    PROVE  Inv'
<1> USE TableFacts DEF ScanFree
<1>0. /\ total \in Nat \ {0} /\ total' = total
      /\ i \in Nat /\ bc \in Nat /\ bs \in Block \cup {-1}
      /\ bs = -1 <=> bc = 0
      /\ bc > 0 => bs + bc = i /\ IsFreeRun(entries, bs, bc)
      /\ i - bc > 0 => ~IsFree(entries, i - bc - 1)
      /\ bc <= i /\ bc < total /\ entries = before
    BY CallFacts DEF total, Inv, TypeOK, ScanInv, ScanRangeInv
<1>1. /\ bs' \in Block /\ bc' = bc + 1 /\ bs' + bc' = i + 1
      /\ IsFreeRun(entries, bs', bc')
    BY <1>0 DEF IsFreeRun
<1>2. \A t \in FittingStarts(entries, total) : bs' <= t
  <2>1. SUFFICES ASSUME NEW t \in FittingStarts(entries, total), t < bs' PROVE FALSE
      BY <1>1 DEF FittingStarts
  <2>2. t \in Nat /\ t + total > i /\ \A b \in t .. t + total - 1 : IsFree(entries, b)
      BY <2>1, FitsLater
  <2>3. i - bc - 1 \in t .. t + total - 1 /\ i - bc > 0
      BY <1>0, <1>1, <2>1, <2>2
  <2> QED  BY <1>0, <2>2, <2>3
<1>3. TypeOK'
    BY <1>0, <1>1 DEF Inv, TypeOK
<1>4. LiveInv' /\ CallInv'
    BY DEF Inv, LiveInv, CallInv
<1>5. ScanInv'
  <2>1. CASE bc + 1 = total
      BY <2>1 DEF ScanInv
  <2>2. CASE bc + 1 # total
    <3>1. ASSUME NEW t \in FittingStarts(entries, total)
          PROVE  t + total > i + 1
        BY <1>0, <1>1, <1>2, <2>2 DEF FittingStarts
    <3> QED  BY <1>0, <1>1, <2>2, <3>1 DEF ScanInv
  <2> QED  BY <2>1, <2>2
<1>6. ScanRangeInv'
    BY <1>0, <1>1 DEF ScanRangeInv
<1>7. FoundInv'
  <2>1. CASE bc + 1 = total
    <3>1. bs' \in FittingStarts(entries, total)
        BY <1>0, <1>1, <2>1 DEF FittingStarts
    <3>2. heap_get_start_block(entries, total) = bs'
        BY <1>0, <1>2, <3>1, FirstFit
    <3> QED  BY <1>0, <1>1, <3>2 DEF FoundInv
  <2>2. CASE bc + 1 # total
      BY <2>2 DEF FoundInv
  <2> QED  BY <2>1, <2>2
<1> QED
    BY <1>3, <1>4, <1>5, <1>6, <1>7 DEF Inv, MarkInv, WalkInv

\* When the scan is over, bs is what heap_get_start_block returns, or -1 if that
\* is an error.
LEMMA ScanResult ==
    ASSUME Inv, ScanDone
    PROVE  IF bs = -1 THEN heap_get_start_block(before, total) < 0
           ELSE bs \in Block /\ bs = heap_get_start_block(before, total)
<1> USE TableFacts
<1>1. CASE pc = "found"
    BY <1>1 DEF Inv, FoundInv
<1>2. CASE pc = "scan" /\ i = Total
  <2>1. /\ total \in Nat \ {0} /\ bc \in Nat /\ bs \in Block \cup {-1}
        /\ bs = -1 <=> bc = 0
        /\ bc > 0 => bs + bc = Total /\ IsFreeRun(entries, bs, bc)
        /\ Total - bc > 0 => ~IsFree(entries, Total - bc - 1)
        /\ entries = before
      BY <1>2, CallFacts DEF Inv, TypeOK, ScanInv, ScanRangeInv
  <2>2. FittingStarts(before, total) = {}
    <3>1. SUFFICES ASSUME NEW t \in FittingStarts(before, total) PROVE FALSE
        OBVIOUS
    <3>2. t + total > Total
        BY <1>2, <2>1, <3>1 DEF Inv, ScanInv
    <3>3. t \in Nat /\ t + total <= Total
        BY <3>1 DEF FittingStarts, IsFreeRun
    <3> QED  BY <2>1, <3>2, <3>3
  <2>3. CASE bs = -1
    <3>1. ~ IsFree(before, Total - 1)
        BY <2>1, <2>3
    <3>2. heap_get_start_block(before, total) < 0
        BY <2>1, <2>2, <3>1, NoRun
    <3> QED  BY <2>3, <3>2
  <2>4. CASE bs # -1
    <3>1. bs \in Block /\ IsFreeRun(before, bs, Total - bs) /\ (bs > 0 => ~ IsFree(before, bs - 1))
      <4>1. bc > 0 /\ bc = Total - bs
          BY <2>1, <2>4
      <4> QED  BY <2>1, <2>4, <4>1
    <3>2. bs = heap_get_start_block(before, total)
        BY <2>1, <2>2, <3>1, LastRun
    <3> QED  BY <2>4, <3>1, <3>2
  <2> QED  BY <2>3, <2>4
<1> QED  BY <1>1, <1>2 DEF ScanDone

-----------------------------------------------------------------------------
(* Marking and freeing *)

\* A call that returns leaves nothing of itself behind.
LEMMA ReturnStep ==
    ASSUME Inv, Return, entries' \in Table, LiveInv'
    PROVE  Inv'
<1> USE TableFacts DEF Return
<1>1. TypeOK'
    BY DEF TypeOK, FREE, Flag
<1> QED
    BY <1>1 DEF Inv, CallInv, ScanInv, ScanRangeInv, FoundInv, MarkInv, WalkInv

LEMMA ScanSucceedsStep ==
    ASSUME Inv, ScanSucceeds
    PROVE  Inv'
<1> USE TableFacts DEF ScanSucceeds
<1>0. pc \in {"scan", "found"}
    BY DEF ScanDone
<1>1. /\ bs \in Block /\ bs = heap_get_start_block(before, total)
      /\ total \in Nat \ {0} /\ total' = total /\ end_block' = end_block
      /\ entries = before
    BY <1>0, ScanResult, CallFacts DEF total, end_block, Inv, ScanRangeInv
<1>2. TypeOK'
    BY <1>1 DEF Inv, TypeOK, Flag
<1>3. LiveInv' /\ CallInv'
    BY <1>0 DEF Inv, LiveInv, CallInv
<1>4. FoundInv'
    BY <1>1 DEF FoundInv
<1>5. MarkInv'
    BY <1>1 DEF MarkInv, Mark, end_block
<1> QED
    BY <1>2, <1>3, <1>4, <1>5 DEF Inv, ScanInv, ScanRangeInv, WalkInv

LEMMA MarkBlockStep ==
    ASSUME Inv, MarkBlock
    PROVE  Inv'
<1> USE TableFacts DEF MarkBlock
<1>1. /\ bs \in Block /\ i \in bs .. end_block + 1 /\ total \in Nat \ {0}
      /\ entry = Mark(i) \/ i = end_block + 1
      /\ \A b \in Block : entries[b] = IF b \in bs .. i - 1 THEN Mark(b) ELSE before[b]
    BY CallFacts DEF Inv, FoundInv, MarkInv
<1>2. /\ total' = total /\ end_block' = end_block /\ end_block = (bs + total) - 1
      /\ \A b : Mark(b)' = Mark(b)
    BY DEF total, end_block, Mark
<1>3. entry = Mark(i) /\ i \in Nat
    BY <1>1, <1>2
<1>4. TypeOK'
    BY <1>3 DEF Inv, TypeOK, Table, Flag
<1>5. LiveInv' /\ CallInv' /\ FoundInv'
    BY <1>2 DEF Inv, LiveInv, CallInv, FoundInv
<1>6. MarkInv'
  <2>1. i' \in bs .. end_block + 1
      BY <1>1, <1>2
  <2>2. entry' = Mark(i') \/ i' = end_block + 1
      BY <1>1, <1>2 DEF Mark
  <2>3. ASSUME NEW b \in Block
        PROVE  entries'[b] = IF b \in bs .. i' - 1 THEN Mark(b) ELSE before[b]
    <3>1. entries'[b] = IF b = i THEN Mark(i) ELSE entries[b]
        BY <1>3 DEF Inv, TypeOK, Table
    <3>2. b \in bs .. i' - 1 <=> b \in bs .. i - 1 \/ b = i
        BY <1>1, <1>2
    <3> HIDE DEF MarkBlock
    <3> QED  BY <1>1, <3>1, <3>2
  <2> QED  BY <1>2, <2>1, <2>2, <2>3 DEF MarkInv
<1> QED
    BY <1>4, <1>5, <1>6 DEF Inv, ScanInv, ScanRangeInv, WalkInv

\* The marking loop has written what heap_mark_blocks_taken is to write.
LEMMA MarkResult ==
    ASSUME Inv, pc = "mark", i > end_block
    PROVE  entries = heap_mark_blocks_taken(before, heap_get_start_block(before, total), total)
<1> USE TableFacts
<1>1. /\ bs \in Block /\ i \in bs .. end_block + 1 /\ total \in Nat \ {0}
      /\ bs = heap_get_start_block(before, total)
      /\ \A b \in Block : entries[b] = IF b \in bs .. i - 1 THEN Mark(b) ELSE before[b]
    BY CallFacts DEF Inv, FoundInv, MarkInv
<1>2. i - 1 = bs + total - 1 /\ end_block = bs + total - 1
    BY <1>1 DEF end_block
<1>3. \A b \in Block : entries[b] = heap_mark_blocks_taken(before, bs, total)[b]
    BY <1>1, <1>2 DEF heap_mark_blocks_taken, Mark
<1>4. entries \in [Block -> SUBSET Flag]
    BY DEF Inv, TypeOK, Table
<1>5. heap_mark_blocks_taken(before, bs, total) = [b \in Block |-> heap_mark_blocks_taken(before, bs, total)[b]]
    BY DEF heap_mark_blocks_taken
<1> QED  BY <1>1, <1>3, <1>4, <1>5

LEMMA MarkDoneStep ==
    ASSUME Inv, MarkDone
    PROVE  Inv'
<1>1. bs \in Block
    BY DEF MarkDone, Inv, FoundInv
<1>2. LiveInv'
    BY <1>1 DEF MarkDone, Inv, LiveInv
<1>3. entries' \in Table
    BY DEF MarkDone, Inv, TypeOK
<1> QED  BY <1>2, <1>3, ReturnStep DEF MarkDone

LEMMA FreeStep ==
    ASSUME Inv, NEW a \in live, heap_free(a)
    PROVE  Inv'
<1> USE TableFacts DEF heap_free
<1>1. PICK b \in Block : a.ptr = heap_block_to_address(b)
    BY DEF Inv, LiveInv
<1>2. heap_address_to_block(a.ptr) = b /\ b \in Nat
    BY <1>1, AddressRoundTrip
<1>3. TypeOK'
    BY <1>2 DEF Inv, TypeOK
<1>4. LiveInv' /\ CallInv'
    BY DEF Inv, LiveInv, CallInv
<1>5. WalkInv'
    BY <1>2 DEF WalkInv, FreeStart
<1> QED
    BY <1>3, <1>4, <1>5 DEF Inv, ScanInv, ScanRangeInv, FoundInv, MarkInv

LEMMA FreeBlockStep ==
    ASSUME Inv, FreeBlock
    PROVE  Inv'
<1> USE TableFacts DEF FreeBlock
<1>1. /\ FreeStart \in Block /\ i >= FreeStart /\ i \in Nat
      /\ \A b \in FreeStart .. i - 1 : "HAS_NEXT" \in before[b]
      /\ \A b \in Block : entries[b] = IF b \in FreeStart .. i - 1 THEN FREE ELSE before[b]
    BY DEF Inv, WalkInv, TypeOK
<1>2. i \in Block /\ entries[i] = before[i] /\ entries' \in Table
    BY <1>1 DEF Inv, TypeOK, Table, FREE
<1>3. CASE "HAS_NEXT" \in entries[i]
  <2> USE <1>3
  <2>1. FreeStart' = FreeStart
      BY DEF FreeStart
  <2>2. TypeOK'
      BY <1>1, <1>2 DEF Inv, TypeOK
  <2>3. LiveInv' /\ CallInv'
      BY DEF Inv, LiveInv, CallInv
  <2>4. WalkInv'
    <3>1. ASSUME NEW b \in Block
          PROVE  entries'[b] = IF b \in FreeStart .. i' - 1 THEN FREE ELSE before[b]
      <4>1. entries'[b] = IF b = i THEN FREE ELSE entries[b]
          BY DEF Inv, TypeOK, Table
      <4>2. b \in FreeStart .. i' - 1 <=> b \in FreeStart .. i - 1 \/ b = i
          BY <1>1
      <4> HIDE DEF FreeBlock
      <4> QED  BY <1>1, <4>1, <4>2
    <3>2. \A b \in FreeStart .. i' - 1 : b \in FreeStart .. i - 1 \/ b = i
        BY <1>1
    <3> QED  BY <1>1, <1>2, <2>1, <3>1, <3>2 DEF WalkInv
  <2> QED
      BY <2>2, <2>3, <2>4 DEF Inv, ScanInv, ScanRangeInv, FoundInv, MarkInv
<1>4. CASE "HAS_NEXT" \notin entries[i]
  <2>1. LiveInv'
      BY <1>4 DEF Inv, LiveInv
  <2> QED  BY <1>2, <1>4, <2>1, ReturnStep
<1> QED  BY <1>3, <1>4

LEMMA FreeDoneStep ==
    ASSUME Inv, FreeDone
    PROVE  Inv'
<1>1. LiveInv'
    BY DEF FreeDone, Inv, LiveInv
<1>2. entries' \in Table
    BY DEF FreeDone, Inv, TypeOK
<1> QED  BY <1>1, <1>2, ReturnStep DEF FreeDone

LEMMA ScanFailsStep ==
    ASSUME Inv, ScanFails
    PROVE  Inv'
<1>1. LiveInv' /\ entries' \in Table
    BY DEF ScanFails, Inv, LiveInv, TypeOK
<1> QED  BY <1>1, ReturnStep DEF ScanFails

LEMMA NextInv == Inv /\ [Next]_vars => Inv'
<1> SUFFICES ASSUME Inv, [Next]_vars PROVE Inv'
    OBVIOUS
<1>1. ASSUME NEW size \in Requests, heap_malloc(size) PROVE Inv'
    BY <1>1, MallocStep
<1>2. ASSUME NEW a \in live, heap_free(a) PROVE Inv'
    BY <1>2, FreeStep
<1>3. CASE Step
    BY <1>3, ScanTakenStep, ScanFreeStep, ScanFailsStep, ScanSucceedsStep, MarkBlockStep,
       MarkDoneStep, FreeBlockStep, FreeDoneStep DEF Step
<1>4. CASE UNCHANGED vars
    BY <1>4 DEF vars, Inv, TypeOK, LiveInv, CallInv, ScanInv, ScanRangeInv, FoundInv, MarkInv,
                WalkInv, Mark, FreeStart, total, end_block
<1> QED  BY <1>1, <1>2, <1>3, <1>4 DEF Next

\* The inductive invariant holds in every state of the loops.
THEOREM InvHolds == Spec => []Inv
  BY InitInv, NextInv, PTL DEF Spec

\* The locals of the loops index the table: no loop of heap.c leaves it, except
\* that heap_mark_blocks_taken writes behind its end.
THEOREM TypeCorrect == Spec => []TypeOK
<1>1. Inv => TypeOK
    BY DEF Inv
<1> QED  BY <1>1, InvHolds, PTL

\* The scan of heap_get_start_block has counted exactly the free run before it
\* and has not passed one that is long enough.
THEOREM ScanExact == Spec => []ScanInv
<1>1. Inv => ScanInv
    BY DEF Inv
<1> QED  BY <1>1, InvHolds, PTL

-----------------------------------------------------------------------------
(* The loops implement the heap whose calls are single steps *)

\* The walk has cleared what heap_mark_blocks_free is to clear: it stops at the
\* first block without HAS_NEXT, or at the end of the table.
LEMMA WalkResult ==
    ASSUME Inv, pc = "free",
           (FreeBlock /\ "HAS_NEXT" \notin entries[i]) \/ FreeDone
    PROVE  entries' = heap_mark_blocks_free(before, FreeStart)
<1> USE TableFacts
<1>1. /\ FreeStart \in Block /\ i >= FreeStart /\ i \in Nat /\ i <= Total
      /\ \A b \in FreeStart .. i - 1 : "HAS_NEXT" \in before[b]
      /\ \A b \in Block : entries[b] = IF b \in FreeStart .. i - 1 THEN FREE ELSE before[b]
      /\ entries \in [Block -> SUBSET Flag]
    BY DEF Inv, WalkInv, TypeOK, Table
<1>2. CASE FreeBlock /\ "HAS_NEXT" \notin entries[i]
  <2>1. i \in Block /\ "HAS_NEXT" \notin before[i] /\ entries' = [entries EXCEPT ![i] = FREE]
      BY <1>1, <1>2 DEF FreeBlock
  <2>2. \A b \in Block : b \in Chain(before, FreeStart) <=> b \in FreeStart .. i
      BY <1>1, <2>1 DEF Chain
  <2>3. ASSUME NEW b \in Block
        PROVE  entries'[b] = IF b \in Chain(before, FreeStart) THEN FREE ELSE before[b]
    <3>1. b \in FreeStart .. i <=> b \in FreeStart .. i - 1 \/ b = i
        BY <1>1, <2>1
    <3> QED  BY <1>1, <2>1, <2>2, <3>1
  <2> QED  BY <1>1, <2>1, <2>3 DEF heap_mark_blocks_free
<1>3. CASE FreeDone
  <2>1. i = Total /\ entries' = entries
      BY <1>1, <1>3 DEF FreeDone
  <2>2. \A b \in Block : b \in Chain(before, FreeStart) <=> b \in FreeStart .. i - 1
      BY <1>1, <2>1 DEF Chain
  <2> QED  BY <1>1, <2>1, <2>2 DEF heap_mark_blocks_free
<1> QED  BY <1>2, <1>3

\* What the call-level heap sees of the table.
Seen == IF pc = "idle" THEN entries ELSE before

\* The call-level heap computes with the same functions over the table.
LEMMA SameFunctions ==
    /\ Calls!Requests = Requests
    /\ \A size : Calls!total_blocks(size) = total_blocks(size)
    /\ \A b : Calls!heap_block_to_address(b) = heap_block_to_address(b)
    /\ \A p : Calls!heap_address_to_block(p) = heap_address_to_block(p)
    /\ \A t, n : Calls!heap_get_start_block(t, n) = heap_get_start_block(t, n)
    /\ \A t, b, n : Calls!heap_mark_blocks_taken(t, b, n) = heap_mark_blocks_taken(t, b, n)
    /\ \A t, b : Calls!heap_mark_blocks_free(t, b) = heap_mark_blocks_free(t, b)
<1>1. Calls!Requests = Requests
    BY DEF Requests, Calls!Requests
<1>2. \A size : Calls!total_blocks(size) = total_blocks(size)
    BY DEF total_blocks, Calls!total_blocks,
           heap_align_value_to_upper, Calls!heap_align_value_to_upper
<1>3. \A b : Calls!heap_block_to_address(b) = heap_block_to_address(b)
    BY DEF heap_block_to_address, Calls!heap_block_to_address
<1>4. \A p : Calls!heap_address_to_block(p) = heap_address_to_block(p)
    BY DEF heap_address_to_block, Calls!heap_address_to_block
<1>5. \A t, n : Calls!heap_get_start_block(t, n) = heap_get_start_block(t, n)
    BY DEF heap_get_start_block, Calls!heap_get_start_block, LeastOf, Calls!LeastOf,
           FittingStarts, Calls!FittingStarts, TrailingStarts, Calls!TrailingStarts,
           IsFreeRun, Calls!IsFreeRun, IsFree, Calls!IsFree, Block, Calls!Block,
           ENOMEM, Calls!ENOMEM
<1>6. \A t, b, n : Calls!heap_mark_blocks_taken(t, b, n) = heap_mark_blocks_taken(t, b, n)
    BY DEF heap_mark_blocks_taken, Calls!heap_mark_blocks_taken, Block, Calls!Block
<1>7. \A t, b : Calls!heap_mark_blocks_free(t, b) = heap_mark_blocks_free(t, b)
    BY DEF heap_mark_blocks_free, Calls!heap_mark_blocks_free, Chain, Calls!Chain,
           FREE, Calls!FREE, Block, Calls!Block
<1> QED  BY <1>1, <1>2, <1>3, <1>4, <1>5, <1>6, <1>7

\* Nothing is seen of a call that has not returned.
LEMMA HiddenStep ==
    ASSUME pc' # "idle", before' = Seen, live' = live
    PROVE  UNCHANGED Calls!vars
  BY DEF Seen, Calls!vars

\* A heap_malloc that returns was a kmalloc.
LEMMA MallocReturns ==
    ASSUME Inv, ScanFails \/ MarkDone
    PROVE  Calls!Next \/ UNCHANGED Calls!vars
<1> DEFINE start == heap_get_start_block(before, total)
<1>1. CASE ScanFails
    BY <1>1 DEF ScanFails, ScanDone, Return, Calls!vars, Inv, ScanRangeInv
<1>2. CASE MarkDone
  <2>1. /\ pc = "mark" /\ pc' = "idle" /\ entries' = entries
        /\ call.size \in Requests /\ bs = start /\ bs \in Nat
      BY <1>2, CallFacts, TableFacts DEF MarkDone, Return, Inv, FoundInv
  <2>2. entries' = heap_mark_blocks_taken(before, start, total)
      BY <1>2, <2>1, MarkResult DEF MarkDone
  <2>3. live' = live \cup {[ptr |-> heap_block_to_address(start), len |-> total, size |-> call.size]}
      BY <1>2, <2>1 DEF MarkDone
  <2>4. ~ (start < 0)
      BY <2>1
  <2> HIDE DEF start
  <2>5. Calls!heap_malloc_blocks(total, call.size)
      BY <2>1, <2>2, <2>3, <2>4, SameFunctions DEF Calls!heap_malloc_blocks, start
  <2>6. Calls!kmalloc(call.size)
      BY <2>5, SameFunctions DEF Calls!kmalloc, total
  <2> QED  BY <2>1, <2>6, SameFunctions DEF Calls!Next
<1> QED  BY <1>1, <1>2

\* A heap_free that returns was a kfree.
LEMMA FreeReturns ==
    ASSUME Inv, (FreeBlock /\ "HAS_NEXT" \notin entries[i]) \/ FreeDone
    PROVE  Calls!Next
<1>1. /\ pc = "free" /\ pc' = "idle" /\ call \in live /\ live' = live \ {call}
    BY DEF FreeBlock, FreeDone, Return, Inv, CallInv
<1>2. entries' = heap_mark_blocks_free(before, heap_address_to_block(call.ptr))
    BY <1>1, WalkResult DEF FreeStart
<1>3. Calls!kfree(call)
    BY <1>1, <1>2, SameFunctions DEF Calls!kfree
<1> QED  BY <1>1, <1>3 DEF Calls!Next

\* The loops of heap.c implement the heap in which a call is a single step: what a
\* caller gets, and what the table says between two calls, is what HeapTable says.
THEOREM ImplementsHeap == Spec => HeapSpec
<1>1. Init => Calls!Init
    BY DEF Init, Calls!Init, Calls!kheap_init, Calls!Block, Block, Calls!FREE, FREE
<1>2. Inv /\ [Next]_vars => [Calls!Next]_(Calls!vars)
  <2> SUFFICES ASSUME Inv, [Next]_vars
               PROVE  Calls!Next \/ UNCHANGED Calls!vars
      OBVIOUS
  <2>1. ASSUME NEW size \in Requests, heap_malloc(size)
        PROVE  UNCHANGED Calls!vars
      BY <2>1, HiddenStep DEF heap_malloc, Seen
  <2>2. ASSUME NEW a \in live, heap_free(a)
        PROVE  UNCHANGED Calls!vars
      BY <2>2, HiddenStep DEF heap_free, Seen
  <2>3. CASE ScanTaken \/ ScanFree \/ ScanSucceeds \/ MarkBlock
      BY <2>3, HiddenStep DEF ScanTaken, ScanFree, ScanSucceeds, ScanDone, MarkBlock, Seen
  <2>4. CASE ScanFails \/ MarkDone
      BY <2>4, MallocReturns
  <2>5. CASE FreeBlock /\ "HAS_NEXT" \in entries[i]
      BY <2>5, HiddenStep DEF FreeBlock, Seen
  <2>6. CASE (FreeBlock /\ "HAS_NEXT" \notin entries[i]) \/ FreeDone
      BY <2>6, FreeReturns
  <2>7. CASE UNCHANGED vars
      BY <2>7 DEF vars, Calls!vars
  <2> QED  BY <2>1, <2>2, <2>3, <2>4, <2>5, <2>6, <2>7 DEF Next, Step
<1> QED
    BY <1>1, <1>2, InvHolds, PTL DEF Spec, HeapSpec, Calls!Spec
=============================================================================
