----------------------------- MODULE HeapProofs -----------------------------
(***************************************************************************)
(* Proofs about the kernel heap for every pool, block and request size.    *)
(***************************************************************************)
EXTENDS Heap, WellFoundedInduction, TLAPS

\* The least element that the searches of heap.c return exists.
LEMMA LeastOfProperty ==
    ASSUME NEW S, S \subseteq Nat, S # {}
    PROVE  LeastOf(S) \in S /\ \A y \in S : LeastOf(S) <= y
<1> DEFINE R == OpToRel(<, Nat)
<1>1. IsWellFoundedOn(R, Nat)
    BY NatLessThanWellFounded
<1>2. \E x \in S : \A y \in S : ~ (<<y, x>> \in R)
  <2> HIDE DEF R
  <2> QED  BY <1>1, WFMin
<1>3. PICK x \in S : \A y \in S : ~ (<<y, x>> \in R)
    BY <1>2
<1>4. \A y \in S : x <= y
  <2>1. SUFFICES ASSUME NEW y \in S, y < x PROVE FALSE
      OBVIOUS
  <2>2. <<y, x>> \in R
      BY <2>1 DEF OpToRel
  <2> QED
      BY <1>3, <2>2
<1> QED
    BY <1>4 DEF LeastOf

\* heap_address_to_block undoes heap_block_to_address.
LEMMA AddressRoundTrip ==
    ASSUME NEW b \in Nat
    PROVE  heap_address_to_block(heap_block_to_address(b)) = b
<1>1. BlockSize \in Nat \ {0} /\ HeapAddr \in Nat
    BY TableAssumption
<1>2. (b * BlockSize) \div BlockSize = b
    BY <1>1
<1>3. (HeapAddr + b * BlockSize) - HeapAddr = b * BlockSize
    BY <1>1
<1> QED
    BY <1>2, <1>3 DEF heap_address_to_block, heap_block_to_address

\* heap_block_to_address is a non-null pointer.
LEMMA AddressType ==
    ASSUME NEW b \in Nat
    PROVE  heap_block_to_address(b) \in Nat \ {0}
<1>1. b * BlockSize \in Nat
    BY TableAssumption
<1> QED
    BY <1>1, TableAssumption DEF heap_block_to_address

\* A request is rounded up to at least one block, and the blocks cover it.
LEMMA RoundUp ==
    ASSUME NEW size \in Requests
    PROVE  /\ size \in Nat \ {0}
           /\ total_blocks(size) \in Nat \ {0}
           /\ size <= total_blocks(size) * BlockSize
<1> DEFINE r == size % BlockSize
           q == size \div BlockSize
<1>1. BlockSize \in Nat \ {0} /\ Word \in Nat \ {0} /\ size \in Nat \ {0} /\ size <= Word - BlockSize
    BY TableAssumption DEF Requests
<1>2. q \in Nat /\ r \in 0 .. BlockSize - 1 /\ size = BlockSize * q + r
    BY <1>1
<1> HIDE DEF q, r
<1>3. CASE r = 0
  <2>1. total_blocks(size) = q
      BY <1>3 DEF total_blocks, heap_align_value_to_upper, q, r
  <2>2. q # 0
      BY <1>1, <1>2, <1>3
  <2>3. q * BlockSize = size
      BY <1>1, <1>2, <1>3
  <2> QED
      BY <1>1, <1>2, <2>1, <2>2, <2>3
<1>4. CASE r # 0
  <2>1. (size - r) + BlockSize = BlockSize * (q + 1)
      BY <1>1, <1>2
  <2>2. (size - r) + BlockSize \in 0 .. Word - 1
      BY <1>1, <1>2, <1>4
  <2>3. ((size - r) + BlockSize) % Word = (size - r) + BlockSize
      BY <1>1, <2>2
  <2>4. heap_align_value_to_upper(size) = BlockSize * (q + 1)
      BY <1>4, <2>1, <2>3 DEF heap_align_value_to_upper, r
  <2>5. (BlockSize * (q + 1)) \div BlockSize = q + 1
      BY <1>1, <1>2
  <2>6. total_blocks(size) = q + 1
      BY <2>4, <2>5 DEF total_blocks
  <2>7. size <= (q + 1) * BlockSize
      BY <1>1, <1>2
  <2> QED
      BY <1>1, <1>2, <2>6, <2>7
<1> QED
    BY <1>3, <1>4

-----------------------------------------------------------------------------

\* What heap_get_start_block returns: -ENOMEM, or a block from which the
\* blocks asked for are free as far as the table goes; if it goes less far
\* than that, the last block of the table is one of them.
LEMMA StartBlock ==
    ASSUME NEW table \in Table, NEW n \in Nat \ {0},
           NEW s, s = heap_get_start_block(table, n), ~ (s < 0)
    PROVE  /\ s \in Block
           /\ \A i \in Block : i \in s .. s + n - 1 => IsFree(table, i)
           /\ s + n > Total => IsFree(table, Total - 1)
<1> DEFINE F == FittingStarts(table, n)
           T == TrailingStarts(table)
<1>0. Total \in Nat \ {0} /\ Block \subseteq Nat
    BY TableAssumption DEF Block
<1>1. CASE F # {}
  <2>1. s \in F
    <3>1. F \subseteq Nat
        BY <1>0 DEF FittingStarts
    <3>2. s = LeastOf(F)
        BY <1>1 DEF heap_get_start_block
    <3> QED  BY <1>1, <3>1, <3>2, LeastOfProperty
  <2>2. s \in Block /\ IsFreeRun(table, s, n)
      BY <2>1 DEF FittingStarts
  <2> QED
      BY <1>0, <2>2 DEF IsFreeRun, Block
<1>2. CASE F = {} /\ T # {}
  <2>1. s \in T
    <3>1. T \subseteq Nat
        BY <1>0 DEF TrailingStarts
    <3>2. s = LeastOf(T)
        BY <1>2 DEF heap_get_start_block
    <3> QED  BY <1>2, <3>1, <3>2, LeastOfProperty
  <2>2. s \in Block /\ IsFreeRun(table, s, Total - s)
      BY <2>1 DEF TrailingStarts
  <2>3. \A i \in s .. Total - 1 : IsFree(table, i)
      BY <1>0, <2>2 DEF IsFreeRun, Block
  <2> QED
      BY <1>0, <2>2, <2>3 DEF Block
<1>3. CASE F = {} /\ T = {}
    BY <1>3 DEF heap_get_start_block, ENOMEM
<1> QED
    BY <1>1, <1>2, <1>3

\* The inductive invariant.  NoOverlap alone is not inductive: a free clears
\* the blocks that the flags chain together, so it keeps allocations apart
\* only because the flags of each one end where it ends.
Inv == TypeOK /\ NoOverlap /\ TableMatchesLive

\* An allocation that a caller holds starts in the table.
LEMMA LiveStart ==
    ASSUME TypeOK, NEW a \in live
    PROVE  /\ Start(a) \in Block
           /\ a.len \in Nat \ {0}
<1>1. PICK b \in Block : a.ptr = heap_block_to_address(b)
    BY DEF TypeOK
<1>2. Start(a) = b
    BY <1>1, AddressRoundTrip, TableAssumption DEF Start, Block
<1> QED
    BY <1>2 DEF TypeOK

LEMMA InitInv == Init => Inv
  BY DEF Init, kheap_init, Inv, TypeOK, NoOverlap, TableMatchesLive, Table, FREE

\* heap_malloc_blocks keeps the invariant.
LEMMA MallocInv ==
    ASSUME Inv, NEW size \in Nat, NEW n \in Nat \ {0},
           heap_malloc_blocks(n, size)
    PROVE  Inv'
<1> DEFINE s == heap_get_start_block(entries, n)
           new == [ptr |-> heap_block_to_address(s), len |-> n, size |-> size]
<1>0. Total \in Nat \ {0}
    BY TableAssumption
<1>1. CASE s < 0
    BY <1>1 DEF heap_malloc_blocks, Inv, vars, TypeOK, NoOverlap,
                TableMatchesLive, Extent, Start
<1>2. CASE ~ (s < 0)
  <2>1. /\ s \in Block
        /\ \A i \in Block : i \in s .. s + n - 1 => IsFree(entries, i)
        /\ s + n > Total => IsFree(entries, Total - 1)
      BY <1>2, StartBlock DEF Inv, TypeOK
  <2>2. /\ entries' = heap_mark_blocks_taken(entries, s, n)
        /\ live' = live \cup {new}
      BY <1>2 DEF heap_malloc_blocks
  <2>3. s \in Nat
      BY <2>1, <1>0 DEF Block
  <2> HIDE DEF s
  <2>4. Start(new) = s /\ new.len = n
      BY <2>3, AddressRoundTrip DEF Start
  <2>5. \A a \in live : Start(a) \in Block /\ a.len \in Nat \ {0}
      BY LiveStart DEF Inv
  <2>6. TypeOK'
    <3>1. entries' \in Table
        BY <2>2 DEF heap_mark_blocks_taken, Table, Flag, Inv, TypeOK
    <3>2. new \in [ptr : Nat, len : Nat \ {0}, size : Nat]
        BY <2>3, AddressType
    <3> HIDE DEF new
    <3>3. live' \subseteq [ptr : Nat, len : Nat \ {0}, size : Nat]
        BY <2>2, <3>2 DEF Inv, TypeOK
    <3>4. \A a \in live' : \E b \in Block : a.ptr = heap_block_to_address(b)
        BY <2>1, <2>2 DEF Inv, TypeOK, new
    <3> QED  BY <3>1, <3>3, <3>4 DEF TypeOK
  <2> HIDE DEF new
  <2>7. \A a \in live : Extent(a) \cap Extent(new) = {}
    <3>1. SUFFICES ASSUME NEW a \in live, NEW i \in Extent(a) \cap Extent(new)
                   PROVE  FALSE
        OBVIOUS
    <3>2. i \in s .. s + n - 1
        BY <2>4, <3>1 DEF Extent
    <3>3. i \in Start(a) .. Start(a) + a.len - 1
        BY <3>1 DEF Extent
    <3>4. CASE i \in Block
        BY <2>1, <3>1, <3>2, <3>4 DEF Inv, TableMatchesLive, IsFree
    <3>5. CASE i \notin Block
      <4>1. i >= Total
          BY <1>0, <2>3, <3>2, <3>5 DEF Block
      <4>2. Total - 1 \in Extent(a) /\ Total - 1 \in Block
          BY <1>0, <2>5, <3>3, <4>1 DEF Extent, Block
      <4>3. s + n > Total
          BY <1>0, <2>3, <3>2, <4>1
      <4> QED
          BY <2>1, <4>2, <4>3 DEF Inv, TableMatchesLive, IsFree
    <3> QED  BY <3>4, <3>5
  <2>8. NoOverlap'
      BY <2>2, <2>7 DEF Inv, NoOverlap, Extent, Start
  <2>9. TableMatchesLive'
    <3>1. SUFFICES ASSUME NEW i \in Block
          PROVE /\ entries'[i] # FREE => \E a \in live' : i \in Extent(a)
                /\ \A a \in live' : i \in Extent(a) =>
                    /\ "TAKEN" \in entries'[i]
                    /\ "IS_FIRST" \in entries'[i] <=> i = Start(a)
                    /\ "HAS_NEXT" \in entries'[i] <=> i # Start(a) + a.len - 1
        BY DEF TableMatchesLive, Extent, Start
    <3>2. CASE i \in s .. s + n - 1
      <4>1. entries'[i] = {"TAKEN"}
                \cup (IF i = s THEN {"IS_FIRST"} ELSE {})
                \cup (IF i # s + n - 1 THEN {"HAS_NEXT"} ELSE {})
          BY <2>2, <3>2 DEF heap_mark_blocks_taken
      <4>2. i \in Extent(new) /\ new \in live'
          BY <2>2, <2>4, <3>2 DEF Extent
      <4>3. \A a \in live' : i \in Extent(a) => a = new
          BY <2>2, <2>7, <4>2
      <4>4. /\ "TAKEN" \in entries'[i]
            /\ "IS_FIRST" \in entries'[i] <=> i = Start(new)
            /\ "HAS_NEXT" \in entries'[i] <=> i # Start(new) + new.len - 1
          BY <2>4, <4>1
      <4> QED
          BY <4>2, <4>3, <4>4
    <3>3. CASE i \notin s .. s + n - 1
      <4>1. entries'[i] = entries[i]
          BY <2>2, <3>3 DEF heap_mark_blocks_taken
      <4>2. i \notin Extent(new)
          BY <2>4, <3>3 DEF Extent
      <4> QED
          BY <2>2, <4>1, <4>2 DEF Inv, TableMatchesLive
    <3> QED  BY <3>2, <3>3
  <2> QED  BY <2>6, <2>8, <2>9 DEF Inv
<1> QED  BY <1>1, <1>2

\* kfree keeps the invariant: the walk visits the blocks of the allocation.
LEMMA FreeInv ==
    ASSUME Inv, NEW a \in live, kfree(a)
    PROVE  Inv'
<1> DEFINE s == Start(a)
           last == s + a.len - 1
<1>0. Total \in Nat \ {0} /\ s \in Block /\ s \in Nat /\ a.len \in Nat \ {0}
    BY TableAssumption, LiveStart DEF Inv, Block
<1>1. entries' = heap_mark_blocks_free(entries, s) /\ live' = live \ {a}
    BY DEF kfree, Start
<1>2. \A i \in Block : i \in Chain(entries, s) <=> i \in Extent(a)
  <2>1. ASSUME NEW i \in Block, i \in Extent(a)
        PROVE  i \in Chain(entries, s)
    <3>1. i \in s .. last
        BY <2>1 DEF Extent
    <3>2. ASSUME NEW j \in s .. i - 1
          PROVE  "HAS_NEXT" \in entries[j]
      <4>1. j \in Block /\ j \in Extent(a) /\ j # last
          BY <1>0, <3>1, <3>2 DEF Block, Extent
      <4> QED  BY <4>1 DEF Inv, TableMatchesLive
    <3> QED  BY <1>0, <3>1, <3>2 DEF Chain
  <2>2. ASSUME NEW i \in Block, i \in Chain(entries, s), i \notin Extent(a)
        PROVE  FALSE
    <3>1. i >= s /\ \A j \in s .. i - 1 : "HAS_NEXT" \in entries[j]
        BY <2>2 DEF Chain
    <3>2. last \in s .. i - 1 /\ last \in Block /\ last \in Extent(a)
        BY <1>0, <2>2, <3>1 DEF Block, Extent
    <3> QED  BY <3>1, <3>2 DEF Inv, TableMatchesLive
  <2> QED  BY <2>1, <2>2
<1> HIDE DEF s, last
<1>3. TypeOK'
  <2>1. entries' \in Table
      BY <1>1 DEF heap_mark_blocks_free, Table, FREE, Inv, TypeOK
  <2> QED  BY <1>1, <2>1 DEF Inv, TypeOK
<1>4. NoOverlap'
    BY <1>1 DEF Inv, NoOverlap, Extent, Start
<1>5. TableMatchesLive'
  <2>1. SUFFICES ASSUME NEW i \in Block
        PROVE /\ entries'[i] # FREE => \E b \in live' : i \in Extent(b)
              /\ \A b \in live' : i \in Extent(b) =>
                  /\ "TAKEN" \in entries'[i]
                  /\ "IS_FIRST" \in entries'[i] <=> i = Start(b)
                  /\ "HAS_NEXT" \in entries'[i] <=> i # Start(b) + b.len - 1
      BY DEF TableMatchesLive, Extent, Start
  <2>2. CASE i \in Extent(a)
    <3>1. entries'[i] = FREE
        BY <1>1, <1>2, <2>2 DEF heap_mark_blocks_free
    <3>2. \A b \in live' : i \notin Extent(b)
        BY <1>1, <2>2 DEF Inv, NoOverlap
    <3> QED  BY <3>1, <3>2
  <2>3. CASE i \notin Extent(a)
    <3>1. entries'[i] = entries[i]
        BY <1>1, <1>2, <2>3 DEF heap_mark_blocks_free
    <3> QED  BY <1>1, <2>3, <3>1 DEF Inv, TableMatchesLive
  <2> QED  BY <2>2, <2>3
<1> QED  BY <1>3, <1>4, <1>5 DEF Inv

LEMMA NextInv == Inv /\ [Next]_vars => Inv'
<1> SUFFICES ASSUME Inv, [Next]_vars PROVE Inv'
    OBVIOUS
<1>1. ASSUME NEW size \in Requests, kmalloc(size) \/ kzalloc(size)
      PROVE  Inv'
  <2>1. heap_malloc_blocks(total_blocks(size), size)
      BY <1>1 DEF kmalloc, kzalloc
  <2> QED  BY <2>1, RoundUp, MallocInv
<1>2. ASSUME NEW a \in live, kfree(a)
      PROVE  Inv'
    BY <1>2, FreeInv
<1>3. CASE UNCHANGED vars
    BY <1>3 DEF vars, Inv, TypeOK, NoOverlap, TableMatchesLive, Extent, Start
<1> QED  BY <1>1, <1>2, <1>3 DEF Next

\* The inductive invariant holds in every reachable state of the heap.
THEOREM InvHolds == Spec => []Inv
  BY InitInv, NextInv, PTL DEF Spec

\* heap.c keeps its table well-typed and hands out blocks of the table.
THEOREM TypeCorrect == Spec => []TypeOK
<1>1. Inv => TypeOK
    BY DEF Inv
<1> QED  BY <1>1, InvHolds, PTL

\* kmalloc never hands out a block that a caller holds, for every pool, block
\* size and sequence of kmalloc, kzalloc and kfree.
THEOREM AllocationsDisjoint == Spec => []NoOverlap
<1>1. Inv => NoOverlap
    BY DEF Inv
<1> QED  BY <1>1, InvHolds, PTL

\* The flags of the table describe what the callers hold, entry by entry.
THEOREM TableExact == Spec => []TableMatchesLive
<1>1. Inv => TableMatchesLive
    BY DEF Inv
<1> QED  BY <1>1, InvHolds, PTL

-----------------------------------------------------------------------------
\* The blocks of every allocation cover the bytes asked for: the rounding of
\* heap_align_value_to_upper never loses any.
THEOREM RequestsCovered == Spec => []CoversRequest
<1>1. Init => CoversRequest
    BY DEF Init, kheap_init, CoversRequest
<1>2. CoversRequest /\ [Next]_vars => CoversRequest'
  <2> SUFFICES ASSUME CoversRequest, [Next]_vars PROVE CoversRequest'
      OBVIOUS
  <2>1. ASSUME NEW size \in Requests, kmalloc(size) \/ kzalloc(size)
        PROVE  CoversRequest'
    <3> DEFINE n == total_blocks(size)
               p == heap_block_to_address(heap_get_start_block(entries, n))
    <3>1. size <= n * BlockSize
        BY RoundUp
    <3>2. live' = live \/ live' = live \cup {[ptr |-> p, len |-> n, size |-> size]}
        BY <2>1 DEF kmalloc, kzalloc, heap_malloc_blocks, vars
    <3> HIDE DEF n, p
    <3> QED  BY <3>1, <3>2 DEF CoversRequest
  <2>2. ASSUME NEW a \in live, kfree(a)
        PROVE  CoversRequest'
      BY <2>2 DEF kfree, CoversRequest
  <2>3. CASE UNCHANGED vars
      BY <2>3 DEF vars, CoversRequest
  <2> QED  BY <2>1, <2>2, <2>3 DEF Next
<1> QED  BY <1>1, <1>2, PTL DEF Spec

-----------------------------------------------------------------------------
\* The allocator's view of what the callers hold.
Held == {[start |-> Start(a), len |-> a.len] : a \in live}

\* A kmalloc is an Allocate of the abstract allocator, or nothing.
LEMMA MallocRefines ==
    ASSUME Inv, Inv', NEW size \in Nat, NEW n \in Nat \ {0},
           heap_malloc_blocks(n, size)
    PROVE  Abstract!Allocate \/ Held' = Held
<1> DEFINE s == heap_get_start_block(entries, n)
           new == [ptr |-> heap_block_to_address(s), len |-> n, size |-> size]
           h == [start |-> s, len |-> n]
<1>1. CASE s < 0
    BY <1>1 DEF heap_malloc_blocks, vars, Held, Start
<1>2. CASE ~ (s < 0)
  <2>1. live' = live \cup {new}
      BY <1>2 DEF heap_malloc_blocks
  <2>2. s \in Block /\ \A i \in Block : i \in s .. s + n - 1 => IsFree(entries, i)
      BY <1>2, StartBlock DEF Inv, TypeOK
  <2>3. s \in Nat
      BY <2>2, TableAssumption DEF Block
  <2> HIDE DEF s
  <2>4. Start(new) = s /\ new.len = n
      BY <2>3, AddressRoundTrip DEF Start
  <2>5. new \notin live
    <3>1. SUFFICES ASSUME new \in live PROVE FALSE
        OBVIOUS
    <3>2. s \in Extent(new)
        BY <2>3, <2>4 DEF Extent
    <3>3. "TAKEN" \in entries[s]
        BY <2>2, <3>1, <3>2 DEF Inv, TableMatchesLive
    <3>4. s \in s .. s + n - 1
        BY <2>3
    <3> QED  BY <2>2, <3>3, <3>4 DEF IsFree
  <2> HIDE DEF new
  <2>6. Held' = Held \cup {h}
      BY <2>1, <2>4 DEF Held, Start
  <2>7. \A b \in Held : (h.start .. h.start + h.len - 1)
                        \cap (b.start .. b.start + b.len - 1) = {}
    <3>1. SUFFICES ASSUME NEW a \in live
                   PROVE  Extent(new) \cap Extent(a) = {}
        BY <2>4 DEF Held, Extent
    <3>2. new \in live' /\ a \in live' /\ a # new
        BY <2>1, <2>5
    <3> QED  BY <3>2 DEF Inv, NoOverlap, Extent, Start
  <2>8. h \in [start : Nat, len : Nat \ {0}]
      BY <2>3
  <2> QED
      BY <2>6, <2>7, <2>8 DEF Abstract!Allocate, Abstract!Extent, Held
<1> QED  BY <1>1, <1>2

\* A kfree is a Release.
LEMMA FreeRefines ==
    ASSUME Inv, NEW a \in live, kfree(a)
    PROVE  Abstract!Release
<1> DEFINE h(b) == [start |-> Start(b), len |-> b.len]
<1>1. live' = live \ {a}
    BY DEF kfree
<1>2. ASSUME NEW b \in live, b # a
      PROVE  h(b) # h(a)
  <2>1. SUFFICES ASSUME Start(b) = Start(a) PROVE FALSE
      OBVIOUS
  <2>2. /\ Start(a) \in Nat /\ a.len \in Nat \ {0}
        /\ Start(b) \in Nat /\ b.len \in Nat \ {0}
      BY LiveStart, TableAssumption DEF Inv, Block
  <2>3. Start(a) \in Extent(a) \cap Extent(b)
      BY <2>1, <2>2 DEF Extent
  <2> QED  BY <1>2, <2>3 DEF Inv, NoOverlap
<1>3. Held' = Held \ {h(a)} /\ h(a) \in Held
    BY <1>1, <1>2 DEF Held, Start
<1> QED
    BY <1>3 DEF Abstract!Release, Held

\* The heap implements the abstract allocator: kmalloc hands out an interval
\* nobody holds or nothing at all, kfree takes back exactly what it is given.
THEOREM ImplementsAllocator == Spec => AllocatorSpec
<1>1. Init => Abstract!Init
    BY DEF Init, kheap_init, Abstract!Init
<1>2. Inv /\ Inv' /\ [Next]_vars => Abstract!Next \/ UNCHANGED Held
  <2> SUFFICES ASSUME Inv, Inv', [Next]_vars
               PROVE  Abstract!Next \/ UNCHANGED Held
      OBVIOUS
  <2>1. ASSUME NEW size \in Requests, kmalloc(size) \/ kzalloc(size)
        PROVE  Abstract!Next \/ UNCHANGED Held
    <3>1. heap_malloc_blocks(total_blocks(size), size)
        BY <2>1 DEF kmalloc, kzalloc
    <3> QED  BY <3>1, RoundUp, MallocRefines DEF Abstract!Next
  <2>2. ASSUME NEW a \in live, kfree(a)
        PROVE  Abstract!Next \/ UNCHANGED Held
      BY <2>2, FreeRefines DEF Abstract!Next
  <2>3. CASE UNCHANGED vars
      BY <2>3 DEF vars, Held, Start
  <2> QED  BY <2>1, <2>2, <2>3 DEF Next
<1>3. Inv /\ Inv' /\ [Next]_vars =>
        [Abstract!Next]_{[start |-> Start(a), len |-> a.len] : a \in live}
    BY <1>2 DEF Held
<1> QED
    BY <1>1, <1>3, InvHolds, PTL DEF Spec, AllocatorSpec, Abstract!Spec
=============================================================================
