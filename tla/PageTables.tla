----------------------------- MODULE PageTables -----------------------------
(***************************************************************************)
(* Page directories and tables as data, and the functions of               *)
(* src/src/memory/paging/paging.c over them.  A memory maps blocks to the  *)
(* words of a directory or a table; a directory is known by its block.     *)
(***************************************************************************)
EXTENDS Integers

CONSTANTS
    N,          \* PAGING_TOTAL_ENTRIES_PER_TABLE (1024)
    PageSize    \* PAGING_PAGE_SIZE (4096)

ASSUME PageTablesAssumption == N \in Nat \ {0} /\ PageSize \in Nat \ {0}

Space == N * N * PageSize       \* 2^32
Index == 0 .. N - 1
PAGING_IS_WRITEABLE == "W"

\* A word of a directory or a table: a block or page, and its flags.
Entry(base, flags) == [base |-> base, flags |-> flags]
Zeroed == [i \in Index |-> Entry(0, {})]

-----------------------------------------------------------------------------
(* Addresses *)

paging_is_aligned(addr) == addr % PageSize = 0

\* A plausible slip: the last index stands for the number of entries.
paging_get_indexes_LastIndex(virt) ==
    [directory |-> virt \div (N * PageSize),
     table |-> (virt \div PageSize) % (N - 1)]

paging_get_indexes(virt) ==
    [directory |-> virt \div (N * PageSize),
     table |-> (virt % (N * PageSize)) \div PageSize]

paging_align_address(addr) ==
    IF addr % PageSize # 0 THEN addr + PageSize - (addr % PageSize) ELSE addr

paging_align_to_lower_page(addr) == addr - (addr % PageSize)

-----------------------------------------------------------------------------
(* Reading and writing entries; m is the memory, d a directory *)

\* A plausible slip: the entry of the directory is written.
paging_set_InDirectory(m, d, virt, val) ==
    [m EXCEPT ![d][paging_get_indexes(virt).directory] = val]

paging_set(m, d, virt, val) ==
    LET at == paging_get_indexes(virt)
    IN  [m EXCEPT ![m[d][at.directory].base][at.table] = val]

\* The callers align the address, so the result of paging_get_indexes, which
\* the code ignores, is not an error.
paging_get(m, d, virt) ==
    LET at == paging_get_indexes(virt)
    IN  m[m[d][at.directory].base][at.table]

paging_get_physical_address(m, d, virt) ==
    paging_get(m, d, paging_align_to_lower_page(virt)).base
        + (virt - paging_align_to_lower_page(virt))

\* A plausible slip: every page of the range gets the first physical page.
paging_map_range_SamePage(m, d, virt, phys, count, flags) ==
    LET mapped[i \in 0 .. count] ==
            IF i = 0 THEN m
            ELSE paging_set(mapped[i - 1], d, (virt + (i - 1) * PageSize) % Space,
                            Entry(phys, flags))
    IN  mapped[count]

\* The pages one after the other; the addresses wrap as void* does.
paging_map_range(m, d, virt, phys, count, flags) ==
    LET mapped[i \in 0 .. count] ==
            IF i = 0 THEN m
            ELSE paging_set(mapped[i - 1], d, (virt + (i - 1) * PageSize) % Space,
                            Entry((phys + (i - 1) * PageSize) % Space, flags))
    IN  mapped[count]

\* paging_map_to returns -EINVAGR and maps nothing otherwise.
Mappable(virt, phys, phys_end) ==
    /\ paging_is_aligned(virt) /\ paging_is_aligned(phys)
    /\ paging_is_aligned(phys_end)
    /\ phys <= phys_end

-----------------------------------------------------------------------------
(* What a directory should translate to, page by page, without tables *)

Page == 0 .. N * N - 1

IdentityView(flags) == [p \in Page |-> Entry(p * PageSize, flags)]

MappedView(v, virt, phys, phys_end, flags) ==
    [p \in Page |->
        LET i == (p - virt \div PageSize) % (N * N)
        IN  IF i < (phys_end - phys) \div PageSize
            THEN Entry(phys + i * PageSize, flags) ELSE v[p]]
=============================================================================
