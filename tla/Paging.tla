------------------------------- MODULE Paging -------------------------------
(***************************************************************************)
(* The calls of src/src/memory/paging/paging.c.  A directory and its       *)
(* tables are blocks of the kernel heap; a "chunk" is the block that holds *)
(* the pointer to the directory.  The callers own the chunks they made,    *)
(* map ranges into them, and free them when they are not loaded.           *)
(***************************************************************************)
EXTENDS PageTables, FiniteSets, Functions

CONSTANTS
    Frames,     \* blocks of the heap
    NewFlags,   \* flags given to paging_new_4gb
    MapFlags,   \* flags given to paging_map_to
    Addrs,      \* addresses given to paging_map_to
    MaxMaps     \* bound: calls of paging_map_to

ASSUME PagingAssumption ==
    /\ Frames \in Nat /\ MaxMaps \in Nat
    /\ Addrs \subseteq 0 .. N * N * PageSize - 1

Frame == 0 .. Frames - 1
NULL  == -1

VARIABLES
    mem,                \* the words of each heap block
    used,               \* the heap blocks handed out
    directory_entry,    \* live chunks: the block of their directory
    current_directory,  \* the directory in cr3
    maps,               \* paging_map_to calls made
    view                \* history: what each chunk should translate pages to

vars == <<mem, used, directory_entry, current_directory, maps, view>>

Chunk == DOMAIN directory_entry

-----------------------------------------------------------------------------
Init ==
    /\ mem = [f \in Frame |-> Zeroed]
    /\ used = {}
    /\ directory_entry = [c \in {} |-> NULL]
    /\ current_directory = NULL
    /\ maps = 0
    /\ view = [c \in {} |-> NULL]

\* kzalloc of one block takes the lowest free one: the k-th of a row of calls.
Free == Frame \ used
kzalloc(k) == CHOOSE f \in Free : Cardinality({g \in Free : g < f}) = k - 1

\* The directory, its N tables, then the chunk.  The results of kzalloc are
\* not checked: the callers make sure there is room.
paging_new_4gb(flags) ==
    LET directory == kzalloc(1)
        table(i) == kzalloc(2 + i)
        chunk == kzalloc(N + 2)
    IN  /\ Cardinality(Free) >= N + 2
        /\ mem' = [f \in Frame |->
                IF f = directory
                    THEN [i \in Index |->
                            Entry(table(i), flags \cup {PAGING_IS_WRITEABLE})]
                ELSE IF \E i \in Index : f = table(i)
                    THEN [b \in Index |->
                            LET i == CHOOSE j \in Index : f = table(j)
                            IN  Entry((i * N + b) * PageSize, flags)]
                ELSE IF f = chunk THEN Zeroed ELSE mem[f]]
        /\ used' = used \cup {directory, chunk} \cup {table(i) : i \in Index}
        /\ directory_entry' = [c \in Chunk \cup {chunk} |->
                IF c = chunk THEN directory ELSE directory_entry[c]]
        /\ view' = [c \in Chunk \cup {chunk} |->
                IF c = chunk THEN IdentityView(flags) ELSE view[c]]
        /\ UNCHANGED <<current_directory, maps>>

paging_switch(c) ==
    /\ current_directory' = directory_entry[c]
    /\ UNCHANGED <<mem, used, directory_entry, maps, view>>

TablesOf(c) == {mem[directory_entry[c]][i].base : i \in Index}

\* A plausible slip: the block of the chunk itself is not given back.
paging_free_4gb_KeepChunk(c) ==
    /\ used' = used \ (TablesOf(c) \cup {directory_entry[c]})
    /\ directory_entry' = Restrict(directory_entry, Chunk \ {c})
    /\ view' = Restrict(view, Chunk \ {c})
    /\ UNCHANGED <<mem, current_directory, maps>>

paging_free_4gb(c) ==
    /\ used' = used \ (TablesOf(c) \cup {directory_entry[c], c})
    /\ directory_entry' = Restrict(directory_entry, Chunk \ {c})
    /\ view' = Restrict(view, Chunk \ {c})
    /\ UNCHANGED <<mem, current_directory, maps>>

paging_map_to(c, virt, phys, phys_end, flags) ==
    /\ maps < MaxMaps
    /\ maps' = maps + 1
    /\ IF Mappable(virt, phys, phys_end)
       THEN /\ mem' = paging_map_range(mem, directory_entry[c], virt, phys,
                                       (phys_end - phys) \div PageSize, flags)
            /\ view' = [view EXCEPT ![c] =
                            MappedView(@, virt, phys, phys_end, flags)]
       ELSE UNCHANGED <<mem, view>>
    /\ UNCHANGED <<used, directory_entry, current_directory>>

Next ==
    \/ \E flags \in NewFlags : paging_new_4gb(flags)
    \/ \E c \in Chunk :
        \/ paging_switch(c)
        \/ directory_entry[c] # current_directory /\ paging_free_4gb(c)
        \/ \E virt, phys, phys_end \in Addrs, flags \in MapFlags :
                paging_map_to(c, virt, phys, phys_end, flags)

Spec == Init /\ [][Next]_vars

-----------------------------------------------------------------------------
\* Every live chunk, its directory and its tables are blocks that the heap has
\* handed out, and so is the directory that the processor uses.
TypeOK ==
    /\ used \subseteq Frame
    /\ Chunk \subseteq used /\ DOMAIN view = Chunk
    /\ \A c \in Chunk : directory_entry[c] \in used /\ TablesOf(c) \subseteq used
    /\ current_directory \in {directory_entry[c] : c \in Chunk} \cup {NULL}

\* paging.c:98-187.  The two-level tables of each live chunk translate every page as the calls
\* made on that chunk say: identity from paging_new_4gb, then the ranges of
\* paging_map_to.  Mapping into one chunk, making or freeing another, and
\* refused calls change nothing of it.  paging_get_physical_address adds the
\* offset in the page to where the page is, for every address.
TranslationExact ==
    \A c \in Chunk :
        /\ \A p \in Page : paging_get(mem, directory_entry[c], p * PageSize) = view[c][p]
        /\ \A a \in 0 .. Space - 1 :
                paging_get_physical_address(mem, directory_entry[c], a)
                    = view[c][a \div PageSize].base + (a % PageSize)

BlocksOf(c) == TablesOf(c) \cup {directory_entry[c], c}

\* paging.c:7-44.  The chunks share no block, and paging_free_4gb gives back every block that
\* paging_new_4gb took.
BlocksAccounted ==
    /\ \A c, d \in Chunk : c # d => BlocksOf(c) \cap BlocksOf(d) = {}
    /\ \A c \in Chunk : Cardinality(BlocksOf(c)) = N + 2
    /\ used = UNION {BlocksOf(c) : c \in Chunk}
=============================================================================
