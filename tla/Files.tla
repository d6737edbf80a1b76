------------------------------- MODULE Files -------------------------------
(***************************************************************************)
(* The file layer: mounting the disk (disk.c, fat16_resolve), the          *)
(* descriptor table of src/src/fs/file.c, and the heap blocks that each    *)
(* call takes and gives back.  Which bytes a read returns is in FatRead;   *)
(* here a read moves the position or fails.  The rest of the kernel takes  *)
(* and returns blocks between the calls, so that a call finds any number   *)
(* of them free.                                                           *)
(***************************************************************************)
EXTENDS FatOpen

\* struct file_descriptor, with the parts of the path that was opened.
DescriptorType == [path : Seq(Seq(Nat)), item : ItemType, pos : Nat]

CONSTANTS
    MaxFd,      \* PEACHOS_MAX_FILE_DESCRIPTORS (512)
    Volumes,    \* boot sectors: "fat16", or "other" (signature not 0x29)
    Roots,      \* root directories: sequences of slots
    Subs,       \* contents of every directory in the root
    Calls,      \* paths and mode strings given to fopen
    Rooms,      \* how many blocks of the heap a call of fopen finds free
    FileSize,   \* the filesize field of every file
    MaxOpens,   \* bound: calls of fopen that leave something behind
    MaxPos      \* bound: positions of interest

ASSUME FilesAssumption ==
    /\ MaxFd \in Nat \ {0} /\ MaxOpens \in Nat /\ Rooms \subseteq Nat
    /\ FileSize \in Nat /\ MaxPos \in Nat
    /\ Roots \subseteq Seq(SlotType) /\ Subs \subseteq Seq(SlotType)
    /\ Calls \subseteq [path : Seq(Nat), mode : STRING]
    /\ NULL \notin ItemType /\ NULL \notin DescriptorType /\ NULL # "fat16"

Index == 1 .. MaxFd     \* i + 1 for the slots i of file_descriptors

VARIABLES
    volume, root, sub,  \* the boot sector and the two directories on the disk
    disk,               \* struct disk: its filesystem and its fs_private
    file_descriptors,   \* the table: NULL or the descriptor
    blocks,             \* heap blocks held for paths and open files
    held,               \* history: who holds which number
    opens,              \* history: calls of fopen that left something behind
    leaked,             \* history: blocks no later call gives back
    ranOut,             \* history: an allocation has failed
    below,              \* a byte below the block table has been freed
    wild                \* a wild pointer has been followed

vars == <<volume, root, sub, disk, file_descriptors, blocks, held, opens, leaked,
          ranOut, below, wild>>
OnDisk == <<volume, root, sub>>
Errors == <<ranOut, below, wild>>

-----------------------------------------------------------------------------
(* Mounting *)

\* fat16_resolve sets both fields before it has read the boot sector; when the
\* signature is wrong it takes back only fs_private.
fat16_resolve ==
    [filesystem |-> "fat16", fs_private |-> volume = "fat16",
     res |-> IF volume = "fat16" THEN 0 ELSE -5]

\* The first file system that accepts the disk; FAT16 is the only one.
fs_resolve == IF fat16_resolve.res = 0 THEN "fat16" ELSE NULL

\* A plausible slip: the disk keeps the file system that refused it.
disk_search_and_init_KeepFilesystem ==
    /\ ~ disk.searched
    /\ disk' = [searched |-> TRUE, filesystem |-> fat16_resolve.filesystem,
                fs_private |-> fat16_resolve.fs_private]
    /\ UNCHANGED <<OnDisk, file_descriptors, blocks, held, opens, leaked, Errors>>

\* Once, at boot: the result of fs_resolve replaces what fat16_resolve left.
disk_search_and_init ==
    /\ ~ disk.searched
    /\ disk' = [searched |-> TRUE, filesystem |-> fs_resolve,
                fs_private |-> fat16_resolve.fs_private]
    /\ UNCHANGED <<OnDisk, file_descriptors, blocks, held, opens, leaked, Errors>>

-----------------------------------------------------------------------------
(* file.c: the table *)

FreeIndexes == {i \in Index : file_descriptors[i] = NULL}

\* A plausible slip: the search does not look whether a slot is in use.
file_new_descriptor_Taken ==
    IF FreeIndexes = {} THEN -3 ELSE 1

\* The lowest free index; -ENOMEM when the table is full.
file_new_descriptor ==
    IF FreeIndexes = {} THEN -3
    ELSE CHOOSE i \in FreeIndexes : \A j \in FreeIndexes : i <= j

\* The last descriptor is out of the bounds it is checked against; the word
\* before the table, which descriptor 0 leads to, is 0 in the kernel image.
file_get_descriptor(fd) ==
    IF fd < 1 \/ fd >= MaxFd THEN NULL ELSE file_descriptors[fd]

Init ==
    /\ volume \in Volumes /\ root \in Roots /\ sub \in Subs
    /\ disk = [searched |-> FALSE, filesystem |-> NULL, fs_private |-> FALSE]
    /\ file_descriptors = [i \in Index |-> NULL]
    /\ blocks = NoBlocks
    /\ held = {}
    /\ opens = 0 /\ leaked = NoBlocks
    /\ ranOut = FALSE /\ below = FALSE /\ wild = FALSE

-----------------------------------------------------------------------------
(* file.c: fopen *)

\* The heap is m when the call returns.
HeapIs(m) ==
    /\ blocks' = m.held
    /\ leaked' = [kind \in Kinds |-> leaked[kind] + m.leaked[kind]]
    /\ opens' = IF blocks' # blocks THEN opens + 1 ELSE opens
    /\ opens' <= MaxOpens
    /\ ranOut' = (ranOut \/ m.short)
    /\ below' = (below \/ m.below)
    /\ wild' = m.wild

\* The path as the caller meant it: the parts up to the first empty one.
Asked(path) ==
    LET empty == {i \in DOMAIN PathParts(path) : PathParts(path)[i] = <<>>}
    IN  SubSeq(PathParts(path), 1, Min(empty \cup {Len(PathParts(path)) + 1}) - 1)

\* The conditions under which fopen gives up before it opens the file.
OpenRefused(mode, p) ==
    \/ ~ p.root                 \* no drive in the path, or no memory for the root
    \/ p.parts = <<>>           \* no first part
    \/ p.drive # 0           \* no such disk
    \/ disk.filesystem = NULL   \* not mounted
    \/ mode = "x"               \* FILE_MODE_INVALID

\* fopen returns 0: the path is freed if there is one, and there is no private
\* data yet.
OpenRefuses(mode, p) ==
    /\ OpenRefused(mode, p)
    /\ HeapIs(IF p.root THEN pathparser_free(p.m, p.parts) ELSE p.m)
    /\ UNCHANGED <<OnDisk, disk, file_descriptors, held>>

\* The error of fat16_open is not 0, so fopen, having freed the path, closes it
\* like a descriptor.
OpenFails(p, open) ==
    /\ open.item = NULL
    /\ HeapIs([pathparser_free(open.m, p.parts) EXCEPT !.wild = TRUE])
    /\ UNCHANGED <<OnDisk, disk, file_descriptors, held>>

\* The lookup searches a directory that is not there.
OpenGoesAstray(p, open) ==
    /\ open.m.wild
    /\ HeapIs(Leak(open.m, "path", PathBlocks(p.parts)))
    /\ UNCHANGED <<OnDisk, disk, file_descriptors, held>>

\* With the table full, everything is given back and fopen returns 0.
OpenFindsNoDescriptor(p, open) ==
    /\ open.item # NULL /\ ~ open.m.wild
    /\ file_new_descriptor < 0
    /\ HeapIs(fat16_close(pathparser_free(open.m, p.parts), open.item))
    /\ UNCHANGED <<OnDisk, disk, file_descriptors, held>>

\* A caller of fopen, with the number it got, what it asked for, the position
\* that its own calls lead to, and whether memory ran short during the call.  It
\* is lost when no descriptor of its own is behind the number (any more), and
\* disturbed when a call of another has moved its file.
Holder(fd, path, m, lost) ==
    [id |-> opens, fd |-> fd, path |-> Asked(path), pos |-> 0, short |-> m.short,
     lost |-> lost, disturbed |-> FALSE]

\* The blocks of the path are never given back.
OpenSucceeds(path, p, open) ==
    LET fd == file_new_descriptor
        m == kzalloc(open.m, "descriptor")
    IN  /\ open.item # NULL /\ ~ open.m.wild
        /\ fd > 0 /\ open.m.free > 0
        /\ file_descriptors' = [file_descriptors EXCEPT
                ![fd] = [path |-> p.parts, item |-> open.item, pos |-> 0]]
        /\ HeapIs(Leak(m, "path", PathBlocks(p.parts)))
        /\ held' = held \cup {Holder(fd, path, m, FALSE)}
        /\ UNCHANGED <<OnDisk, disk>>

\* Without memory for it the descriptor is written to address 0 and its index is
\* read back from there: fopen returns the number of a slot that stays empty.
OpenLosesDescriptor(path, p, open) ==
    LET fd == file_new_descriptor
        m == kzalloc(open.m, "descriptor")
        left == Leak(Leak(Leak(m, "path", PathBlocks(p.parts)), "private", 1),
                     "item", ItemBlocks(open.item))
    IN  /\ open.item # NULL /\ ~ open.m.wild
        /\ fd > 0 /\ open.m.free = 0
        /\ HeapIs(left)
        /\ held' = held \cup {Holder(fd, path, m, TRUE)}
        /\ UNCHANGED <<OnDisk, disk, file_descriptors>>

\* fopen, with "free" blocks of the heap free when it is called.
fopen(path, mode, free) ==
    \E p \in {pathparser_parse(Memory(free, blocks), path)} :
        \/ OpenRefuses(mode, p)
        \/ /\ ~ OpenRefused(mode, p)
           /\ \E open \in {fat16_open(p.m, root, sub, p.parts, mode)} :
                \/ OpenFails(p, open)
                \/ OpenGoesAstray(p, open)
                \/ OpenFindsNoDescriptor(p, open)
                \/ OpenSucceeds(path, p, open)
                \/ OpenLosesDescriptor(path, p, open)

-----------------------------------------------------------------------------
(* file.c: the other calls *)

\* The descriptor behind the number of h is that of another caller, g.
Shares(g, h) == g # h /\ g.fd = h.fd /\ ~ g.lost

\* The item, the FAT16 descriptor and the descriptor go back to the heap.  The
\* descriptor has the block of a directory that was freed before, if that was
\* the only free one: then the index is freed like an address, and the block twice.
fclose(h) ==
    LET desc == file_get_descriptor(h.fd)
        m == kfree(fat16_close(Memory(0, blocks), desc.item), "descriptor", 1)
    IN  /\ desc # NULL
        /\ file_descriptors' = [file_descriptors EXCEPT ![h.fd] = NULL]
        /\ blocks' = m.held
        /\ below' = (below \/ m.below \/ desc.item.body = "freed")
        /\ held' = {[g EXCEPT !.lost = @ \/ Shares(g, h)] : g \in held \ {h}}
        /\ UNCHANGED <<OnDisk, disk, opens, leaked, ranOut, wild>>

\* The call of h succeeds: the position moves.  The caller, who knows only what
\* its own calls did, expects the same of the file it opened; another holder of
\* the number does not.
Move(h, offset, whence) ==
    LET from(pos) == offset + IF whence = "SEEK_CUR" THEN pos ELSE 0
        own(g) == g = h /\ ~ g.lost /\ ~ g.disturbed
    IN  /\ from(file_descriptors[h.fd].pos) <= MaxPos
        /\ file_descriptors' = [file_descriptors EXCEPT ![h.fd].pos = from(@)]
        /\ held' = {[g EXCEPT !.pos = IF own(g) THEN from(@) ELSE @,
                              !.disturbed = @ \/ Shares(g, h)] : g \in held}
        /\ UNCHANGED <<OnDisk, disk, blocks, opens, leaked, Errors>>

\* fat16_read does not look at the type of the item.  Its error (a cluster that
\* is in use as a mark) leaves the position alone.
fread(h) ==
    /\ file_get_descriptor(h.fd) # NULL
    /\ \/ Move(h, 1, "SEEK_CUR")
       \/ UNCHANGED vars

\* fat16_seek refuses a directory, an offset past the file and SEEK_END.  The
\* size of a file without its slot is whatever is at address 28.
fseek(h, offset, whence) ==
    /\ file_get_descriptor(h.fd) # NULL
    /\ file_get_descriptor(h.fd).item.type = "file"
    /\ offset < FileSize \/ file_get_descriptor(h.fd).item.body = "null"
    /\ Move(h, offset, whence)

\* fclose, fread, fseek and fstat of what leads to no descriptor, a seek that is
\* refused, and fstat, whatever it returns.
CallRefused == disk.searched /\ UNCHANGED vars

Next ==
    /\ ~ wild
    /\ \/ disk_search_and_init
       \/ /\ disk.searched
          /\ \/ \E call \in Calls, free \in Rooms : fopen(call.path, call.mode, free)
             \/ \E h \in held :
                  \/ fclose(h)
                  \/ fread(h)
                  \/ \E offset \in 0 .. FileSize, whence \in {"SEEK_SET", "SEEK_CUR"} :
                        fseek(h, offset, whence)
       \/ CallRefused

\* What the processor does after a wild pointer is not modelled.
Lost == wild /\ UNCHANGED vars

Spec == Init /\ [][Next \/ Lost]_vars

-----------------------------------------------------------------------------
\* disk.c:41.  A disk with a file system has the private data that the file
\* system's calls reach through it: a disk that FAT16 refused has no file system.
MountedIsWhole == disk.filesystem # NULL => disk.fs_private

\* The directory slot of a name, without a loop: its characters in capitals, the
\* base and the extension padded with spaces.
ShortName(name) ==
    LET dots == {i \in DOMAIN name : name[i] = Dot}
        base == Min(dots \cup {Len(name) + 1}) - 1
        capital(c) == IF c \in 97 .. 122 THEN c - 32 ELSE c
        char(i) == IF i \in DOMAIN name THEN capital(name[i]) ELSE 32
    IN  [i \in 1 .. NameSize + ExtSize |->
            IF i > NameSize THEN char(base + 1 + i - NameSize)
            ELSE IF i <= base THEN char(i) ELSE 32]

\* A slot whose name is its own capitals, without dots and padded with spaces.
ShortNamed(slot) ==
    LET padded(at, size) == \A i, j \in at .. at + size - 1 :
                                i < j /\ slot.bytes[i] = 32 => slot.bytes[j] = 32
    IN  /\ \A i \in DOMAIN slot.bytes : slot.bytes[i] \notin {0, Dot} \cup 97 .. 122
        /\ padded(1, NameSize) /\ padded(NameSize + 1, ExtSize)

\* The names on the disk are short names, but for the slots "." and ".." of a
\* directory, and no caller asks for a name that begins with a dot.
WellFormedNames ==
    /\ \A slots \in Roots \cup Subs : \A i \in DOMAIN slots :
            /\ Len(slots[i].bytes) = NameSize + ExtSize
            /\ ShortNamed(slots[i]) \/ slots[i].bytes[1] = Dot
    /\ \A call \in Calls : \A i \in DOMAIN Asked(call.path) :
            LET name == Asked(call.path)[i]
            IN  name[1] # Dot /\ \A j \in DOMAIN name : name[j] # 0

\* A name of the form 8.3: no spaces, a base and an extension that fit, no dot at
\* the end, and not that of a deleted slot.
EightThree(name) ==
    LET dots == {i \in DOMAIN name : name[i] = Dot}
        base == Min(dots \cup {Len(name) + 1}) - 1
    IN  /\ base <= NameSize /\ Len(name) - base \in {0} \cup 2 .. ExtSize + 1
        /\ \A i \in DOMAIN name : name[i] # 32
        /\ name[1] # 229

\* The callers ask for such names, and have two blocks for it.
PlainNames ==
    /\ \A call \in Calls : \A i \in DOMAIN Asked(call.path) : EightThree(Asked(call.path)[i])
    /\ \E free \in Rooms : free >= 2 /\ \A other \in Rooms : free >= other

\* The last slot of that name among those the search looks at.
SlotNamed(slots, name) ==
    slots[Max({i \in 1 .. fat16_get_total_items_for_directory(slots) :
                    slots[i].bytes = ShortName(name)})]

\* file.c:55-87, pparser.c:32-74, fat16.c:301-330, 581-630, 696-757.  Every
\* descriptor a caller holds leads to the slot whose 8.3 name it asked for, the
\* last one if a volume label has the name too, at the position its own calls
\* moved it to, whatever was opened, moved and closed since.  The last descriptor
\* of the table leads nowhere.  Only once memory has run out may a caller have
\* lost its descriptor, at once or to another's fclose, or find its file moved by
\* another; and only if it ran out during the call, one that leads to what a
\* shorter path names.
HeldDescriptorsLead ==
    \A h \in held :
        LET desc == file_get_descriptor(h.fd)
            directory == IF Len(desc.path) = 1 THEN root ELSE sub
        IN  CASE h.fd = MaxFd -> desc = NULL
              [] h.fd # MaxFd /\ h.lost -> ranOut
              [] OTHER ->
                    /\ desc # NULL
                    /\ desc.pos = h.pos \/ h.disturbed
                    /\ h.disturbed => ranOut
                    /\ IsPrefix(desc.path, h.path)
                    /\ desc.item.slot = SlotNamed(directory, Last(desc.path))
                    /\ desc.path # h.path => h.short

\* file.c:55-72.  No two callers hold the same descriptor: the number of one that
\* was lost is handed out again, but behind it is the descriptor of one of them.
HeldByOne ==
    \A g, h \in held : g.fd = h.fd /\ g # h => g.lost \/ h.lost

InUse == {i \in Index : file_descriptors[i] # NULL}

\* The blocks of the items of the open files among the first i slots.
OpenItemBlocks[i \in 0 .. MaxFd] ==
    IF i = 0 THEN 0
    ELSE OpenItemBlocks[i - 1]
            + IF i \in InUse THEN ItemBlocks(file_descriptors[i].item) ELSE 0

\* file.c:136-251, fat16.c:488-515, pparser.c:32-87.  The layer holds the blocks
\* of the open files, and those it has lost: of the paths of the calls that
\* opened one, of a file that a lookup met as a directory, of a part whose
\* structure could not be allocated and of a lost descriptor, and no other.
\* fclose gives back all that it should, a failed fopen all that it took.
BlocksAccounted ==
    /\ blocks.private = Cardinality(InUse) + leaked.private
    /\ blocks.descriptor = Cardinality(InUse)
    /\ blocks.item = leaked.item + OpenItemBlocks[MaxFd]
    /\ blocks.path = leaked.path

\* heap.c:166, fat16.c:517-556.  As long as no allocation has failed, nothing below
\* the block table is freed and no descriptor leads to an item without its slot
\* or to a directory that has been given back.
WholeWhileMemoryLasts ==
    ~ ranOut =>
        /\ ~ below
        /\ \A i \in InUse : file_descriptors[i].item.body = "whole"
        /\ \A kind \in {"private", "descriptor"} : leaked[kind] = 0

\* fat16.c:158-203, 301-330, 581-596.  The search looks at as many slots as there
\* are items.  So an item is found by its 8.3 name, in capitals or not, unless
\* more deleted slots come before it than items after it; then it is not.
HiddenByDeletedSlots ==
    \A i \in DOMAIN root, call \in Calls :
        LET parts == Asked(call.path)
            open == fat16_open(Memory(Max(Rooms), NoBlocks), root, sub, parts, "r")
        IN  /\ Len(parts) = 1 /\ ShortName(parts[1]) = root[i].bytes
            /\ \A j \in DOMAIN root : j # i => root[j].bytes # root[i].bytes
            => (open.item = NULL
                    <=> Cardinality({j \in 1 .. i - 1 : Deleted(root[j])})
                            > Cardinality({j \in i + 1 .. Len(root) : ~ Deleted(root[j])}))

-----------------------------------------------------------------------------
\* file.c:212: "fopen shouldnt return negative values".  A failed fopen returns
\* 0, and does not follow the error as a pointer before.
FailedOpenReturns == ~ wild
=============================================================================
