------------------------------ MODULE FatOpen ------------------------------
(***************************************************************************)
(* What fopen does before it has a descriptor: the path parser (pparser.c) *)
(* and the FAT16 lookups (fat16.c), one heap allocation after the other.   *)
(* Every allocation takes one block, so it fails when no block is free.    *)
(* The record m is the heap as a call of fopen sees it.  Strings are       *)
(* sequences of character codes without the terminating 0.                 *)
(***************************************************************************)
EXTENDS Integers, Sequences, FiniteSets, SequencesExt, FiniteSetsExt

CONSTANTS
    NULL,
    NameSize,   \* sizeof(filename) in struct fat_directory_item (8)
    ExtSize,    \* sizeof(ext) (3)
    MaxPath     \* PEACHOS_MAX_PATH (108)

ASSUME FatOpenAssumption ==
    NameSize \in Nat \ {0} /\ ExtSize \in Nat \ {0}
    /\ MaxPath \in Nat /\ MaxPath > NameSize + ExtSize + 1

Dot == 46
Slash == 47
Colon == 58
Blank == {0, 32}    \* 0x00 and 0x20 end a name in a directory slot

-----------------------------------------------------------------------------
(* stringos.c *)

isdigit(c) == c \in 48 .. 57
tonumericdigit(c) == c - 48
tolower(c) == IF c \in 65 .. 90 THEN c + 32 ELSE c

\* The difference at the first of the n characters where the strings differ in
\* more than case.
istrncmp(s1, s2, n) ==
    LET u1 == Append(s1, 0)
        u2 == Append(s2, 0)
        differ == {i \in 1 .. Min({n, Len(u1), Len(u2)}) : tolower(u1[i]) # tolower(u2[i])}
    IN  IF differ = {} THEN 0 ELSE u1[Min(differ)] - u2[Min(differ)]

-----------------------------------------------------------------------------
(* The heap *)

\* The kinds of blocks the file layer holds.
Kinds == {"path", "private", "item", "descriptor"}
NoBlocks == [kind \in Kinds |-> 0]
Add(counts, kind, n) == [counts EXCEPT ![kind] = @ + n]

\* free: the free blocks; held: those the file layer holds; leaked: those of
\* them that no later call gives back; short: an allocation of this call has
\* failed; below: kfree(0), which frees an entry below the block table, was
\* called; wild: a pointer that leads nowhere was followed.
Memory(free, held) ==
    [free |-> free, held |-> held, leaked |-> NoBlocks,
     short |-> FALSE, below |-> FALSE, wild |-> FALSE]

\* kzalloc of one block, if there is one.
kzalloc(m, kind) ==
    IF m.free = 0 THEN [m EXCEPT !.short = TRUE]
    ELSE [m EXCEPT !.free = @ - 1, !.held = Add(@, kind, 1)]

\* kfree of n blocks of a kind.
kfree(m, kind, n) == [m EXCEPT !.free = @ + n, !.held = Add(@, kind, -n)]

\* kfree(0).
kfreeNull(m) == [m EXCEPT !.below = TRUE]

Leak(m, kind, n) == [m EXCEPT !.leaked = Add(@, kind, n)]

-----------------------------------------------------------------------------
(* pparser.c *)

pathparser_path_valid_format(path) ==
    Len(path) >= 3 /\ isdigit(path[1]) /\ path[2] = Colon /\ path[3] = Slash

\* What the calls of pathparser_get_path_part find behind the drive.
PathParts(path) ==
    LET add(parts, c) == IF c = Slash THEN Append(parts, <<>>)
                         ELSE [parts EXCEPT ![Len(parts)] = Append(@, c)]
        parts[i \in 0 .. Len(path)] ==
            IF i <= 3 THEN << <<>> >> ELSE add(parts[i - 1], path[i])
    IN  parts[Len(path)]

\* One call of pathparser_parse_path_part.  The string is allocated before it is
\* known to be empty; without memory the part ends the path like an empty one,
\* and a string whose path_part cannot be allocated is lost.
pathparser_parse_path_part(p, part) ==
    LET string == kzalloc(p.m, "path")
        both == kzalloc(string, "path")
        stop(m) == [p EXCEPT !.m = m, !.going = FALSE]
    IN  CASE ~ p.going -> p
          [] p.going /\ part = <<>> -> stop(IF p.m.free = 0 THEN kfreeNull(string)
                                          ELSE kfree(string, "path", 1))
          [] p.going /\ part # <<>> /\ p.m.free = 0 -> stop(string)
          [] p.going /\ part # <<>> /\ p.m.free = 1 -> stop(Leak(both, "path", 1))
          [] OTHER -> [p EXCEPT !.m = both, !.parts = Append(@, part)]

\* The root, then the parts up to the end of the string.
pathparser_parse(m, path) ==
    LET start == [m |-> kzalloc(m, "path"), parts |-> <<>>, going |-> TRUE]
        strings == Append(PathParts(path), <<>>)
        parsed[i \in 0 .. Len(strings)] ==
            IF i = 0 THEN start ELSE pathparser_parse_path_part(parsed[i - 1], strings[i])
        end == parsed[Len(strings)]
    IN  CASE Len(path) > MaxPath \/ ~ pathparser_path_valid_format(path) ->
                [m |-> m, root |-> FALSE, drive |-> -1, parts |-> <<>>]
          [] pathparser_path_valid_format(path) /\ Len(path) <= MaxPath /\ m.free = 0 ->
                [m |-> start.m, root |-> FALSE, drive |-> -1, parts |-> <<>>]
          [] OTHER -> [m |-> end.m, root |-> TRUE, drive |-> tonumericdigit(path[1]),
                       parts |-> end.parts]

\* The blocks of a parsed path: the root, and a path_part and its name for
\* each part.
PathBlocks(parts) == 1 + 2 * Len(parts)

\* A plausible slip: the strings of the parts are kept.
pathparser_free_KeepStrings(m, parts) == kfree(m, "path", 1 + Len(parts))

pathparser_free(m, parts) == kfree(m, "path", PathBlocks(parts))

-----------------------------------------------------------------------------
(* fat16.c: directories.  A directory is a sequence of slots: the bytes of the *)
(* name and its extension, and the attribute.                                  *)

SlotType == [bytes : Seq(Nat), attribute : {"file", "label", "directory"}]
Slot(bytes, attribute) == [bytes |-> bytes, attribute |-> attribute]

Deleted(slot) == slot.bytes[1] = 229    \* 0xE5

\* A plausible slip: the deleted slots are counted.
fat16_get_total_items_for_directory_All(slots) == Len(slots)

\* The slots up to the first empty one, the deleted ones not counted.
fat16_get_total_items_for_directory(slots) ==
    Cardinality({i \in DOMAIN slots : ~ Deleted(slots[i])})

\* A plausible slip: the size of the field is not looked at.
fat16_to_proper_string_Unbounded(bytes, at, size) ==
    LET ends == {i \in at .. Len(bytes) : bytes[i] \in Blank}
    IN  SubSeq(bytes, at, Min(ends \cup {Len(bytes) + 1}) - 1)

\* The field of "size" bytes from "at" on, up to the first blank.
fat16_to_proper_string(bytes, at, size) ==
    LET ends == {i \in at .. at + size - 1 : bytes[i] \in Blank}
    IN  SubSeq(bytes, at, Min(ends \cup {at + size}) - 1)

fat16_get_full_relative_filename(slot) ==
    fat16_to_proper_string(slot.bytes, 1, NameSize)
        \o IF slot.bytes[NameSize + 1] \in Blank THEN <<>>
           ELSE <<Dot>> \o fat16_to_proper_string(slot.bytes, NameSize + 1, ExtSize)

\* A volume label is taken for a file.
TypeOf(slot) == IF slot.attribute = "directory" THEN "directory" ELSE "file"

\* The body of an item is its copy of the directory slot, or its fat_directory
\* and the slots of that: "whole", "null" if memory ran out before it, "freed"
\* if the directory was given back because there was none for its slots.
ItemType == [slot : SlotType, type : {"file", "directory"}, body : {"whole", "null", "freed"}]
Item(slot, body) == [slot |-> slot, type |-> TypeOf(slot), body |-> body]

\* A plausible slip: the way out of fat16_load_fat_directory frees the directory
\* without looking at the result.
fat16_new_fat_item_for_directory_item_AlwaysFrees(m, slot) ==
    LET item == kzalloc(m, "item")
        found(mm, b) == [m |-> mm, item |-> Item(slot, b)]
    IN  CASE m.free = 0 -> [m |-> item, item |-> NULL]
          [] m.free = 1 -> found(item, "null")
          [] m.free > 1 /\ TypeOf(slot) = "file" -> found(kzalloc(item, "item"), "whole")
          [] OTHER -> found(item, "freed")

\* The copy of the slot, or fat16_load_fat_directory.
fat16_new_fat_item_for_directory_item(m, slot) ==
    LET item == kzalloc(m, "item")
        body == kzalloc(item, "item")
        slots == kzalloc(body, "item")
        found(mm, b) == [m |-> mm, item |-> Item(slot, b)]
    IN  CASE m.free = 0 -> [m |-> item, item |-> NULL]
          [] m.free = 1 -> found(body, "null")
          [] m.free > 1 /\ TypeOf(slot) = "file" -> found(body, "whole")
          [] m.free = 2 /\ TypeOf(slot) = "directory" ->
                found(kfree(slots, "item", 1), "freed")
          [] OTHER -> found(slots, "whole")

\* The blocks of an item.
ItemBlocks(item) ==
    IF item.body # "whole" THEN 1 ELSE IF item.type = "file" THEN 2 ELSE 3

\* One slot of the search: an item found before is lost when another one matches.
LookAt(at, slot, name) ==
    IF istrncmp(fat16_get_full_relative_filename(slot), name, MaxPath) # 0 THEN at
    ELSE fat16_new_fat_item_for_directory_item(
            IF at.item = NULL THEN at.m ELSE Leak(at.m, "item", ItemBlocks(at.item)), slot)

\* The loop goes over as many slots as there are items, from the first one, and
\* does not stop at a match: the last one counts.
fat16_find_item_in_directory(m, slots, name) ==
    LET total == fat16_get_total_items_for_directory(slots)
        looked[i \in 0 .. total] ==
            IF i = 0 THEN [m |-> m, item |-> NULL] ELSE LookAt(looked[i - 1], slots[i], name)
    IN  looked[total]

\* A plausible slip: only the item itself is freed.
fat16_fat_item_free_ItemOnly(m, item) == kfree(m, "item", 1)

\* A file without its slot frees address 0; fat16_free_directory does not.
fat16_fat_item_free(m, item) ==
    LET freed == kfree(m, "item", ItemBlocks(item))
    IN  IF item.type = "file" /\ item.body = "null" THEN kfreeNull(freed) ELSE freed

\* The next part, in the directory that was found.  A file met as a directory is
\* lost; a directory that is not there is searched at address 0.
GoDown(at, sub, name) ==
    IF at.item = NULL \/ at.m.wild THEN at
    ELSE IF at.item.type = "file"
    THEN [m |-> Leak(at.m, "item", ItemBlocks(at.item)), item |-> NULL]
    ELSE IF at.item.body # "whole"
    THEN [at EXCEPT !.m = [Leak(Leak(at.m, "item", 1), "private", 1) EXCEPT !.wild = TRUE]]
    ELSE LET next == fat16_find_item_in_directory(at.m, sub, name)
         IN  [next EXCEPT !.m = fat16_fat_item_free(@, at.item)]

\* The parts one after the other.
fat16_get_directory_entry(m, root, sub, parts) ==
    LET found[i \in 0 .. Len(parts) - 1] ==
            IF i = 0 THEN fat16_find_item_in_directory(m, root, parts[1])
            ELSE GoDown(found[i - 1], sub, parts[i + 1])
    IN  found[Len(parts) - 1]

\* item NULL is an error.  The descriptor is freed when there is no item.
fat16_open(m, root, sub, parts, mode) ==
    LET descriptor == kzalloc(m, "private")
        found == fat16_get_directory_entry(descriptor, root, sub, parts)
    IN  CASE mode # "r" -> [m |-> m, item |-> NULL]
          [] mode = "r" /\ m.free = 0 -> [m |-> descriptor, item |-> NULL]
          [] mode = "r" /\ m.free > 0 /\ found.item = NULL ->
                [found EXCEPT !.m = kfree(@, "private", 1)]
          [] OTHER -> found

\* The item and the FAT16 descriptor.
fat16_close(m, item) == kfree(fat16_fat_item_free(m, item), "private", 1)
=============================================================================
