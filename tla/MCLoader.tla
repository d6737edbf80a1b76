------------------------------ MODULE MCLoader ------------------------------
(***************************************************************************)
(* Six tables of six pages of two bytes.  The stack has two pages, the     *)
(* program starts on the next, the heap has 27 blocks from page 7 on, so   *)
(* that an image of three pages reaches up to it: room for two programs if *)
(* they are small, or for less.                                            *)
(***************************************************************************)
EXTENDS Loader

MCSizes == 0 .. 8

\* What process_load_elf returns in the build, and what it would return for a file
\* that is no ELF: then files of none to three pages, and the errors.
File(kind, size, readable) ==
    [elf |-> -EINFORMAT, kind |-> kind, size |-> size, readable |-> readable]
MCPrograms ==
    {[elf |-> 0, kind |-> "file", size |-> 3, readable |-> TRUE],
     File("file", 0, TRUE), File("file", 1, TRUE), File("file", 4, TRUE),
     File("file", 5, TRUE), File("file", 3, FALSE),
     File("directory", 0, FALSE), File("refused", 0, FALSE)}

Executable(phdrs) ==
    ElfHeader(TRUE, "ELFCLASS32", "ELFDATA2LSB", "ET_EXEC", 4, 1, phdrs)

\* In order, out of order with a note between, one at address 0 in the middle or
\* at the end, one that wraps, none.
MCHeaders ==
    {Executable(<<Segment("PT_LOAD", 4, 2, 1), Segment("PT_LOAD", 6, 3, 3)>>),
     Executable(<<Segment("PT_LOAD", 6, 3, 3), Segment("PT_NOTE", 1, 9, 2),
                  Segment("PT_LOAD", 4, 5, 1)>>),
     Executable(<<Segment("PT_LOAD", 4, 2, 1), Segment("PT_LOAD", 0, 2, 2),
                  Segment("PT_LOAD", 6, 2, 4)>>),
     Executable(<<Segment("PT_LOAD", 4, 2, 1), Segment("PT_LOAD", 0, 2, 3)>>),
     Executable(<<Segment("PT_LOAD", 14, 4, 1), Segment("PT_LOAD", 4, 1, 5)>>),
     Executable(<<>>),
     ElfHeader(FALSE, "ELFCLASS32", "ELFDATA2LSB", "ET_EXEC", 4, 1, <<>>),
     ElfHeader(TRUE, "ELFCLASS64", "ELFDATA2LSB", "ET_EXEC", 4, 1, <<>>),
     ElfHeader(TRUE, "ELFCLASS32", "ELFDATA2MSB", "ET_EXEC", 4, 1, <<>>),
     ElfHeader(TRUE, "ELFCLASSNONE", "ELFDATANONE", "ET_EXEC", 4, 0, <<>>),
     ElfHeader(TRUE, "ELFCLASS32", "ELFDATA2LSB", "ET_EXEC", 3, 1, <<>>)}

ElfSource(kind, size, readable, header) ==
    [kind |-> kind, size |-> size, readable |-> readable, header |-> header]
MCElfFiles ==
    {ElfSource("file", 3, TRUE, h) : h \in MCHeaders}
        \cup {ElfSource(kind, size, FALSE, Executable(<<>>)) :
                kind \in {"file", "directory", "refused"}, size \in {0, 3}}

\* From an empty heap to a full one, so that every allocation of a load is once
\* the first that fails.
MCOccupied == {0, 2} \cup 11 .. 27
=============================================================================
