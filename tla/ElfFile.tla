------------------------------ MODULE ElfFile ------------------------------
(***************************************************************************)
(* src/src/loader/formats/elfloader.c over a header that has been read:    *)
(* which headers are accepted, and what the program headers say about      *)
(* where the file lies in memory.  Addresses are counted in units of       *)
(* their own, modulo the width of uint32_t.                                *)
(***************************************************************************)
EXTENDS Integers, Sequences, FiniteSetsExt

CONSTANTS
    AddrWord,       \* the modulus of elf32_addr (2^32)
    ProgramBase     \* PEACHOS_PROGRAM_VIRTUAL_ADDRESS (0x400000)

ASSUME ElfAssumption == AddrWord \in Nat \ {0} /\ ProgramBase \in Nat

EINFORMAT == 9

\* struct elf_header: the signature, EI_CLASS, EI_DATA, e_type, e_entry, e_phoff
\* and the program headers that e_phoff and e_phnum lead to.
ElfHeader(signature, class, data, type, entry, phoff, phdrs) ==
    [signature |-> signature, class |-> class, data |-> data, type |-> type,
     entry |-> entry, phoff |-> phoff, phdrs |-> phdrs]

\* struct elf32_phdr: p_type, p_vaddr, p_filesz, p_offset.
Segment(type, vaddr, filesz, offset) ==
    [type |-> type, vaddr |-> vaddr, filesz |-> filesz, offset |-> offset]

\* Addresses are counted from 0; offsets in the file are numbers.
HeaderType(header) ==
    /\ header.phdrs \in Seq([type : STRING, vaddr : Nat, filesz : Nat, offset : Nat])
    /\ header.entry \in Nat

elf_valid_signature(header) == header.signature
elf_valid_class(header) == header.class \in {"ELFCLASSNONE", "ELFCLASS32"}
elf_valid_encoding(header) == header.data \in {"ELFDATANONE", "ELFDATA2LSB"}
elf_is_executable(header) == header.type = "ET_EXEC" /\ header.entry >= ProgramBase
elf_has_program_header(header) == header.phoff # 0

elf_validate_loaded(header) ==
    IF /\ elf_valid_signature(header) /\ elf_valid_class(header)
       /\ elf_valid_encoding(header)
       /\ elf_has_program_header(header) /\ elf_is_executable(header)
    THEN 0 ELSE -EINFORMAT

\* The fields of struct elf_file, the physical ones as offsets in the file.
NoBounds == [virtual_base |-> 0, virtual_end |-> 0, physical_base |-> 0, physical_end |-> 0]

SegmentEnd(phdr) == (phdr.vaddr + phdr.filesz) % AddrWord

\* A plausible slip: a base of 0 is not taken for "no base yet".
elf_process_phdr_pt_load_ZeroIsBase(b, phdr) ==
    [virtual_base |-> IF b.virtual_base >= phdr.vaddr THEN phdr.vaddr ELSE b.virtual_base,
     physical_base |-> IF b.virtual_base >= phdr.vaddr THEN phdr.offset ELSE b.physical_base,
     virtual_end |-> IF b.virtual_end <= SegmentEnd(phdr) THEN SegmentEnd(phdr) ELSE b.virtual_end,
     physical_end |-> IF b.virtual_end <= SegmentEnd(phdr)
                      THEN phdr.offset + phdr.filesz ELSE b.physical_end]

elf_process_phdr_pt_load(b, phdr) ==
    LET lower == b.virtual_base >= phdr.vaddr \/ b.virtual_base = 0
        higher == b.virtual_end <= SegmentEnd(phdr) \/ b.virtual_end = 0
    IN  [virtual_base |-> IF lower THEN phdr.vaddr ELSE b.virtual_base,
         physical_base |-> IF lower THEN phdr.offset ELSE b.physical_base,
         virtual_end |-> IF higher THEN SegmentEnd(phdr) ELSE b.virtual_end,
         physical_end |-> IF higher THEN phdr.offset + phdr.filesz ELSE b.physical_end]

\* Segments of another type than PT_LOAD are passed over.
elf_process_pheader(b, phdr) ==
    IF phdr.type = "PT_LOAD" THEN elf_process_phdr_pt_load(b, phdr) ELSE b

elf_process_pheaders(header) ==
    LET bounds[i \in 0 .. Len(header.phdrs)] ==
            IF i = 0 THEN NoBounds ELSE elf_process_pheader(bounds[i - 1], header.phdrs[i])
    IN  bounds[Len(header.phdrs)]

\* The error, or the bounds.
elf_process_loaded(header) ==
    IF elf_validate_loaded(header) < 0
    THEN [res |-> elf_validate_loaded(header), bounds |-> NoBounds]
    ELSE [res |-> 0, bounds |-> elf_process_pheaders(header)]

-----------------------------------------------------------------------------
(* What the bounds are, without a loop *)

Loadable(header) == {i \in DOMAIN header.phdrs : header.phdrs[i].type = "PT_LOAD"}

\* The segments that count for the base: those after the last one at address 0,
\* which the code takes for no base at all, or that one if there is none.
BaseCandidates(header) ==
    LET zeros == {i \in Loadable(header) : header.phdrs[i].vaddr = 0}
        after == {i \in Loadable(header) : \A z \in zeros : z < i}
    IN  IF after # {} THEN after ELSE {Max(zeros)}

\* The bounds are those of the last of the lowest and the last of the highest.
BoundsExact(header, b) ==
    LET phdr(i) == header.phdrs[i]
        lowest == {i \in BaseCandidates(header) : \A j \in BaseCandidates(header) :
                        phdr(i).vaddr <= phdr(j).vaddr}
        highest == {i \in Loadable(header) : \A j \in Loadable(header) :
                        SegmentEnd(phdr(i)) >= SegmentEnd(phdr(j))}
    IN  IF Loadable(header) = {} THEN b = NoBounds
        ELSE /\ b.virtual_base = phdr(Max(lowest)).vaddr
             /\ b.physical_base = phdr(Max(lowest)).offset
             /\ b.virtual_end = SegmentEnd(phdr(Max(highest)))
             /\ b.physical_end = phdr(Max(highest)).offset + phdr(Max(highest)).filesz
=============================================================================
