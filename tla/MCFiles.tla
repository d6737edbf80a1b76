------------------------------ MODULE MCFiles ------------------------------
(***************************************************************************)
(* Names of two and one characters.  The file AB.T fills its fields; the   *)
(* file and the volume label A and the directory D do not.  Paths have at  *)
(* most eight characters, the table has three descriptors.                 *)
(***************************************************************************)
EXTENDS Files

MCVolumes == {"fat16", "other"}

\* Character codes: small and capital letters, digits.
a == 97
b == 98
d == 100
A == 65
B == 66
D == 68
T == 84
zero == 48
one == 49
space == 32

ABT == Slot(<<A, B, T>>, "file")
FileA == Slot(<<A, space, space>>, "file")
LabelA == Slot(<<A, space, space>>, "label")
DirD == Slot(<<D, space, space>>, "directory")
Gone == Slot(<<229, B, T>>, "file")

MCSubs == {<<FileA>>}

\* A deleted file, which hides the directory but not the file; a label of the name
\* of a file.
MCRoots == {<<Gone, ABT, DirD>>, <<FileA, DirD, LabelA>>}

Path(drive, rest) == <<drive, Colon, Slash>> \o rest

\* "0:/aB.T", "0:/d", "0:/d/a", "0:/a/b"; "0:/a//b" opens a; "0:/" and
\* "0://a" have no first part; a path without a drive, one of a drive that is not
\* there, one that is too long.
MCPaths == {Path(zero, <<a, B, Dot, T>>), Path(zero, <<d>>), Path(zero, <<d, Slash, a>>),
            Path(zero, <<a, Slash, b>>), Path(zero, <<a, Slash, Slash, b>>), Path(zero, <<>>), Path(zero, <<Slash, a>>),
            Path(a, <<a>>), Path(one, <<a>>), Path(zero, <<d, Slash, a, b, Dot, T>>)}

MCCalls == [path : MCPaths, mode : {"r"}]
                \cup [path : {Path(zero, <<a>>)}, mode : {"w", "x"}]

\* From none to what "0:/d/a" needs.  With 4 and 10 free blocks the same
\* allocations fail as with fewer on another path.
MCRooms == (0 .. 11) \ {4, 10}
MCPlenty == {11}

\* The names are those that the theorems about lookups are for.
ASSUME NamesAssumption == WellFormedNames /\ PlainNames
=============================================================================
