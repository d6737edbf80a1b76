------------------------------ MODULE MCPaging ------------------------------
(***************************************************************************)
(* Directories of two tables of two pages of two bytes, room for two.      *)
(***************************************************************************)
EXTENDS Paging

\* The kernel's directory is writable, those of the tasks are not.
MCNewFlags == {{"P", "U", "W"}, {"P", "U"}}
MCMapFlags == {{"P", "U", "W"}}

\* Aligned addresses of each table, an unaligned one, and the last page.
MCAddrs == {0, 2, 3, 4, 6}
=============================================================================
