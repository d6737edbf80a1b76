----------------------------- MODULE Allocator -----------------------------
(***************************************************************************)
(* What a block allocator promises its callers: every allocation it has    *)
(* handed out and not taken back is a non-empty interval of blocks, and no *)
(* block belongs to two of them.                                           *)
(***************************************************************************)
EXTENDS Integers

VARIABLE held   \* the allocations outstanding: records [start, len]

Extent(a) == a.start .. a.start + a.len - 1

Init == held = {}

\* The allocator picks any interval that touches nothing held.
Allocate ==
    \E a \in held' :
        /\ a \in [start : Nat, len : Nat \ {0}]
        /\ \A b \in held : Extent(a) \cap Extent(b) = {}
        /\ held' = held \cup {a}

\* A holder gives one allocation back; the others are untouched.
Release == \E a \in held : held' = held \ {a}

Next == Allocate \/ Release

Spec == Init /\ [][Next]_held
=============================================================================
