---------------------------- MODULE FilesProofs ----------------------------
(***************************************************************************)
(* The descriptor table and the heap blocks of the file layer, for every   *)
(* table, every disk, every path and every number of free blocks, and what *)
(* a name leads to, for every disk with well-formed names.                 *)
(***************************************************************************)
EXTENDS Files, FiniteSetTheorems, SequenceTheorems, WellFoundedInduction, TLAPS

(* Loops *)

\* Induction up to n, on a set instead of a predicate.
LEMMA UpTo ==
    ASSUME NEW n \in Nat, NEW P, 0 \in P, \A i \in 1 .. n : i - 1 \in P => i \in P
    PROVE  0 .. n \subseteq P
<1> DEFINE R == OpToRel(<, Nat)
           S == {i \in 0 .. n : i \notin P}
<1>1. IsWellFoundedOn(R, Nat)
    BY NatLessThanWellFounded
<1>2. ASSUME S # {}
      PROVE  FALSE
  <2>1. S \subseteq Nat
      OBVIOUS
  <2>2. PICK x \in S : \A y \in S : ~ (<<y, x>> \in R)
    <3> HIDE DEF R, S
    <3> QED  BY <1>1, <1>2, <2>1, WFMin
  <2>3. x \in 1 .. n /\ x - 1 \in 0 .. n /\ x - 1 < x
      OBVIOUS
  <2>4. <<x - 1, x>> \in R
      BY <2>3 DEF OpToRel
  <2>5. x - 1 \in P
      BY <2>2, <2>3, <2>4
  <2> QED  BY <2>3, <2>5
<1> QED  BY <1>2

\* The bodies of the n turns of a loop whose state stays in S, and the states that
\* the loop goes through from x on.
Turns(n, S) == [1 .. n -> [S -> S]]
Loops(h, n, S, x, step) ==
    /\ h \in [0 .. n -> S] /\ h[0] = x
    /\ \A i \in 1 .. n : h[i] = step[i][h[i - 1]]

\* There are such states, for every number of turns.
LEMMA LoopExists ==
    ASSUME NEW S, NEW x \in S, NEW n \in Nat, NEW step, step \in Turns(n, S)
    PROVE  \E h : Loops(h, n, S, x, step)
<1>0. step \in [1 .. n -> [S -> S]]
    BY DEF Turns
<1> DEFINE Loop(h, k) == h[0] = x /\ \A i \in 1 .. k : h[i] = step[i][h[i - 1]]
           P == {k \in 0 .. n : \E h \in [0 .. k -> S] : Loop(h, k)}
<1>1. 0 \in P
  <2> DEFINE g == [i \in 0 .. 0 |-> x]
  <2>1. g \in [0 .. 0 -> S] /\ g[0] = x
      OBVIOUS
  <2>2. \A i \in 1 .. 0 : g[i] = step[i][g[i - 1]]
      OBVIOUS
  <2> HIDE DEF g
  <2> QED  BY <2>1, <2>2
<1>2. ASSUME NEW k \in 1 .. n, k - 1 \in P
      PROVE  k \in P
  <2>1. PICK g \in [0 .. k - 1 -> S] : Loop(g, k - 1)
      BY <1>2
  <2> DEFINE h == [i \in 0 .. k |-> IF i = k THEN step[k][g[k - 1]] ELSE g[i]]
  <2>2. g[k - 1] \in S
      OBVIOUS
  <2>3. step[k][g[k - 1]] \in S
      BY <1>0, <2>2
  <2>4. h \in [0 .. k -> S]
      BY <2>3
  <2>5. h[0] = x
      BY <2>1
  <2>6. ASSUME NEW i \in 1 .. k
        PROVE  h[i] = step[i][h[i - 1]]
    <3>1. h[i - 1] = g[i - 1]
        OBVIOUS
    <3>2. CASE i = k
        BY <3>1, <3>2
    <3>3. CASE i # k
      <4>1. i \in 1 .. k - 1
          BY <3>3
      <4>2. g[i] = step[i][g[i - 1]]
          BY <2>1, <4>1
      <4> QED  BY <3>1, <3>3, <4>2
    <3> QED  BY <3>2, <3>3
  <2> HIDE DEF h
  <2> QED  BY <2>4, <2>5, <2>6
<1>3. n \in P
  <2>1. \A i \in 1 .. n : i - 1 \in P => i \in P
      BY <1>2
  <2> HIDE DEF P
  <2>2. 0 .. n \subseteq P
      BY <1>1, <2>1, UpTo
  <2> QED  BY <2>2
<1>4. \E h \in [0 .. n -> S] : Loop(h, n)
    BY <1>3
<1> QED  BY <1>4 DEF Loops

-----------------------------------------------------------------------------
(* The heap *)

Counts == [Kinds -> Int]
MemType == [free : Nat, held : Counts, leaked : Counts,
            short : BOOLEAN, below : BOOLEAN, wild : BOOLEAN]

\* The counts c with n more blocks of one kind.
Plus(c, kind, n, d) == \A k \in Kinds : d[k] = IF k = kind THEN c[k] + n ELSE c[k]

\* Add changes the count of one kind.
LEMMA AddFields ==
    ASSUME NEW c \in Counts, NEW kind \in Kinds, NEW n \in Int
    PROVE  Add(c, kind, n) \in Counts /\ Plus(c, kind, n, Add(c, kind, n))
  BY DEF Add, Counts, Plus

\* The fields of a heap record.
LEMMA MemFields ==
    ASSUME NEW m \in MemType
    PROVE  /\ m.free \in Nat /\ m.held \in Counts /\ m.leaked \in Counts
           /\ m.short \in BOOLEAN /\ m.below \in BOOLEAN /\ m.wild \in BOOLEAN
           /\ \A kind \in Kinds : m.held[kind] \in Int /\ m.leaked[kind] \in Int
<1>1. /\ m.free \in Nat /\ m.held \in Counts /\ m.leaked \in Counts
      /\ m.short \in BOOLEAN /\ m.below \in BOOLEAN /\ m.wild \in BOOLEAN
    BY DEF MemType
<1>2. \A kind \in Kinds : m.held[kind] \in Int /\ m.leaked[kind] \in Int
    BY <1>1 DEF Counts
<1> QED  BY <1>1, <1>2

\* kzalloc takes one block, or fails and says so.
LEMMA KzallocFields ==
    ASSUME NEW m \in MemType, NEW kind \in Kinds
    PROVE  LET n == kzalloc(m, kind)
           IN  /\ n \in MemType
               /\ n.leaked = m.leaked /\ n.below = m.below /\ n.wild = m.wild
               /\ m.free = 0 => n.held = m.held /\ n.short /\ n.free = 0
               /\ m.free # 0 => /\ n.short = m.short /\ n.free = m.free - 1
                                /\ Plus(m.held, kind, 1, n.held)
<1> DEFINE h == Add(m.held, kind, 1)
           f == m.free - 1
<1>1. h \in Counts /\ Plus(m.held, kind, 1, h)
    BY MemFields, AddFields
<1>2. CASE m.free = 0
    BY <1>2 DEF kzalloc, MemType
<1>3. CASE m.free # 0
  <2>1. f \in Nat
      BY <1>3 DEF MemType
  <2>2. kzalloc(m, kind) = [m EXCEPT !.free = f, !.held = h]
      BY <1>3 DEF kzalloc
  <2> HIDE DEF h, f
  <2>3. LET n == kzalloc(m, kind)
        IN  /\ n \in MemType
            /\ n.leaked = m.leaked /\ n.below = m.below /\ n.wild = m.wild
            /\ n.short = m.short /\ n.free = f /\ n.held = h
      BY <1>1, <2>1, <2>2 DEF MemType
  <2> QED  BY <1>1, <1>3, <2>3 DEF f
<1> QED  BY <1>2, <1>3

\* kfree gives k blocks back.
LEMMA KfreeFields ==
    ASSUME NEW m \in MemType, NEW kind \in Kinds, NEW k \in Nat
    PROVE  LET n == kfree(m, kind, k)
           IN  /\ n \in MemType
               /\ n.leaked = m.leaked /\ n.below = m.below /\ n.wild = m.wild
               /\ n.short = m.short /\ n.free = m.free + k
               /\ Plus(m.held, kind, -k, n.held)
<1> DEFINE h == Add(m.held, kind, -k)
           f == m.free + k
<1>1. h \in Counts /\ Plus(m.held, kind, -k, h)
    BY MemFields, AddFields
<1>2. f \in Nat
    BY DEF MemType
<1>3. kfree(m, kind, k) = [m EXCEPT !.free = f, !.held = h]
    BY DEF kfree
<1> HIDE DEF h, f
<1>4. LET n == kfree(m, kind, k)
      IN  /\ n \in MemType
          /\ n.leaked = m.leaked /\ n.below = m.below /\ n.wild = m.wild
          /\ n.short = m.short /\ n.free = f /\ n.held = h
    BY <1>1, <1>2, <1>3 DEF MemType
<1> QED  BY <1>1, <1>4 DEF f

\* Lost blocks stay held.
LEMMA LeakFields ==
    ASSUME NEW m \in MemType, NEW kind \in Kinds, NEW k \in Nat
    PROVE  LET n == Leak(m, kind, k)
           IN  /\ n \in MemType
               /\ n.held = m.held /\ n.below = m.below /\ n.wild = m.wild
               /\ n.short = m.short /\ n.free = m.free
               /\ Plus(m.leaked, kind, k, n.leaked)
<1> DEFINE l == Add(m.leaked, kind, k)
<1>1. l \in Counts /\ Plus(m.leaked, kind, k, l)
    BY MemFields, AddFields
<1>2. Leak(m, kind, k) = [m EXCEPT !.leaked = l]
    BY DEF Leak
<1> HIDE DEF l
<1>3. LET n == Leak(m, kind, k)
      IN  /\ n \in MemType
          /\ n.held = m.held /\ n.below = m.below /\ n.wild = m.wild
          /\ n.short = m.short /\ n.free = m.free /\ n.leaked = l
    BY <1>1, <1>2 DEF MemType
<1> QED  BY <1>1, <1>3

\* kfree(0) only clears the entry below the table.
LEMMA KfreeNullFields ==
    ASSUME NEW m \in MemType
    PROVE  LET n == kfreeNull(m)
           IN  /\ n \in MemType /\ n.below
               /\ n.held = m.held /\ n.leaked = m.leaked /\ n.wild = m.wild
               /\ n.short = m.short /\ n.free = m.free
  BY DEF kfreeNull, MemType

\* What a computation on the heap does to the blocks of a kind, apart from those it loses.
Net(m, kind) == m.held[kind] - m.leaked[kind]

Untouched(m, n, kind) == n.held[kind] = m.held[kind] /\ n.leaked[kind] = m.leaked[kind]

\* The net count of a kind is a number.
LEMMA NetType ==
    ASSUME NEW m \in MemType, NEW kind \in Kinds
    PROVE  Net(m, kind) \in Int
  BY MemFields DEF Net

\* A lost block is not counted any more.
LEMMA NetLeak ==
    ASSUME NEW m \in MemType, NEW kind \in Kinds, NEW k \in Int, NEW n,
           n.held[kind] = m.held[kind], n.leaked[kind] = m.leaked[kind] + k
    PROVE  Net(n, kind) = Net(m, kind) - k
<1> DEFINE a == m.held[kind]
           l == m.leaked[kind]
<1>1. a \in Int /\ l \in Int
    BY MemFields
<1>2. Net(n, kind) = a - (l + k) /\ Net(m, kind) = a - l
    BY DEF Net
<1> HIDE DEF a, l
<1> QED  BY <1>1, <1>2

-----------------------------------------------------------------------------
(* The path parser *)

Strings == Seq(Seq(Nat))

\* pathparser_get_path_part cuts a path into strings.
LEMMA PathPartsType ==
    ASSUME NEW path \in Seq(Nat)
    PROVE  PathParts(path) \in Strings
<1> DEFINE S == Strings \ {<<>>}
           n == Len(path)
           add(parts, c) == IF c = Slash THEN Append(parts, <<>>)
                            ELSE [parts EXCEPT ![Len(parts)] = Append(@, c)]
           x == << <<>> >>
           turn(s, i) == IF i <= 3 THEN x ELSE add(s, path[i])
           step == [i \in 1 .. n |-> [s \in S |-> turn(s, i)]]
           parts == CHOOSE h : h = [i \in 0 .. n |-> turn(h[i - 1], i)]
<1>1. n \in Nat /\ \A i \in 1 .. n : path[i] \in Nat
    BY LenProperties, ElementOfSeq
<1>2. x \in S /\ <<>> \in Seq(Nat)
    BY DEF Strings
<1> HIDE DEF x
<1>3. ASSUME NEW s \in S, NEW c \in Nat
      PROVE  add(s, c) \in S
  <2>1. s \in Seq(Seq(Nat)) /\ s # <<>> /\ Len(s) \in Nat \ {0}
      BY EmptySeq, LenProperties DEF Strings
  <2>2. CASE c = Slash
    <3> DEFINE e == <<>>
               E == Seq(Nat)
    <3>1. e \in E /\ s \in Seq(E)
        BY <1>2, <2>1
    <3> HIDE DEF e, E
    <3>2. Append(s, e) \in Seq(E) /\ Append(s, e) # <<>>
        BY <3>1, AppendProperties
    <3> QED  BY <2>2, <3>2 DEF Strings, e, E
  <2>3. CASE c # Slash
    <3> DEFINE e == Append(s[Len(s)], c)
    <3>1. Len(s) \in 1 .. Len(s) /\ s[Len(s)] \in Seq(Nat)
        BY <2>1, ElementOfSeq
    <3>2. e \in Seq(Nat)
        BY <3>1, AppendProperties
    <3>3. add(s, c) = [s EXCEPT ![Len(s)] = e]
        BY <2>3
    <3> HIDE DEF e
    <3>4. [s EXCEPT ![Len(s)] = e] \in Seq(Seq(Nat)) /\ Len([s EXCEPT ![Len(s)] = e]) = Len(s)
        BY <2>1, <3>1, <3>2, ExceptSeq
    <3>5. Len(<<>>) = 0
        OBVIOUS
    <3> QED  BY <2>1, <3>3, <3>4, <3>5 DEF Strings
  <2> QED  BY <2>2, <2>3
<1> HIDE DEF add
<1>4. \A i \in 1 .. n : \A s \in S : turn(s, i) \in S
    BY <1>1, <1>2, <1>3
<1>5. step \in Turns(n, S) /\ \A i \in 1 .. n : \A s \in S : step[i][s] = turn(s, i)
  <2> HIDE DEF S, turn
  <2> QED  BY <1>4 DEF Turns
<1> HIDE DEF step
<1>6. \E h : h = [i \in 0 .. n |-> turn(h[i - 1], i)]
  <2>1. PICK h : Loops(h, n, S, x, step)
    <3> HIDE DEF S, n
    <3> QED  BY <1>1, <1>2, <1>5, LoopExists
  <2>2. ASSUME NEW i \in 1 .. n
        PROVE  h[i] = turn(h[i - 1], i)
    <3>1. i - 1 \in 0 .. n
        BY <1>1
    <3> HIDE DEF S, turn
    <3>2. h[i - 1] \in S
        BY <2>1, <3>1 DEF Loops
    <3> QED  BY <1>5, <2>1, <3>2 DEF Loops
  <2>3. h[0] = turn(h[0 - 1], 0)
      BY <2>1 DEF Loops
  <2>4. \A i \in 0 .. n : h[i] = turn(h[i - 1], i)
    <3> HIDE DEF turn, S
    <3> QED  BY <1>1, <2>2, <2>3
  <2> HIDE DEF turn, S
  <2>5. h = [i \in 0 .. n |-> h[i]]
      BY <2>1 DEF Loops
  <2>6. h = [i \in 0 .. n |-> turn(h[i - 1], i)]
      BY <2>4, <2>5
  <2> QED  BY <2>6
<1>7. parts = [i \in 0 .. n |-> turn(parts[i - 1], i)]
  <2> HIDE DEF turn
  <2> QED  BY <1>6
<1> HIDE DEF parts
<1>8. \A i \in 0 .. n : parts[i] = turn(parts[i - 1], i)
  <2> HIDE DEF turn
  <2> QED  BY <1>7
<1>9. 0 .. n \subseteq {i \in 0 .. n : parts[i] \in S}
  <2> DEFINE P == {i \in 0 .. n : parts[i] \in S}
  <2>1. 0 \in P
    <3>1. parts[0] = x
        BY <1>1, <1>8
    <3> QED  BY <1>1, <1>2, <3>1
  <2>2. \A i \in 1 .. n : i - 1 \in P => i \in P
    <3> HIDE DEF turn, S
    <3> QED  BY <1>1, <1>4, <1>8
  <2> HIDE DEF P
  <2>3. 0 .. n \subseteq P
      BY <1>1, <2>1, <2>2, UpTo
  <2> QED  BY <2>3 DEF P
<1>10. parts[n] \in S
    BY <1>1, <1>9
<1>11. PathParts(path) = parts[n]
    BY DEF PathParts, parts, add, x
<1> QED  BY <1>10, <1>11

ParseType == [m : MemType, parts : Strings, going : BOOLEAN]

\* What pathparser_parse keeps while it goes over the parts: it holds the blocks
\* of the parts it has made, and 0 is freed only after an allocation failed.
Parsing(m) ==
    {p \in ParseType :
        /\ p.m.wild = m.wild
        /\ p.m.below => p.m.short
        /\ Net(p.m, "path") = Net(m, "path") + PathBlocks(p.parts)
        /\ \A kind \in Kinds \ {"path"} : Untouched(m, p.m, kind)}

\* pathparser_parse_path_part takes two blocks for a part, none for the last one, or
\* loses the one it has.
LEMMA ParsePart ==
    ASSUME NEW m \in MemType, NEW p \in Parsing(m), NEW part \in Seq(Nat)
    PROVE  pathparser_parse_path_part(p, part) \in Parsing(m)
<1> DEFINE string == kzalloc(p.m, "path")
           both == kzalloc(string, "path")
           q == pathparser_parse_path_part(p, part)
<1>1. /\ p.m \in MemType /\ p.parts \in Strings /\ p.going \in BOOLEAN
      /\ p.m.wild = m.wild /\ (p.m.below => p.m.short) /\ p \in ParseType
    BY DEF Parsing, ParseType
<1>2. "path" \in Kinds
    BY DEF Kinds
<1>3. /\ Net(p.m, "path") = Net(m, "path") + PathBlocks(p.parts)
      /\ \A kind \in Kinds \ {"path"} : Untouched(m, p.m, kind)
    BY DEF Parsing
<1>4. /\ string \in MemType /\ string.leaked = p.m.leaked
      /\ string.below = p.m.below /\ string.wild = p.m.wild
      /\ p.m.free = 0 => string.held = p.m.held /\ string.short /\ string.free = 0
      /\ p.m.free # 0 => /\ string.short = p.m.short /\ string.free = p.m.free - 1
                         /\ Plus(p.m.held, "path", 1, string.held)
    BY <1>1, <1>2, KzallocFields
<1> HIDE DEF string
<1>5. /\ both \in MemType /\ both.leaked = string.leaked
      /\ both.below = string.below /\ both.wild = string.wild
      /\ string.free = 0 => both.held = string.held /\ both.short /\ both.free = 0
      /\ string.free # 0 => /\ both.short = string.short /\ both.free = string.free - 1
                            /\ Plus(string.held, "path", 1, both.held)
    BY <1>2, <1>4, KzallocFields
<1> HIDE DEF both
\* A heap with the same blocks, apart from what is lost, is as good.
<1>6. ASSUME NEW n \in MemType, n.wild = m.wild, n.below => n.short,
             Net(n, "path") = Net(p.m, "path"),
             \A kind \in Kinds \ {"path"} : Untouched(p.m, n, kind)
      PROVE  [p EXCEPT !.m = n, !.going = FALSE] \in Parsing(m)
  <2> DEFINE r == [p EXCEPT !.m = n, !.going = FALSE]
  <2>1. r \in ParseType /\ r.m = n /\ r.parts = p.parts
      BY <1>1 DEF ParseType
  <2> HIDE DEF r
  <2>2. \A kind \in Kinds \ {"path"} : Untouched(m, r.m, kind)
      BY <1>3, <1>6, <2>1 DEF Untouched
  <2>3. r \in Parsing(m)
      BY <1>3, <1>6, <2>1, <2>2 DEF Parsing
  <2> QED  BY <2>3 DEF r
<1>7. p.m.free \in Nat /\ \A k \in Kinds : p.m.held[k] \in Int /\ p.m.leaked[k] \in Int
    BY <1>1, MemFields
<1>8. CASE ~ p.going
  <2>1. q = p
      BY <1>8 DEF pathparser_parse_path_part
  <2> QED  BY <2>1
<1>9. CASE p.going /\ part = <<>> /\ p.m.free = 0
  <2> DEFINE n == kfreeNull(string)
  <2>1. q = [p EXCEPT !.m = n, !.going = FALSE]
      BY <1>9 DEF pathparser_parse_path_part, string
  <2>2. n \in MemType /\ n.held = p.m.held /\ n.leaked = p.m.leaked /\ n.wild = m.wild /\ n.short
      BY <1>1, <1>4, <1>9, KfreeNullFields
  <2> HIDE DEF n
  <2>3. Net(n, "path") = Net(p.m, "path") /\ \A kind \in Kinds \ {"path"} : Untouched(p.m, n, kind)
      BY <2>2 DEF Net, Untouched
  <2> QED  BY <1>6, <2>1, <2>2, <2>3
<1>10. CASE p.going /\ part = <<>> /\ p.m.free # 0
  <2> DEFINE n == kfree(string, "path", 1)
  <2>1. q = [p EXCEPT !.m = n, !.going = FALSE]
      BY <1>10 DEF pathparser_parse_path_part, string
  <2>2. /\ n \in MemType /\ n.leaked = p.m.leaked /\ n.wild = m.wild /\ n.short = p.m.short
        /\ n.below = p.m.below /\ Plus(string.held, "path", -1, n.held)
      BY <1>1, <1>2, <1>4, <1>10, KfreeFields
  <2> HIDE DEF n
  <2>4. \A k \in Kinds : n.held[k] = p.m.held[k]
      BY <1>4, <1>7, <1>10, <2>2 DEF Plus
  <2>5. Net(n, "path") = Net(p.m, "path") /\ \A kind \in Kinds \ {"path"} : Untouched(p.m, n, kind)
      BY <1>2, <2>2, <2>4 DEF Net, Untouched
  <2> QED  BY <1>1, <1>6, <2>1, <2>2, <2>5
<1>11. CASE p.going /\ part # <<>> /\ p.m.free = 0
  <2>1. q = [p EXCEPT !.m = string, !.going = FALSE]
      BY <1>11 DEF pathparser_parse_path_part, string
  <2>2. Net(string, "path") = Net(p.m, "path")
        /\ \A kind \in Kinds \ {"path"} : Untouched(p.m, string, kind)
      BY <1>4, <1>11 DEF Net, Untouched
  <2> QED  BY <1>1, <1>4, <1>6, <1>11, <2>1, <2>2
<1>12. CASE p.going /\ part # <<>> /\ p.m.free = 1
  <2> DEFINE n == Leak(both, "path", 1)
  <2>1. q = [p EXCEPT !.m = n, !.going = FALSE]
      BY <1>12 DEF pathparser_parse_path_part, string, both
  <2>2. string.free = 0
      BY <1>4, <1>12
  <2>3. /\ both.held = string.held /\ both.leaked = p.m.leaked /\ both.short
        /\ both.wild = m.wild /\ Plus(p.m.held, "path", 1, string.held)
      BY <1>1, <1>4, <1>5, <1>12, <2>2
  <2>4. /\ n \in MemType /\ Plus(both.leaked, "path", 1, n.leaked) /\ n.held = both.held
        /\ n.wild = both.wild /\ n.short = both.short
      BY <1>2, <1>5, LeakFields
  <2> HIDE DEF n
  <2>5. Net(n, "path") = Net(p.m, "path")
    <3>1. n.held["path"] = p.m.held["path"] + 1 /\ n.leaked["path"] = p.m.leaked["path"] + 1
        BY <1>2, <2>3, <2>4 DEF Plus
    <3>2. p.m.held["path"] \in Int /\ p.m.leaked["path"] \in Int
        BY <1>2, <1>7
    <3> DEFINE a == p.m.held["path"]
               b == p.m.leaked["path"]
    <3>3. Net(n, "path") = (a + 1) - (b + 1) /\ Net(p.m, "path") = a - b
        BY <3>1 DEF Net
    <3>4. a \in Int /\ b \in Int
        BY <3>2
    <3> HIDE DEF a, b
    <3> QED  BY <3>3, <3>4
  <2>6. \A kind \in Kinds \ {"path"} : Untouched(p.m, n, kind)
      BY <2>3, <2>4 DEF Untouched, Plus
  <2> QED  BY <1>6, <2>1, <2>3, <2>4, <2>5, <2>6
<1>13. CASE p.going /\ part # <<>> /\ p.m.free # 0 /\ p.m.free # 1
  <2> DEFINE more == Append(p.parts, part)
  <2>1. q = [p EXCEPT !.m = both, !.parts = more]
      BY <1>13 DEF pathparser_parse_path_part, string, both
  <2>2. more \in Strings /\ Len(more) = Len(p.parts) + 1 /\ Len(p.parts) \in Nat
    <3> DEFINE E == Seq(Nat)
    <3>1. p.parts \in Seq(E) /\ part \in E
        BY <1>1 DEF Strings
    <3> HIDE DEF E
    <3>2. more \in Seq(E) /\ Len(more) = Len(p.parts) + 1 /\ Len(p.parts) \in Nat
        BY <3>1, AppendProperties, LenProperties
    <3> QED  BY <3>2 DEF Strings, E
  <2> HIDE DEF more
  <2>3. q \in ParseType /\ q.m = both /\ q.parts = more
      BY <1>1, <1>5, <2>1, <2>2 DEF ParseType
  <2>4. string.free # 0 /\ Plus(p.m.held, "path", 1, string.held)
      BY <1>4, <1>7, <1>13
  <2>5. Plus(string.held, "path", 1, both.held)
      BY <1>5, <2>4
  <2>6. \A k \in Kinds : both.held[k] = IF k = "path" THEN p.m.held[k] + 2 ELSE p.m.held[k]
      BY <1>7, <2>4, <2>5 DEF Plus
  <2>7. PathBlocks(more) = PathBlocks(p.parts) + 2
      BY <2>2 DEF PathBlocks
  <2>8. Net(both, "path") = Net(p.m, "path") + 2
      BY <1>2, <1>4, <1>5, <1>7, <2>6 DEF Net
  <2>9. Net(q.m, "path") = Net(m, "path") + PathBlocks(q.parts)
    <3>1. Net(m, "path") \in Int /\ PathBlocks(p.parts) \in Int
        BY <1>2, <2>2, MemFields DEF Net, PathBlocks
    <3> QED  BY <1>3, <2>3, <2>7, <2>8, <3>1
  <2>10. \A kind \in Kinds \ {"path"} : Untouched(m, q.m, kind)
      BY <1>3, <1>4, <1>5, <2>3, <2>6 DEF Untouched
  <2>11. q.m.wild = m.wild /\ (q.m.below => q.m.short)
      BY <1>1, <1>4, <1>5, <1>13, <2>3, <2>4
  <2> QED  BY <2>3, <2>9, <2>10, <2>11 DEF Parsing
<1> QED  BY <1>8, <1>9, <1>10, <1>11, <1>12, <1>13

\* What pathparser_parse goes through when there is a drive and a root.
LEMMA ParseLoop ==
    ASSUME NEW m \in MemType, m.below => m.short, NEW path \in Seq(Nat),
           pathparser_path_valid_format(path), Len(path) <= MaxPath, m.free # 0
    PROVE  LET strings == Append(PathParts(path), <<>>)
               n == Len(strings)
               p == pathparser_parse(m, path)
           IN  /\ n \in Nat /\ p.root = TRUE
               /\ \E h : /\ h[0] = [m |-> kzalloc(m, "path"), parts |-> <<>>, going |-> TRUE]
                         /\ \A i \in 1 .. n : h[i] = pathparser_parse_path_part(h[i - 1], strings[i])
                         /\ \A i \in 0 .. n : h[i] \in Parsing(m)
                         /\ p.m = h[n].m /\ p.parts = h[n].parts
<1> DEFINE start == [m |-> kzalloc(m, "path"), parts |-> <<>>, going |-> TRUE]
           strings == Append(PathParts(path), <<>>)
           n == Len(strings)
           S == Parsing(m)
           x == start
           turn(s, i) == pathparser_parse_path_part(s, strings[i])
           step == [i \in 1 .. n |-> [s \in S |-> turn(s, i)]]
           parsed == CHOOSE h : h = [i \in 0 .. n |-> IF i = 0 THEN x ELSE turn(h[i - 1], i)]
           p == pathparser_parse(m, path)
<1>1. "path" \in Kinds /\ <<>> \in Seq(Nat) /\ <<>> \in Strings
    BY EmptySeq DEF Kinds, Strings
<1>2. /\ start.m \in MemType /\ start.m.leaked = m.leaked
      /\ start.m.below = m.below /\ start.m.wild = m.wild
      /\ m.free = 0 => start.m.held = m.held /\ start.m.short
      /\ m.free # 0 => start.m.short = m.short /\ Plus(m.held, "path", 1, start.m.held)
    BY <1>1, KzallocFields
<1>3. \A k \in Kinds : m.held[k] \in Int /\ m.leaked[k] \in Int
    BY MemFields
<1>4. n \in Nat /\ \A i \in 1 .. n : strings[i] \in Seq(Nat)
  <2> DEFINE E == Seq(Nat)
             e == <<>>
             parts == PathParts(path)
  <2>1. parts \in Seq(E) /\ e \in E
      BY <1>1, PathPartsType DEF Strings
  <2> HIDE DEF E, e, parts
  <2>2. Append(parts, e) \in Seq(E)
      BY <2>1, AppendProperties
  <2>3. Len(Append(parts, e)) \in Nat /\ \A i \in 1 .. Len(Append(parts, e)) : Append(parts, e)[i] \in E
      BY <2>2, LenProperties, ElementOfSeq
  <2> QED  BY <2>3 DEF E, e, parts
<1> HIDE DEF strings
<1>10. Len(path) \in Int /\ MaxPath \in Int
    BY LenProperties, FatOpenAssumption
<1>7. ASSUME m.free # 0
      PROVE  n \in Nat /\ x \in S
  <2>1. x \in ParseType /\ x.m = start.m /\ x.parts = <<>>
      BY <1>1, <1>2 DEF ParseType
  <2> HIDE DEF start
  <2>2. PathBlocks(x.parts) = 1
      BY <2>1, EmptySeq DEF PathBlocks
  <2>3. Net(x.m, "path") = Net(m, "path") + PathBlocks(x.parts)
      BY <1>1, <1>2, <1>3, <1>7, <2>1, <2>2 DEF Net, Plus
  <2>4. \A kind \in Kinds \ {"path"} : Untouched(m, x.m, kind)
      BY <1>2, <1>7, <2>1 DEF Untouched, Plus
  <2> QED  BY <1>2, <1>4, <1>7, <2>1, <2>3, <2>4 DEF Parsing
<1>8. \A i \in 1 .. n : \A s \in S : turn(s, i) \in S
  <2> HIDE DEF n
  <2> QED  BY <1>4, ParsePart
<1>11. n \in Nat /\ x \in S
    BY <1>7
<1>12. step \in Turns(n, S) /\ \A i \in 1 .. n : \A s \in S : step[i][s] = turn(s, i)
  <2> HIDE DEF S, turn, n
  <2> QED  BY <1>8 DEF Turns
<1> HIDE DEF step, turn, S, n, x
<1>13. \E h : h = [i \in 0 .. n |-> IF i = 0 THEN x ELSE turn(h[i - 1], i)]
  <2>1. PICK h : Loops(h, n, S, x, step)
      BY <1>11, <1>12, LoopExists
  <2>2. ASSUME NEW i \in 1 .. n
        PROVE  h[i] = turn(h[i - 1], i)
    <3>1. i - 1 \in 0 .. n
        BY <1>11
    <3>2. h[i - 1] \in S
        BY <2>1, <3>1 DEF Loops
    <3> QED  BY <1>12, <2>1, <3>2 DEF Loops
  <2>3. \A i \in 0 .. n : h[i] = IF i = 0 THEN x ELSE turn(h[i - 1], i)
      BY <1>11, <2>1, <2>2 DEF Loops
  <2>4. h = [i \in 0 .. n |-> h[i]]
      BY <2>1 DEF Loops
  <2> QED  BY <2>3, <2>4
<1>14. parsed = [i \in 0 .. n |-> IF i = 0 THEN x ELSE turn(parsed[i - 1], i)]
    BY <1>13
<1> HIDE DEF parsed
<1>15. parsed[0] = x /\ \A i \in 1 .. n : parsed[i] = turn(parsed[i - 1], i)
    BY <1>11, <1>14
<1>16. \A i \in 0 .. n : parsed[i] \in S
  <2> DEFINE P == {i \in 0 .. n : parsed[i] \in S}
  <2>1. 0 \in P
      BY <1>11, <1>15
  <2>2. \A i \in 1 .. n : i - 1 \in P => i \in P
      BY <1>11, <1>8, <1>15
  <2> HIDE DEF P
  <2>3. 0 .. n \subseteq P
      BY <1>11, <2>1, <2>2, UpTo
  <2> QED  BY <1>11, <2>3 DEF P
<1>17. p = [m |-> parsed[n].m, root |-> TRUE, drive |-> tonumericdigit(path[1]), parts |-> parsed[n].parts]
  <2>1. p = CASE Len(path) > MaxPath \/ ~ pathparser_path_valid_format(path) ->
                    [m |-> m, root |-> FALSE, drive |-> -1, parts |-> <<>>]
              [] pathparser_path_valid_format(path) /\ Len(path) <= MaxPath /\ m.free = 0 ->
                    [m |-> start.m, root |-> FALSE, drive |-> -1, parts |-> <<>>]
              [] OTHER -> [m |-> parsed[n].m, root |-> TRUE,
                           drive |-> tonumericdigit(path[1]), parts |-> parsed[n].parts]
      BY DEF pathparser_parse, parsed, n, strings, turn, x
  <2> HIDE DEF p, start
  <2> QED  BY <1>10, <2>1
<1>18. p.m = parsed[n].m /\ p.root = TRUE /\ p.parts = parsed[n].parts
    BY <1>17
<1> HIDE DEF p
<1> QED  BY <1>11, <1>15, <1>16, <1>18 DEF S, p, turn, x, start, n, strings

\* pathparser_parse takes the blocks of the path it returns, apart from those it loses.
LEMMA ParseResult ==
    ASSUME NEW m \in MemType, m.below => m.short, NEW path \in Seq(Nat)
    PROVE  LET p == pathparser_parse(m, path)
           IN  /\ p.m \in MemType /\ p.parts \in Strings /\ p.root \in BOOLEAN
               /\ p.m.wild = m.wild /\ (p.m.below => p.m.short)
               /\ Net(p.m, "path") = Net(m, "path") + IF p.root THEN PathBlocks(p.parts) ELSE 0
               /\ \A kind \in Kinds \ {"path"} : Untouched(m, p.m, kind)
<1> DEFINE start == [m |-> kzalloc(m, "path"), parts |-> <<>>, going |-> TRUE]
           p == pathparser_parse(m, path)
<1>1. "path" \in Kinds /\ <<>> \in Seq(Nat) /\ <<>> \in Strings
    BY EmptySeq DEF Kinds, Strings
<1>2. /\ start.m \in MemType /\ start.m.leaked = m.leaked
      /\ start.m.below = m.below /\ start.m.wild = m.wild
      /\ m.free = 0 => start.m.held = m.held /\ start.m.short
      /\ m.free # 0 => start.m.short = m.short /\ Plus(m.held, "path", 1, start.m.held)
    BY <1>1, KzallocFields
<1>3. \A k \in Kinds : m.held[k] \in Int /\ m.leaked[k] \in Int
    BY MemFields
<1>10. Len(path) \in Int /\ MaxPath \in Int
    BY LenProperties, FatOpenAssumption
<1>5. CASE Len(path) > MaxPath \/ ~ pathparser_path_valid_format(path)
  <2>1. p = [m |-> m, root |-> FALSE, drive |-> -1, parts |-> <<>>]
      BY <1>5, <1>10 DEF pathparser_parse
  <2>2. p.m = m /\ p.root = FALSE /\ p.parts = <<>>
      BY <2>1
  <2> HIDE DEF p
  <2>3. Net(m, "path") = Net(m, "path") + 0
      BY <1>1, <1>3 DEF Net
  <2> QED  BY <1>1, <2>2, <2>3 DEF p, Untouched
<1>6. CASE pathparser_path_valid_format(path) /\ Len(path) <= MaxPath /\ m.free = 0
  <2>1. p = [m |-> start.m, root |-> FALSE, drive |-> -1, parts |-> <<>>]
      BY <1>6, <1>10 DEF pathparser_parse
  <2>2. p.m = start.m /\ p.root = FALSE /\ p.parts = <<>>
      BY <2>1
  <2> HIDE DEF p, start
  <2>3. Net(p.m, "path") = Net(m, "path") + 0
      BY <1>1, <1>2, <1>3, <1>6, <2>2 DEF Net
  <2> QED  BY <1>1, <1>2, <1>6, <2>2, <2>3 DEF p, Untouched
<1>9. CASE pathparser_path_valid_format(path) /\ Len(path) <= MaxPath /\ m.free # 0
  <2> DEFINE n == Len(Append(PathParts(path), <<>>))
  <2>1. n \in Nat /\ p.root = TRUE
      BY <1>9, ParseLoop
  <2>2. PICK h : (\A i \in 0 .. n : h[i] \in Parsing(m)) /\ p.m = h[n].m /\ p.parts = h[n].parts
      BY <1>9, ParseLoop
  <2> HIDE DEF n, p
  <2>3. h[n] \in Parsing(m)
      BY <2>1, <2>2
  <2> QED  BY <2>1, <2>2, <2>3 DEF Parsing, ParseType, p
<1> QED  BY <1>5, <1>6, <1>9, <1>10

-----------------------------------------------------------------------------
(* The FAT16 lookups *)

\* The blocks of what a lookup found.
Blocks(item) == IF item = NULL THEN 0 ELSE ItemBlocks(item)

\* The fields of an item.
LEMMA ItemFields ==
    ASSUME NEW slot \in SlotType, NEW b \in {"whole", "null", "freed"}
    PROVE  /\ Item(slot, b) \in ItemType /\ Item(slot, b) # NULL
           /\ Item(slot, b).type = TypeOf(slot) /\ Item(slot, b).body = b
           /\ TypeOf(slot) \in {"file", "directory"}
<1>1. TypeOf(slot) \in {"file", "directory"}
    BY DEF TypeOf
<1> HIDE DEF SlotType
<1>2. Item(slot, b) \in ItemType
    BY <1>1 DEF Item, ItemType
<1> QED  BY <1>1, <1>2, FilesAssumption DEF Item

\* An item has a number of blocks.
LEMMA BlocksType ==
    ASSUME NEW item \in ItemType \cup {NULL}
    PROVE  Blocks(item) \in Nat /\ ItemBlocks(item) \in Nat
  BY DEF Blocks, ItemBlocks

\* What a search in a directory, begun with the heap m, may have come to: it holds
\* the blocks of the item it found, apart from those it lost, and the item is
\* whole unless an allocation has failed.
SearchType == [m : MemType, item : ItemType \cup {NULL}]
Searching(m) ==
    {r \in SearchType :
        /\ r.m.wild = m.wild /\ r.m.below = m.below
        /\ m.short => r.m.short
        /\ r.m.short \/ r.item = NULL \/ r.item.body = "whole"
        /\ Net(r.m, "item") = Net(m, "item") + Blocks(r.item)
        /\ \A kind \in Kinds \ {"item"} : Untouched(m, r.m, kind)}

\* A search that goes on with a heap of the same blocks, apart from those that are lost.
LEMMA SearchFrom ==
    ASSUME NEW m, NEW n, n.wild = m.wild, n.below = m.below, m.short => n.short,
           Net(n, "item") = Net(m, "item"), \A kind \in Kinds \ {"item"} : Untouched(m, n, kind),
           NEW r \in Searching(n)
    PROVE  r \in Searching(m)
<1>1. /\ r \in SearchType
      /\ r.m.wild = n.wild /\ r.m.below = n.below
      /\ n.short => r.m.short
      /\ r.m.short \/ r.item = NULL \/ r.item.body = "whole"
      /\ Net(r.m, "item") = Net(n, "item") + Blocks(r.item)
      /\ \A kind \in Kinds \ {"item"} : Untouched(n, r.m, kind)
    BY DEF Searching
<1>2. \A kind \in Kinds \ {"item"} : Untouched(m, r.m, kind)
    BY <1>1 DEF Untouched
<1> QED  BY <1>1, <1>2 DEF Searching

\* fat16_new_fat_item_for_directory_item: every allocation of it may be the first that
\* fails.
LEMMA NewItem ==
    ASSUME NEW m \in MemType, NEW slot \in SlotType
    PROVE  fat16_new_fat_item_for_directory_item(m, slot) \in Searching(m)
<1> DEFINE item == kzalloc(m, "item")
           body == kzalloc(item, "item")
           slots == kzalloc(body, "item")
           freed == kfree(slots, "item", 1)
           r == fat16_new_fat_item_for_directory_item(m, slot)
<1>1. "item" \in Kinds /\ m.free \in Nat /\ \A k \in Kinds : m.held[k] \in Int /\ m.leaked[k] \in Int
    BY MemFields DEF Kinds
<1>2. /\ item \in MemType /\ item.leaked = m.leaked
      /\ item.below = m.below /\ item.wild = m.wild
      /\ m.free = 0 => item.held = m.held /\ item.short /\ item.free = 0
      /\ m.free # 0 => /\ item.short = m.short /\ item.free = m.free - 1
                       /\ Plus(m.held, "item", 1, item.held)
    BY <1>1, KzallocFields
<1> HIDE DEF item
<1>3. /\ body \in MemType /\ body.leaked = item.leaked
      /\ body.below = item.below /\ body.wild = item.wild
      /\ item.free = 0 => body.held = item.held /\ body.short /\ body.free = 0
      /\ item.free # 0 => /\ body.short = item.short /\ body.free = item.free - 1
                          /\ Plus(item.held, "item", 1, body.held)
    BY <1>1, <1>2, KzallocFields
<1> HIDE DEF body
<1>4. /\ slots \in MemType /\ slots.leaked = body.leaked
      /\ slots.below = body.below /\ slots.wild = body.wild
      /\ body.free = 0 => slots.held = body.held /\ slots.short /\ slots.free = 0
      /\ body.free # 0 => /\ slots.short = body.short /\ slots.free = body.free - 1
                          /\ Plus(body.held, "item", 1, slots.held)
    BY <1>1, <1>3, KzallocFields
<1> HIDE DEF slots
<1>5. /\ freed \in MemType /\ freed.leaked = slots.leaked
      /\ freed.below = slots.below /\ freed.wild = slots.wild
      /\ freed.short = slots.short /\ Plus(slots.held, "item", -1, freed.held)
    BY <1>1, <1>4, KfreeFields
<1> HIDE DEF freed
\* k more blocks of the item, and an item of k blocks.
<1>6. ASSUME NEW n \in MemType, n.leaked = m.leaked, n.below = m.below, n.wild = m.wild,
             m.short => n.short, NEW k \in Nat, NEW i \in ItemType \cup {NULL}, Blocks(i) = k,
             n.short \/ i = NULL \/ i.body = "whole",
             Plus(m.held, "item", k, n.held), r = [m |-> n, item |-> i]
      PROVE  r \in Searching(m)
  <2>1. r \in SearchType /\ r.m = n /\ r.item = i
      BY <1>6 DEF SearchType
  <2> HIDE DEF r
  <2>2. n.held["item"] = m.held["item"] + k
      BY <1>1, <1>6 DEF Plus
  <2>3. Net(n, "item") = Net(m, "item") + k
      BY <1>1, <1>6, <2>2 DEF Net
  <2>4. \A kind \in Kinds \ {"item"} : Untouched(m, n, kind)
      BY <1>6 DEF Plus, Untouched
  <2>5. r \in Searching(m)
      BY <1>6, <2>1, <2>3, <2>4 DEF Searching
  <2> QED  BY <2>5 DEF r
<1>7. \A b \in {"whole", "null", "freed"} :
        /\ Item(slot, b) \in ItemType /\ Item(slot, b) # NULL
        /\ Item(slot, b).type = TypeOf(slot) /\ Item(slot, b).body = b
        /\ TypeOf(slot) \in {"file", "directory"}
    BY ItemFields
<1>8. CASE m.free = 0
  <2>1. r = [m |-> item, item |-> NULL]
      BY <1>8 DEF fat16_new_fat_item_for_directory_item, item
  <2>2. Blocks(NULL) = 0
      BY DEF Blocks
  <2>3. Plus(m.held, "item", 0, item.held)
      BY <1>1, <1>2, <1>8 DEF Plus
  <2> QED  BY <1>2, <1>6, <1>8, <2>1, <2>2, <2>3
<1>9. CASE m.free = 1
  <2>1. r = [m |-> body, item |-> Item(slot, "null")]
      BY <1>9 DEF fat16_new_fat_item_for_directory_item, item, body
  <2>2. Blocks(Item(slot, "null")) = 1
      BY <1>7 DEF Blocks, ItemBlocks
  <2>3. item.free = 0
      BY <1>2, <1>9
  <2>4. Plus(m.held, "item", 1, body.held) /\ body.short
      BY <1>2, <1>3, <1>9, <2>3
  <2> QED  BY <1>2, <1>3, <1>6, <1>7, <2>1, <2>2, <2>4
<1>10. ASSUME m.free # 0, m.free # 1
       PROVE  /\ item.free # 0 /\ item.short = m.short /\ body.short = m.short
              /\ body.free = m.free - 2 /\ Plus(m.held, "item", 2, body.held)
  <2>1. item.free # 0 /\ item.free = m.free - 1 /\ Plus(m.held, "item", 1, item.held)
      BY <1>1, <1>2, <1>10
  <2>2. body.free = item.free - 1 /\ Plus(item.held, "item", 1, body.held)
      BY <1>3, <2>1
  <2>3. Plus(m.held, "item", 2, body.held)
      BY <1>1, <2>1, <2>2 DEF Plus
  <2> QED  BY <1>1, <1>2, <1>3, <1>10, <2>1, <2>2, <2>3
<1>11. CASE m.free # 0 /\ m.free # 1 /\ TypeOf(slot) = "file"
  <2>1. r = [m |-> body, item |-> Item(slot, "whole")]
      BY <1>1, <1>11 DEF fat16_new_fat_item_for_directory_item, item, body
  <2>2. Blocks(Item(slot, "whole")) = 2
      BY <1>7, <1>11 DEF Blocks, ItemBlocks
  <2> QED  BY <1>2, <1>3, <1>6, <1>7, <1>10, <1>11, <2>1, <2>2
<1>12. CASE m.free = 2 /\ TypeOf(slot) = "directory"
  <2>1. r = [m |-> freed, item |-> Item(slot, "freed")]
      BY <1>12 DEF fat16_new_fat_item_for_directory_item, item, body, slots, freed
  <2>2. Blocks(Item(slot, "freed")) = 1
      BY <1>7 DEF Blocks, ItemBlocks
  <2>3. body.free = 0 /\ Plus(m.held, "item", 2, body.held)
      BY <1>10, <1>12
  <2>4. Plus(m.held, "item", 1, freed.held) /\ freed.short
      BY <1>1, <1>4, <1>5, <2>3 DEF Plus
  <2> QED  BY <1>2, <1>3, <1>4, <1>5, <1>6, <1>7, <2>1, <2>2, <2>4
<1>13. CASE m.free # 0 /\ m.free # 1 /\ m.free # 2 /\ TypeOf(slot) = "directory"
  <2>1. r = [m |-> slots, item |-> Item(slot, "whole")]
      BY <1>13 DEF fat16_new_fat_item_for_directory_item, item, body, slots
  <2>2. Blocks(Item(slot, "whole")) = 3
      BY <1>7, <1>13 DEF Blocks, ItemBlocks
  <2>3. body.free # 0 /\ Plus(m.held, "item", 2, body.held)
      BY <1>1, <1>10, <1>13
  <2>4. Plus(m.held, "item", 3, slots.held)
      BY <1>1, <1>4, <2>3 DEF Plus
  <2> QED  BY <1>2, <1>3, <1>4, <1>6, <1>7, <1>10, <1>13, <2>1, <2>2, <2>3, <2>4
<1> QED  BY <1>7, <1>8, <1>9, <1>11, <1>12, <1>13

\* One turn of fat16_find_item_in_directory.
LEMMA LookAtSearching ==
    ASSUME NEW m \in MemType, NEW at \in Searching(m), NEW slot \in SlotType, NEW name
    PROVE  LookAt(at, slot, name) \in Searching(m)
<1> DEFINE n == IF at.item = NULL THEN at.m ELSE Leak(at.m, "item", ItemBlocks(at.item))
           r == fat16_new_fat_item_for_directory_item(n, slot)
<1>1. /\ at.m \in MemType /\ at.item \in ItemType \cup {NULL}
      /\ at.m.wild = m.wild /\ at.m.below = m.below /\ (m.short => at.m.short)
      /\ Net(at.m, "item") = Net(m, "item") + Blocks(at.item)
      /\ \A kind \in Kinds \ {"item"} : Untouched(m, at.m, kind)
    BY DEF Searching, SearchType
<1>2. "item" \in Kinds /\ at.m.held["item"] \in Int /\ at.m.leaked["item"] \in Int
    BY <1>1, MemFields DEF Kinds
<1>3. Net(m, "item") \in Int
    BY <1>2, MemFields DEF Net
<1>4. CASE at.item = NULL
  <2>1. n = at.m
      BY <1>4
  <2>2. Net(at.m, "item") = Net(m, "item")
      BY <1>1, <1>3, <1>4 DEF Blocks
  <2>3. r \in Searching(at.m)
      BY <1>1, <2>1, NewItem
  <2> HIDE DEF r
  <2>4. r \in Searching(m)
      BY <1>1, <2>2, <2>3, SearchFrom
  <2> QED  BY <2>4 DEF LookAt, r
<1>5. CASE at.item # NULL
  <2>1. n = Leak(at.m, "item", ItemBlocks(at.item)) /\ ItemBlocks(at.item) \in Nat
      BY <1>1, <1>5, BlocksType
  <2>2. /\ n \in MemType /\ n.held = at.m.held /\ n.below = at.m.below /\ n.wild = at.m.wild
        /\ n.short = at.m.short /\ Plus(at.m.leaked, "item", ItemBlocks(at.item), n.leaked)
      BY <1>1, <1>2, <2>1, LeakFields
  <2> HIDE DEF n
  <2>3. Net(n, "item") = Net(m, "item")
    <3> DEFINE k == ItemBlocks(at.item)
    <3>1. n.leaked["item"] = at.m.leaked["item"] + k /\ Net(at.m, "item") = Net(m, "item") + k
        BY <1>1, <1>2, <1>5, <2>2 DEF Plus, Blocks
    <3>2. k \in Nat
        BY <2>1
    <3> HIDE DEF k
    <3> QED  BY <1>2, <1>3, <2>2, <3>1, <3>2 DEF Net
  <2>4. \A kind \in Kinds \ {"item"} : Untouched(m, n, kind)
      BY <1>1, <2>2 DEF Plus, Untouched
  <2>5. r \in Searching(n)
      BY <2>2, NewItem
  <2> HIDE DEF r
  <2>6. r \in Searching(m)
      BY <1>1, <2>2, <2>3, <2>4, <2>5, SearchFrom
  <2> QED  BY <2>6 DEF LookAt, r, n
<1> QED  BY <1>4, <1>5

\* fat16_find_item_in_directory reads no slot behind the last and keeps account of
\* the items it replaces.
LEMMA FoundLoop ==
    ASSUME NEW m \in MemType, NEW slots \in Seq(SlotType), NEW name
    PROVE  LET n == fat16_get_total_items_for_directory(slots)
           IN  /\ n \in Nat /\ n <= Len(slots) /\ Len(slots) \in Nat
               /\ \E h : /\ h[0] = [m |-> m, item |-> NULL]
                         /\ \A i \in 1 .. n : h[i] = LookAt(h[i - 1], slots[i], name)
                         /\ \A i \in 0 .. n : h[i] \in Searching(m)
                         /\ fat16_find_item_in_directory(m, slots, name) = h[n]
<1> DEFINE n == fat16_get_total_items_for_directory(slots)
           S == Searching(m)
           x == [m |-> m, item |-> NULL]
           turn(s, i) == LookAt(s, slots[i], name)
           step == [i \in 1 .. n |-> [s \in S |-> turn(s, i)]]
           looked == CHOOSE h : h = [i \in 0 .. n |-> IF i = 0 THEN x ELSE turn(h[i - 1], i)]
<1>1. n \in Nat /\ n <= Len(slots) /\ Len(slots) \in Nat
  <2> DEFINE D == {i \in DOMAIN slots : ~ Deleted(slots[i])}
             k == Len(slots)
  <2>1. k \in Nat /\ D \subseteq 1 .. k
    <3> HIDE DEF SlotType
    <3> QED  BY LenProperties
  <2>2. n = Cardinality(D)
      BY DEF fat16_get_total_items_for_directory
  <2> HIDE DEF D, n, k
  <2>3. IsFiniteSet(1 .. k) /\ Cardinality(1 .. k) = k
      BY <2>1, FS_Interval
  <2>4. IsFiniteSet(D) /\ Cardinality(D) <= Cardinality(1 .. k)
      BY <2>1, <2>3, FS_Subset
  <2>5. Cardinality(D) \in Nat
      BY <2>4, FS_CardinalityType
  <2> QED  BY <2>1, <2>2, <2>3, <2>4, <2>5 DEF k
<1> HIDE DEF n
<1>2. \A i \in 1 .. n : slots[i] \in SlotType
  <2> HIDE DEF SlotType
  <2>1. Len(slots) \in Nat /\ \A i \in 1 .. Len(slots) : slots[i] \in SlotType
      BY LenProperties, ElementOfSeq
  <2> QED  BY <1>1, <2>1
<1>3. x \in S
  <2>1. x \in SearchType /\ x.m = m /\ x.item = NULL
      BY DEF SearchType
  <2> HIDE DEF x
  <2>2. Net(m, "item") \in Int
      BY MemFields DEF Net, Kinds
  <2>3. Net(x.m, "item") = Net(m, "item") + Blocks(x.item)
      BY <2>1, <2>2 DEF Blocks
  <2> QED  BY <2>1, <2>3 DEF Searching, Untouched
<1>4. \A i \in 1 .. n : \A s \in S : turn(s, i) \in S
  <2> HIDE DEF SlotType
  <2> QED  BY <1>2, LookAtSearching
<1>5. step \in Turns(n, S) /\ \A i \in 1 .. n : \A s \in S : step[i][s] = turn(s, i)
  <2> HIDE DEF S, turn, n
  <2> QED  BY <1>4 DEF Turns
<1> HIDE DEF step, turn, S, n, x
<1>6. \E h : h = [i \in 0 .. n |-> IF i = 0 THEN x ELSE turn(h[i - 1], i)]
  <2>1. PICK h : Loops(h, n, S, x, step)
      BY <1>1, <1>3, <1>5, LoopExists
  <2>2. ASSUME NEW i \in 1 .. n
        PROVE  h[i] = turn(h[i - 1], i)
    <3>1. i - 1 \in 0 .. n
        BY <1>1
    <3>2. h[i - 1] \in S
        BY <2>1, <3>1 DEF Loops
    <3> QED  BY <1>5, <2>1, <3>2 DEF Loops
  <2>3. \A i \in 0 .. n : h[i] = IF i = 0 THEN x ELSE turn(h[i - 1], i)
      BY <1>1, <2>1, <2>2 DEF Loops
  <2>4. h = [i \in 0 .. n |-> h[i]]
      BY <2>1 DEF Loops
  <2> QED  BY <2>3, <2>4
<1>7. looked = [i \in 0 .. n |-> IF i = 0 THEN x ELSE turn(looked[i - 1], i)]
    BY <1>6
<1> HIDE DEF looked
<1>8. looked[0] = x /\ \A i \in 1 .. n : looked[i] = turn(looked[i - 1], i)
    BY <1>1, <1>7
<1>9. \A i \in 0 .. n : looked[i] \in S
  <2> DEFINE P == {i \in 0 .. n : looked[i] \in S}
  <2>1. 0 \in P
      BY <1>1, <1>3, <1>8
  <2>2. \A i \in 1 .. n : i - 1 \in P => i \in P
      BY <1>1, <1>4, <1>8
  <2> HIDE DEF P
  <2>3. 0 .. n \subseteq P
      BY <1>1, <2>1, <2>2, UpTo
  <2> QED  BY <1>1, <2>3 DEF P
<1>10. fat16_find_item_in_directory(m, slots, name) = looked[n]
    BY DEF fat16_find_item_in_directory, looked, n, turn, x
<1> QED  BY <1>1, <1>8, <1>9, <1>10 DEF S, x, turn, n

\* fat16_find_item_in_directory is such a search.
LEMMA Found ==
    ASSUME NEW m \in MemType, NEW slots \in Seq(SlotType), NEW name
    PROVE  fat16_find_item_in_directory(m, slots, name) \in Searching(m)
<1> DEFINE n == fat16_get_total_items_for_directory(slots)
<1>1. n \in Nat
    BY FoundLoop
<1>2. PICK h : /\ h[0] = [m |-> m, item |-> NULL]
               /\ \A i \in 1 .. n : h[i] = LookAt(h[i - 1], slots[i], name)
               /\ \A i \in 0 .. n : h[i] \in Searching(m)
               /\ fat16_find_item_in_directory(m, slots, name) = h[n]
  <2> HIDE DEF SlotType
  <2> QED  BY FoundLoop
<1> HIDE DEF n
<1> QED  BY <1>1, <1>2

\* fat16_fat_item_free gives back the blocks of the item; 0 is freed only for a file
\* without its slot.
LEMMA ItemFree ==
    ASSUME NEW m \in MemType, NEW item \in ItemType
    PROVE  LET n == fat16_fat_item_free(m, item)
           IN  /\ n \in MemType /\ n.leaked = m.leaked /\ n.wild = m.wild /\ n.short = m.short
               /\ n.below => m.below \/ item.body = "null"
               /\ item.body = "whole" => n.below = m.below
               /\ Plus(m.held, "item", -ItemBlocks(item), n.held)
<1> DEFINE freed == kfree(m, "item", ItemBlocks(item))
           n == fat16_fat_item_free(m, item)
<1>1. "item" \in Kinds /\ ItemBlocks(item) \in Nat
    BY BlocksType DEF Kinds
<1>2. /\ freed \in MemType
      /\ freed.leaked = m.leaked /\ freed.below = m.below /\ freed.wild = m.wild
      /\ freed.short = m.short /\ Plus(m.held, "item", -ItemBlocks(item), freed.held)
    BY <1>1, KfreeFields
<1> HIDE DEF freed
<1>3. CASE item.type = "file" /\ item.body = "null"
  <2>1. n = kfreeNull(freed)
      BY <1>3 DEF fat16_fat_item_free, freed
  <2> HIDE DEF n
  <2>2. /\ n \in MemType /\ n.leaked = m.leaked /\ n.wild = m.wild /\ n.short = m.short
        /\ n.held = freed.held
      BY <1>2, <2>1, KfreeNullFields
  <2> QED  BY <1>2, <1>3, <2>2 DEF n
<1>4. CASE ~ (item.type = "file" /\ item.body = "null")
  <2>1. n = freed
      BY <1>4 DEF fat16_fat_item_free, freed
  <2> HIDE DEF n
  <2> QED  BY <1>2, <2>1 DEF n
<1> QED  BY <1>3, <1>4

\* fat16_get_directory_entry, begun with the heap m: as a search, until it follows a
\* directory that is not there; then the item, its private data and the path
\* are lost.
Entering(m) ==
    {r \in SearchType :
        /\ r.m.below = m.below
        /\ m.short => r.m.short
        /\ r.m.short \/ r.item = NULL \/ r.item.body = "whole"
        /\ r.m.held["private"] = m.held["private"]
        /\ ~ r.m.wild => /\ Net(r.m, "item") = Net(m, "item") + Blocks(r.item)
                         /\ r.m.leaked["private"] = m.leaked["private"]
        /\ r.m.wild => /\ r.item # NULL /\ r.m.short
                       /\ Net(r.m, "item") = Net(m, "item")
                       /\ r.m.leaked["private"] = m.leaked["private"] + 1
        /\ \A kind \in {"path", "descriptor"} : Untouched(m, r.m, kind)}

\* The first part.
LEMMA EnterFirst ==
    ASSUME NEW m \in MemType, ~ m.wild, NEW r \in Searching(m)
    PROVE  r \in Entering(m)
<1>1. /\ r \in SearchType
      /\ r.m.wild = m.wild /\ r.m.below = m.below
      /\ m.short => r.m.short
      /\ r.m.short \/ r.item = NULL \/ r.item.body = "whole"
      /\ Net(r.m, "item") = Net(m, "item") + Blocks(r.item)
      /\ \A kind \in Kinds \ {"item"} : Untouched(m, r.m, kind)
    BY DEF Searching
<1>2. Untouched(m, r.m, "private") /\ \A kind \in {"path", "descriptor"} : Untouched(m, r.m, kind)
    BY <1>1 DEF Kinds
<1>3. r.m.held["private"] = m.held["private"] /\ r.m.leaked["private"] = m.leaked["private"]
    BY <1>2 DEF Untouched
<1> QED  BY <1>1, <1>2, <1>3 DEF Entering

\* One turn of fat16_get_directory_entry.
LEMMA GoDownEntering ==
    ASSUME NEW m \in MemType, NEW at \in Entering(m), NEW sb \in Seq(SlotType), NEW name
    PROVE  GoDown(at, sb, name) \in Entering(m)
<1> DEFINE r == GoDown(at, sb, name)
           k == ItemBlocks(at.item)
<1>1. /\ at.m \in MemType /\ at.item \in ItemType \cup {NULL} /\ at.m.below = m.below
      /\ m.short => at.m.short
      /\ at.m.short \/ at.item = NULL \/ at.item.body = "whole"
      /\ at.m.held["private"] = m.held["private"]
      /\ ~ at.m.wild => /\ Net(at.m, "item") = Net(m, "item") + Blocks(at.item)
                        /\ at.m.leaked["private"] = m.leaked["private"]
      /\ \A kind \in {"path", "descriptor"} : Untouched(m, at.m, kind)
    BY DEF Entering, SearchType
<1>2. "item" \in Kinds /\ "private" \in Kinds /\ "path" \in Kinds /\ "descriptor" \in Kinds
    BY DEF Kinds
<1>3. /\ at.m.held["item"] \in Int /\ at.m.leaked["item"] \in Int
      /\ at.m.leaked["private"] \in Int /\ Net(m, "item") \in Int /\ at.m.wild \in BOOLEAN
    BY <1>1, <1>2, MemFields DEF Net
<1>4. CASE at.item = NULL \/ at.m.wild
  <2>1. r = at
      BY <1>4 DEF GoDown
  <2> QED  BY <2>1
<1>5. ASSUME at.item # NULL, ~ at.m.wild
      PROVE  at.item \in ItemType /\ k \in Nat /\ Net(at.m, "item") = Net(m, "item") + k
    BY <1>1, <1>5, BlocksType DEF Blocks
<1> HIDE DEF k
\* A file where a directory should be.
<1>6. CASE at.item # NULL /\ ~ at.m.wild /\ at.item.type = "file"
  <2> DEFINE n == Leak(at.m, "item", k)
  <2>1. r = [m |-> n, item |-> NULL]
      BY <1>6 DEF GoDown, k
  <2>2. /\ n \in MemType /\ n.held = at.m.held /\ n.below = at.m.below /\ n.wild = at.m.wild
        /\ n.short = at.m.short /\ Plus(at.m.leaked, "item", k, n.leaked)
      BY <1>1, <1>2, <1>5, <1>6, LeakFields
  <2> HIDE DEF n
  <2>3. r \in SearchType /\ r.m = n /\ r.item = NULL
      BY <2>1, <2>2 DEF SearchType
  <2> HIDE DEF r
  <2>4. n.leaked["item"] = at.m.leaked["item"] + k
      BY <1>2, <2>2 DEF Plus
  <2>5. Net(r.m, "item") = Net(m, "item") + Blocks(r.item)
    <3>1. Net(n, "item") = Net(at.m, "item") - k
        BY <1>1, <1>2, <1>5, <1>6, <2>2, <2>4, NetLeak
    <3>2. Net(n, "item") = Net(m, "item")
        BY <1>3, <1>5, <1>6, <3>1
    <3> QED  BY <1>3, <2>3, <3>2 DEF Blocks
  <2>6. r.m.leaked["private"] = m.leaked["private"] /\ r.m.held["private"] = m.held["private"]
      BY <1>1, <1>2, <1>6, <2>2, <2>3 DEF Plus
  <2>7. \A kind \in {"path", "descriptor"} : Untouched(m, r.m, kind)
      BY <1>1, <1>2, <2>2, <2>3 DEF Plus, Untouched
  <2>8. r \in Entering(m)
      BY <1>1, <1>6, <2>2, <2>3, <2>5, <2>6, <2>7 DEF Entering
  <2> QED  BY <2>8 DEF r
\* A directory that was not read.
<1>7. CASE at.item # NULL /\ ~ at.m.wild /\ at.item.type # "file" /\ at.item.body # "whole"
  <2> DEFINE n == Leak(at.m, "item", 1)
             o == Leak(n, "private", 1)
             w == [o EXCEPT !.wild = TRUE]
  <2>1. r = [at EXCEPT !.m = w]
      BY <1>7 DEF GoDown
  <2>2. /\ n \in MemType /\ n.held = at.m.held /\ n.below = at.m.below
        /\ n.short = at.m.short /\ Plus(at.m.leaked, "item", 1, n.leaked)
    <3>1. at.m \in MemType /\ 1 \in Nat
        BY <1>1
    <3> QED  BY <1>2, <3>1, LeakFields
  <2> HIDE DEF n
  <2>3. /\ o \in MemType /\ o.held = n.held /\ o.below = n.below
        /\ o.short = n.short /\ Plus(n.leaked, "private", 1, o.leaked)
      BY <1>2, <2>2, LeakFields
  <2> HIDE DEF o
  <2>4. /\ w \in MemType /\ w.held = at.m.held /\ w.below = at.m.below /\ w.wild
        /\ w.short = at.m.short /\ w.leaked = o.leaked
      BY <2>2, <2>3 DEF MemType
  <2> HIDE DEF w
  <2>5. r \in SearchType /\ r.m = w /\ r.item = at.item
      BY <1>1, <2>1, <2>4, at \in SearchType DEF SearchType, Entering
  <2> HIDE DEF r
  <2>6. /\ w.leaked["item"] = at.m.leaked["item"] + 1
        /\ w.leaked["private"] = at.m.leaked["private"] + 1
        /\ \A kind \in {"path", "descriptor"} : w.leaked[kind] = at.m.leaked[kind]
      BY <1>2, <2>2, <2>3, <2>4 DEF Plus
  <2>7. Net(w, "item") = Net(m, "item")
    <3>1. k = 1
        BY <1>7 DEF k, ItemBlocks
    <3>2. Net(w, "item") = Net(at.m, "item") - 1
        BY <1>1, <1>2, <2>4, <2>6, NetLeak
    <3> QED  BY <1>3, <1>5, <1>7, <3>1, <3>2
  <2>8. \A kind \in {"path", "descriptor"} : Untouched(m, r.m, kind)
      BY <1>1, <2>4, <2>5, <2>6 DEF Untouched
  <2>9. r \in Entering(m)
      BY <1>1, <1>7, <2>4, <2>5, <2>6, <2>7, <2>8 DEF Entering
  <2> QED  BY <2>9 DEF r
<1>8. CASE at.item # NULL /\ ~ at.m.wild /\ at.item.type # "file" /\ at.item.body = "whole"
  <2> DEFINE next == fat16_find_item_in_directory(at.m, sb, name)
             n == fat16_fat_item_free(next.m, at.item)
  <2>1. r = [next EXCEPT !.m = n]
      BY <1>8 DEF GoDown
  <2>2. next \in Searching(at.m)
      BY <1>1, Found
  <2> HIDE DEF next
  <2>3. /\ next \in SearchType /\ next.m \in MemType /\ next.item \in ItemType \cup {NULL}
        /\ next.m.wild = at.m.wild /\ next.m.below = at.m.below
        /\ at.m.short => next.m.short
        /\ next.m.short \/ next.item = NULL \/ next.item.body = "whole"
        /\ Net(next.m, "item") = Net(at.m, "item") + Blocks(next.item)
        /\ \A kind \in Kinds \ {"item"} : Untouched(at.m, next.m, kind)
      BY <2>2 DEF Searching, SearchType
  <2>4. /\ n \in MemType /\ n.leaked = next.m.leaked /\ n.wild = next.m.wild
        /\ n.short = next.m.short /\ n.below = next.m.below
        /\ Plus(next.m.held, "item", -k, n.held)
      BY <1>5, <1>8, <2>3, ItemFree DEF k
  <2> HIDE DEF n
  <2>5. r \in SearchType /\ r.m = n /\ r.item = next.item
      BY <2>1, <2>3, <2>4 DEF SearchType
  <2> HIDE DEF r
  <2>6. Blocks(next.item) \in Nat /\ next.m.held["item"] \in Int /\ next.m.leaked["item"] \in Int
      BY <1>2, <2>3, BlocksType, MemFields
  <2>7. n.held["item"] = next.m.held["item"] + -k
      BY <1>2, <2>4 DEF Plus
  <2>8. Net(r.m, "item") = Net(m, "item") + Blocks(r.item)
    <3> DEFINE b == Blocks(next.item)
               a == next.m.held["item"]
               l == next.m.leaked["item"]
               z == Net(m, "item")
    <3>1. a - l = (z + k) + b /\ Net(n, "item") = (a + -k) - l
        BY <1>5, <1>8, <2>3, <2>4, <2>7 DEF Net
    <3>2. a \in Int /\ b \in Int /\ l \in Int /\ z \in Int /\ k \in Int
        BY <1>3, <1>5, <1>8, <2>6
    <3> HIDE DEF a, b, l, z
    <3>3. Net(n, "item") = z + b
        BY <3>1, <3>2
    <3> QED  BY <2>5, <3>3 DEF b, z
  <2>9. /\ r.m.leaked["private"] = m.leaked["private"] /\ r.m.held["private"] = m.held["private"]
        /\ \A kind \in {"path", "descriptor"} : Untouched(m, r.m, kind)
    <3>1. \A kind \in Kinds \ {"item"} : Untouched(at.m, n, kind)
        BY <2>3, <2>4 DEF Plus, Untouched
    <3>2. Untouched(at.m, n, "private") /\ Untouched(at.m, n, "path") /\ Untouched(at.m, n, "descriptor")
        BY <1>2, <3>1
    <3> QED  BY <1>1, <1>8, <2>5, <3>2 DEF Untouched
  <2>10. r \in Entering(m)
      BY <1>1, <1>8, <2>3, <2>4, <2>5, <2>8, <2>9 DEF Entering
  <2> QED  BY <2>10 DEF r
<1> QED  BY <1>4, <1>6, <1>7, <1>8

\* fat16_get_directory_entry, for a path of any length.
LEMMA EnteredLoop ==
    ASSUME NEW m \in MemType, ~ m.wild, NEW rt \in Seq(SlotType), NEW sb \in Seq(SlotType),
           NEW parts \in Strings, parts # <<>>
    PROVE  LET n == Len(parts) - 1
           IN  /\ n \in Nat
               /\ \E h : /\ h[0] = fat16_find_item_in_directory(m, rt, parts[1])
                         /\ \A i \in 1 .. n : h[i] = GoDown(h[i - 1], sb, parts[i + 1])
                         /\ \A i \in 0 .. n : h[i] \in Entering(m)
                         /\ fat16_get_directory_entry(m, rt, sb, parts) = h[n]
<1> DEFINE n == Len(parts) - 1
           S == Entering(m)
           x == fat16_find_item_in_directory(m, rt, parts[1])
           turn(s, i) == GoDown(s, sb, parts[i + 1])
           step == [i \in 1 .. n |-> [s \in S |-> turn(s, i)]]
           found == CHOOSE h : h = [i \in 0 .. n |-> IF i = 0 THEN x ELSE turn(h[i - 1], i)]
<1>1. n \in Nat
  <2> DEFINE E == Seq(Nat)
  <2>1. parts \in Seq(E)
      BY DEF Strings
  <2> HIDE DEF E
  <2>2. Len(parts) \in Nat /\ Len(parts) # 0
      BY <2>1, LenProperties, EmptySeq
  <2> QED  BY <2>2
<1> HIDE DEF n
<1>2. x \in S
  <2>1. x \in Searching(m)
      BY Found
  <2> HIDE DEF x
  <2> QED  BY <2>1, EnterFirst
<1>3. \A i \in 1 .. n : \A s \in S : turn(s, i) \in S
    BY GoDownEntering
<1>4. step \in Turns(n, S) /\ \A i \in 1 .. n : \A s \in S : step[i][s] = turn(s, i)
  <2> HIDE DEF S, turn, n
  <2> QED  BY <1>3 DEF Turns
<1> HIDE DEF step, turn, S, n, x
<1>5. \E h : h = [i \in 0 .. n |-> IF i = 0 THEN x ELSE turn(h[i - 1], i)]
  <2>1. PICK h : Loops(h, n, S, x, step)
      BY <1>1, <1>2, <1>4, LoopExists
  <2>2. ASSUME NEW i \in 1 .. n
        PROVE  h[i] = turn(h[i - 1], i)
    <3>1. i - 1 \in 0 .. n
        BY <1>1
    <3>2. h[i - 1] \in S
        BY <2>1, <3>1 DEF Loops
    <3> QED  BY <1>4, <2>1, <3>2 DEF Loops
  <2>3. \A i \in 0 .. n : h[i] = IF i = 0 THEN x ELSE turn(h[i - 1], i)
      BY <1>1, <2>1, <2>2 DEF Loops
  <2>4. h = [i \in 0 .. n |-> h[i]]
      BY <2>1 DEF Loops
  <2> QED  BY <2>3, <2>4
<1>6. found = [i \in 0 .. n |-> IF i = 0 THEN x ELSE turn(found[i - 1], i)]
    BY <1>5
<1> HIDE DEF found
<1>7. found[0] = x /\ \A i \in 1 .. n : found[i] = turn(found[i - 1], i)
    BY <1>1, <1>6
<1>8. \A i \in 0 .. n : found[i] \in S
  <2> DEFINE P == {i \in 0 .. n : found[i] \in S}
  <2>1. 0 \in P
      BY <1>1, <1>2, <1>7
  <2>2. \A i \in 1 .. n : i - 1 \in P => i \in P
      BY <1>1, <1>3, <1>7
  <2> HIDE DEF P
  <2>3. 0 .. n \subseteq P
      BY <1>1, <2>1, <2>2, UpTo
  <2> QED  BY <1>1, <2>3 DEF P
<1>9. fat16_get_directory_entry(m, rt, sb, parts) = found[n]
    BY DEF fat16_get_directory_entry, found, n, turn, x
<1> QED  BY <1>1, <1>7, <1>8, <1>9 DEF S, x, turn, n

\* fat16_get_directory_entry is such a search from directory to directory.
LEMMA Entered ==
    ASSUME NEW m \in MemType, ~ m.wild, NEW rt \in Seq(SlotType), NEW sb \in Seq(SlotType),
           NEW parts \in Strings, parts # <<>>
    PROVE  fat16_get_directory_entry(m, rt, sb, parts) \in Entering(m)
<1> DEFINE n == Len(parts) - 1
<1>1. n \in Nat
    BY EnteredLoop
<1>2. PICK h : /\ \A i \in 0 .. n : h[i] \in Entering(m)
               /\ fat16_get_directory_entry(m, rt, sb, parts) = h[n]
    BY EnteredLoop
<1> HIDE DEF n
<1> QED  BY <1>1, <1>2

\* fat16_open, called with the heap m: the item and the private data it returns, or
\* nothing.
Opening(m) ==
    {r \in SearchType :
        /\ r.m.below = m.below
        /\ m.short => r.m.short
        /\ r.m.short \/ r.item = NULL \/ r.item.body = "whole"
        /\ \A kind \in {"path", "descriptor"} : Untouched(m, r.m, kind)
        /\ r.item = NULL => /\ ~ r.m.wild
                            /\ Net(r.m, "item") = Net(m, "item")
                            /\ Untouched(m, r.m, "private")
        /\ r.item # NULL => r.m.held["private"] = m.held["private"] + 1
        /\ r.item # NULL /\ ~ r.m.wild =>
                            /\ Net(r.m, "item") = Net(m, "item") + ItemBlocks(r.item)
                            /\ r.m.leaked["private"] = m.leaked["private"]
        /\ r.m.wild => /\ r.m.short
                       /\ Net(r.m, "item") = Net(m, "item")
                       /\ r.m.leaked["private"] = m.leaked["private"] + 1}

\* fat16_open, in each of its ways out.
LEMMA Opened ==
    ASSUME NEW m \in MemType, ~ m.wild, NEW rt \in Seq(SlotType), NEW sb \in Seq(SlotType),
           NEW parts \in Strings, parts # <<>>, NEW mode
    PROVE  fat16_open(m, rt, sb, parts, mode) \in Opening(m)
<1> DEFINE descriptor == kzalloc(m, "private")
           found == fat16_get_directory_entry(descriptor, rt, sb, parts)
           freed == kfree(found.m, "private", 1)
           r == fat16_open(m, rt, sb, parts, mode)
<1>1. "item" \in Kinds /\ "private" \in Kinds /\ "path" \in Kinds /\ "descriptor" \in Kinds
    BY DEF Kinds
<1>2. m.free \in Nat /\ Net(m, "item") \in Int /\ m.held["private"] \in Int /\ m.leaked["private"] \in Int
    BY <1>1, MemFields, NetType
<1>3. /\ descriptor \in MemType
      /\ descriptor.leaked = m.leaked /\ descriptor.below = m.below /\ descriptor.wild = m.wild
      /\ m.free = 0 => descriptor.held = m.held /\ descriptor.short
      /\ m.free # 0 => descriptor.short = m.short /\ Plus(m.held, "private", 1, descriptor.held)
    BY <1>1, KzallocFields
<1> HIDE DEF descriptor
<1>4. CASE mode # "r"
  <2>1. r = [m |-> m, item |-> NULL]
      BY <1>4 DEF fat16_open
  <2>2. r \in SearchType /\ r.m = m /\ r.item = NULL
      BY <2>1 DEF SearchType
  <2> HIDE DEF r
  <2>3. r \in Opening(m)
      BY <2>2 DEF Opening, Untouched
  <2> QED  BY <2>3 DEF r
<1>5. CASE mode = "r" /\ m.free = 0
  <2>1. r = [m |-> descriptor, item |-> NULL]
      BY <1>5 DEF fat16_open, descriptor
  <2>2. r \in SearchType /\ r.m = descriptor /\ r.item = NULL
      BY <1>3, <2>1 DEF SearchType
  <2> HIDE DEF r
  <2>3. Net(r.m, "item") = Net(m, "item")
      BY <1>3, <1>5, <2>2 DEF Net
  <2>4. \A kind \in Kinds : Untouched(m, r.m, kind)
      BY <1>3, <1>5, <2>2 DEF Untouched
  <2>5. r \in Opening(m)
      BY <1>1, <1>3, <1>5, <2>2, <2>3, <2>4 DEF Opening
  <2> QED  BY <2>5 DEF r
<1>6. CASE mode = "r" /\ m.free # 0
  <2>1. found \in Entering(descriptor)
      BY <1>3, Entered
  <2>2. m.free > 0 /\ r = IF found.item = NULL THEN [found EXCEPT !.m = freed] ELSE found
      BY <1>2, <1>6 DEF fat16_open, descriptor
  <2> HIDE DEF found
  <2>3. /\ found \in SearchType /\ found.m \in MemType
        /\ found.m.below = descriptor.below
        /\ descriptor.short => found.m.short
        /\ found.m.short \/ found.item = NULL \/ found.item.body = "whole"
        /\ found.m.held["private"] = descriptor.held["private"]
        /\ ~ found.m.wild => /\ Net(found.m, "item") = Net(descriptor, "item") + Blocks(found.item)
                             /\ found.m.leaked["private"] = descriptor.leaked["private"]
        /\ found.m.wild => /\ found.item # NULL /\ found.m.short
                           /\ Net(found.m, "item") = Net(descriptor, "item")
                           /\ found.m.leaked["private"] = descriptor.leaked["private"] + 1
        /\ \A kind \in {"path", "descriptor"} : Untouched(descriptor, found.m, kind)
      BY <2>1 DEF Entering, SearchType
  <2>4. /\ descriptor.held["private"] = m.held["private"] + 1
        /\ Net(descriptor, "item") = Net(m, "item")
        /\ \A kind \in {"path", "descriptor"} : Untouched(m, found.m, kind)
    <3>1. \A kind \in Kinds \ {"private"} : Untouched(m, descriptor, kind)
        BY <1>3, <1>6 DEF Plus, Untouched
    <3>2. Untouched(m, descriptor, "item") /\ \A kind \in {"path", "descriptor"} : Untouched(m, descriptor, kind)
        BY <1>1, <3>1
    <3>3. descriptor.held["private"] = m.held["private"] + 1
        BY <1>1, <1>3, <1>6 DEF Plus
    <3> QED  BY <2>3, <3>2, <3>3 DEF Untouched, Net
  <2>5. CASE found.item # NULL
    <3>1. r = found
        BY <2>2, <2>5
    <3> HIDE DEF r
    <3>2. r \in Opening(m)
        BY <1>3, <1>6, <2>3, <2>4, <2>5, <3>1 DEF Opening, Blocks
    <3> QED  BY <3>2 DEF r
  <2>6. CASE found.item = NULL
    <3>1. r = [found EXCEPT !.m = freed]
        BY <2>2, <2>6
    <3>2. /\ freed \in MemType /\ freed.leaked = found.m.leaked /\ freed.below = found.m.below
          /\ freed.wild = found.m.wild /\ freed.short = found.m.short
          /\ Plus(found.m.held, "private", -1, freed.held)
      <4>1. found.m \in MemType /\ 1 \in Nat
          BY <2>3
      <4> QED  BY <1>1, <4>1, KfreeFields
    <3> HIDE DEF freed
    <3>3. r \in SearchType /\ r.m = freed /\ r.item = NULL
        BY <2>3, <2>6, <3>1, <3>2 DEF SearchType
    <3> HIDE DEF r
    <3>4. \A kind \in Kinds \ {"private"} : Untouched(found.m, freed, kind)
        BY <3>2 DEF Plus, Untouched
    <3>5. Untouched(found.m, freed, "item") /\ Untouched(found.m, freed, "path") /\ Untouched(found.m, freed, "descriptor")
        BY <1>1, <3>4
    <3>6. \A kind \in {"path", "descriptor"} : Untouched(m, freed, kind)
        BY <2>4, <3>5 DEF Untouched
    <3>7. Net(freed, "item") = Net(m, "item")
      <4>1. Net(freed, "item") = Net(found.m, "item")
          BY <3>5 DEF Untouched, Net
      <4>2. Net(found.m, "item") = Net(m, "item") + 0
          BY <2>3, <2>4, <2>6 DEF Blocks
      <4> QED  BY <1>2, <4>1, <4>2
    <3>8. Untouched(m, freed, "private")
      <4>1. freed.held["private"] = found.m.held["private"] + -1
          BY <1>1, <3>2 DEF Plus
      <4>2. freed.held["private"] = m.held["private"]
          BY <1>2, <2>3, <2>4, <4>1
      <4>3. freed.leaked["private"] = m.leaked["private"]
          BY <1>3, <2>3, <2>6, <3>2
      <4> QED  BY <4>2, <4>3 DEF Untouched
    <3>9. r \in Opening(m)
        BY <1>3, <1>6, <2>3, <2>6, <3>2, <3>3, <3>6, <3>7, <3>8 DEF Opening
    <3> QED  BY <3>9 DEF r
  <2> QED  BY <2>5, <2>6
<1> QED  BY <1>4, <1>5, <1>6

\* fat16_close gives back the item and the private data.
LEMMA Closed ==
    ASSUME NEW m \in MemType, NEW item \in ItemType
    PROVE  LET n == fat16_close(m, item)
           IN  /\ n \in MemType /\ n.leaked = m.leaked /\ n.wild = m.wild /\ n.short = m.short
               /\ n.below => m.below \/ item.body = "null"
               /\ n.held["item"] = m.held["item"] - ItemBlocks(item)
               /\ n.held["private"] = m.held["private"] - 1
               /\ \A kind \in {"path", "descriptor"} : n.held[kind] = m.held[kind]
<1> DEFINE f == fat16_fat_item_free(m, item)
           n == kfree(f, "private", 1)
           k == ItemBlocks(item)
<1>1. "item" \in Kinds /\ "private" \in Kinds /\ "path" \in Kinds /\ "descriptor" \in Kinds
    BY DEF Kinds
<1>2. /\ f \in MemType /\ f.leaked = m.leaked /\ f.wild = m.wild /\ f.short = m.short
      /\ f.below => m.below \/ item.body = "null"
      /\ Plus(m.held, "item", -k, f.held)
    BY ItemFree
<1>3. k \in Nat
    BY BlocksType
<1> HIDE DEF f, k
<1>4. /\ n \in MemType /\ n.leaked = f.leaked /\ n.below = f.below /\ n.wild = f.wild
      /\ n.short = f.short /\ Plus(f.held, "private", -1, n.held)
    BY <1>1, <1>2, KfreeFields
<1> HIDE DEF n
<1>5. \A kind \in Kinds : m.held[kind] \in Int
    BY MemFields
<1>6. /\ n.held["item"] = m.held["item"] + -k
      /\ n.held["private"] = m.held["private"] + -1
      /\ \A kind \in {"path", "descriptor"} : n.held[kind] = m.held[kind]
    BY <1>1, <1>2, <1>4 DEF Plus
<1>7. n.held["item"] = m.held["item"] - k /\ n.held["private"] = m.held["private"] - 1
    BY <1>1, <1>3, <1>5, <1>6
<1> QED  BY <1>2, <1>4, <1>6, <1>7 DEF fat16_close, n, f, k

-----------------------------------------------------------------------------
(* The inductive invariant *)

HolderType == [id : Nat, fd : Index, path : {Asked(call.path) : call \in Calls}, pos : Nat,
               short : BOOLEAN, lost : BOOLEAN, disturbed : BOOLEAN]

DiskInv == root \in Seq(SlotType) /\ sub \in Seq(SlotType)

TableInv == file_descriptors \in [Index -> DescriptorType \cup {NULL}]

\* A caller that has not lost its descriptor holds one of the table.
HeldInv ==
    /\ held \subseteq HolderType
    /\ \A h \in held : ~ h.lost => file_descriptors[h.fd] # NULL

CountInv ==
    /\ blocks \in Counts /\ leaked \in Counts
    /\ ranOut \in BOOLEAN /\ below \in BOOLEAN
    /\ opens \in Nat

Inv ==
    /\ DiskInv /\ TableInv /\ HeldInv /\ CountInv
    /\ MountedIsWhole /\ HeldByOne /\ BlocksAccounted /\ WholeWhileMemoryLasts

-----------------------------------------------------------------------------
(* The table *)

Table == [Index -> DescriptorType \cup {NULL}]
Used(t) == {i \in Index : t[i] # NULL}

\* OpenItemBlocks of any table.
SumOf(t) == CHOOSE s : s = [i \in 0 .. MaxFd |->
    IF i = 0 THEN 0
    ELSE s[i - 1] + IF i \in {j \in Index : t[j] # NULL} THEN ItemBlocks(t[i].item) ELSE 0]

\* The sum in this state, and in the next.
LEMMA OpenItemBlocksIsSum ==
    OpenItemBlocks = SumOf(file_descriptors)
  BY DEF OpenItemBlocks, SumOf, InUse

\* The same of the table after a step.
LEMMA OpenItemBlocksIsSumNext ==
    OpenItemBlocks' = SumOf(file_descriptors')
  BY DEF OpenItemBlocks, SumOf, InUse

\* The fields of a descriptor.
LEMMA DescriptorFields ==
    ASSUME NEW d \in DescriptorType
    PROVE  /\ d # NULL /\ d.item \in ItemType /\ d.pos \in Nat /\ ItemBlocks(d.item) \in Nat
           /\ d = [path |-> d.path, item |-> d.item, pos |-> d.pos] /\ d.path \in Seq(Seq(Nat))
<1> HIDE DEF ItemType
<1>1. /\ d # NULL /\ d.item \in ItemType /\ d.pos \in Nat
      /\ d = [path |-> d.path, item |-> d.item, pos |-> d.pos] /\ d.path \in Seq(Seq(Nat))
    BY FilesAssumption DEF DescriptorType
<1> QED  BY <1>1, BlocksType

\* What slot i adds.
Weight(t, i) == IF i \in {j \in Index : t[j] # NULL} THEN ItemBlocks(t[i].item) ELSE 0

\* The blocks of the item behind a number of the table are a number.
LEMMA WeightType ==
    ASSUME NEW t \in Table, NEW i \in Index
    PROVE  Weight(t, i) \in Nat
<1>1. t[i] \in DescriptorType \cup {NULL}
    BY DEF Table
<1>2. CASE t[i] = NULL
    BY <1>2 DEF Weight
<1>3. CASE t[i] # NULL
  <2>1. ItemBlocks(t[i].item) \in Nat
      BY <1>1, <1>3, DescriptorFields
  <2> QED  BY <1>3, <2>1 DEF Weight
<1> QED  BY <1>2, <1>3

\* The recursion defines a sum.
LEMMA SumExists ==
    ASSUME NEW t \in Table
    PROVE  /\ SumOf(t) \in [0 .. MaxFd -> Nat] /\ SumOf(t)[0] = 0
           /\ \A i \in Index : SumOf(t)[i] = SumOf(t)[i - 1] + Weight(t, i)
<1> DEFINE n == MaxFd
           S == Nat
           step == [i \in 1 .. n |-> [s \in S |-> s + Weight(t, i)]]
           sums == SumOf(t)
<1>1. n \in Nat
    BY FilesAssumption
<1>2. \A i \in 1 .. n : Weight(t, i) \in Nat
    BY WeightType DEF Index
<1>3. step \in Turns(n, S) /\ \A i \in 1 .. n : \A s \in S : step[i][s] = s + Weight(t, i)
    BY <1>2 DEF Turns
<1> HIDE DEF step, n
<1>4. \E s : s = [i \in 0 .. n |-> IF i = 0 THEN 0 ELSE s[i - 1] + Weight(t, i)]
  <2>1. PICK h : Loops(h, n, S, 0, step)
    <3>1. 0 \in S
        OBVIOUS
    <3> HIDE DEF S
    <3> QED  BY <1>1, <1>3, <3>1, LoopExists
  <2>2. ASSUME NEW i \in 1 .. n
        PROVE  h[i] = h[i - 1] + Weight(t, i)
    <3>1. i - 1 \in 0 .. n
        BY <1>1
    <3>2. h[i - 1] \in S
        BY <2>1, <3>1 DEF Loops
    <3> QED  BY <1>3, <2>1, <3>2 DEF Loops
  <2>3. \A i \in 0 .. n : h[i] = IF i = 0 THEN 0 ELSE h[i - 1] + Weight(t, i)
      BY <1>1, <2>1, <2>2 DEF Loops
  <2>4. h = [i \in 0 .. n |-> h[i]]
      BY <2>1 DEF Loops
  <2> QED  BY <2>3, <2>4
<1>5. sums = [i \in 0 .. n |-> IF i = 0 THEN 0 ELSE sums[i - 1] + Weight(t, i)]
  <2>1. sums = CHOOSE s : s = [i \in 0 .. n |-> IF i = 0 THEN 0 ELSE s[i - 1] + Weight(t, i)]
      BY DEF SumOf, Weight, n
  <2> HIDE DEF sums
  <2> QED  BY <1>4, <2>1
<1> HIDE DEF sums
<1>6. sums[0] = 0 /\ \A i \in 1 .. n : sums[i] = sums[i - 1] + Weight(t, i)
    BY <1>1, <1>5
<1>7. \A i \in 0 .. n : sums[i] \in Nat
  <2> DEFINE P == {i \in 0 .. n : sums[i] \in Nat}
  <2>1. 0 \in P
      BY <1>1, <1>6
  <2>2. \A i \in 1 .. n : i - 1 \in P => i \in P
      BY <1>1, <1>2, <1>6
  <2> HIDE DEF P
  <2>3. 0 .. n \subseteq P
      BY <1>1, <2>1, <2>2, UpTo
  <2> QED  BY <2>3 DEF P
<1>8. sums \in [0 .. n -> Nat]
    BY <1>5, <1>7
<1> QED  BY <1>6, <1>8 DEF sums, n, Index

\* A change of one slot changes the sum by the difference of its items.
LEMMA SumUpdate ==
    ASSUME NEW t \in Table, NEW u \in Table, NEW fd \in Index,
           \A i \in Index : i # fd => u[i] = t[i]
    PROVE  SumOf(u)[MaxFd] = SumOf(t)[MaxFd] + Weight(u, fd) - Weight(t, fd)
<1> DEFINE n == MaxFd
           a == SumOf(t)
           b == SumOf(u)
           x == Weight(t, fd)
           y == Weight(u, fd)
           P == {i \in 0 .. n : b[i] = IF i < fd THEN a[i] ELSE a[i] + y - x}
<1>1. n \in Nat /\ fd \in 1 .. n /\ Index = 1 .. n
    BY FilesAssumption DEF Index
<1>2. /\ a \in [0 .. n -> Nat] /\ a[0] = 0
      /\ \A i \in 1 .. n : a[i] = a[i - 1] + Weight(t, i)
    BY SumExists DEF Index
<1>3. /\ b \in [0 .. n -> Nat] /\ b[0] = 0
      /\ \A i \in 1 .. n : b[i] = b[i - 1] + Weight(u, i)
    BY SumExists DEF Index
<1>4. x \in Nat /\ y \in Nat
    BY WeightType
<1>5. ASSUME NEW i \in 1 .. n
      PROVE  Weight(t, i) \in Nat /\ (i # fd => Weight(u, i) = Weight(t, i))
  <2>1. i \in Index
      BY <1>1
  <2>2. Weight(t, i) \in Nat
      BY <2>1, WeightType
  <2>3. i # fd => u[i] = t[i]
      BY <2>1
  <2> QED  BY <2>1, <2>2, <2>3 DEF Weight
<1> HIDE DEF n, a, b
<1>6. 0 \in P
    BY <1>1, <1>2, <1>3
<1>7. ASSUME NEW i \in 1 .. n, i - 1 \in P
      PROVE  i \in P
  <2>1. /\ a[i] = a[i - 1] + Weight(t, i) /\ b[i] = b[i - 1] + Weight(u, i)
        /\ b[i - 1] = IF i - 1 < fd THEN a[i - 1] ELSE a[i - 1] + y - x
      BY <1>2, <1>3, <1>7
  <2>2. i - 1 \in 0 .. n
      BY <1>1
  <2>3. a[i - 1] \in Nat
      BY <1>2, <2>2
  <2> HIDE DEF x, y
  <2>4. CASE i < fd
      BY <1>1, <1>5, <2>1, <2>3, <2>4
  <2>5. CASE i = fd
      BY <1>1, <1>4, <2>1, <2>3, <2>5 DEF x, y
  <2>6. CASE i > fd
      BY <1>1, <1>4, <1>5, <2>1, <2>3, <2>6
  <2> QED  BY <1>1, <2>4, <2>5, <2>6
<1>8. n \in P
  <2>1. \A i \in 1 .. n : i - 1 \in P => i \in P
      BY <1>7
  <2> HIDE DEF P
  <2>2. 0 .. n \subseteq P
      BY <1>1, <1>6, <2>1, UpTo
  <2> QED  BY <1>1, <2>2
<1> QED  BY <1>1, <1>8 DEF n, a, b

\* The slots in use can be counted.
LEMMA UsedFinite ==
    ASSUME NEW t
    PROVE  IsFiniteSet(Used(t)) /\ Cardinality(Used(t)) \in Nat
<1>1. IsFiniteSet(1 .. MaxFd)
    BY FS_Interval, FilesAssumption
<1>2. Used(t) \subseteq 1 .. MaxFd
    BY DEF Used, Index
<1>3. IsFiniteSet(Used(t))
    BY <1>1, <1>2, FS_Subset
<1> QED  BY <1>3, FS_CardinalityType

\* The lowest free index is a free index.
LEMMA NewDescriptor ==
    ASSUME file_new_descriptor > 0
    PROVE  file_new_descriptor \in Index /\ file_descriptors[file_new_descriptor] = NULL
<1> DEFINE R == OpToRel(<, Nat)
           F == FreeIndexes
<1>1. F # {}
    BY DEF file_new_descriptor
<1>2. F \subseteq Nat
    BY FilesAssumption DEF FreeIndexes, Index
<1>3. IsWellFoundedOn(R, Nat)
    BY NatLessThanWellFounded
<1>4. PICK x \in F : \A y \in F : ~ (<<y, x>> \in R)
  <2> HIDE DEF R, F
  <2> QED  BY <1>1, <1>2, <1>3, WFMin
<1>5. \A y \in F : x <= y
  <2> HIDE DEF F
  <2>1. ASSUME NEW y \in F, y < x
        PROVE  <<y, x>> \in R
      BY <1>2, <2>1 DEF OpToRel
  <2> HIDE DEF R
  <2>2. \A y \in F : ~ (y < x)
      BY <1>4, <2>1
  <2>3. x \in Nat /\ \A y \in F : y \in Nat
      BY <1>2
  <2> QED  BY <2>2, <2>3
<1> HIDE DEF F
<1>6. file_new_descriptor \in F
    BY <1>1, <1>5 DEF file_new_descriptor, F
<1> QED  BY <1>6 DEF F, FreeIndexes

-----------------------------------------------------------------------------
(* The heap of a call of fopen *)

\* Apart from the blocks it lost, the call that began with the blocks b holds p blocks
\* of a path, i of an item, v of private data and d of descriptors.
Tally(b, m, p, i, v, d) ==
    /\ m \in MemType
    /\ Net(m, "path") = b["path"] + p
    /\ Net(m, "item") = b["item"] + i
    /\ Net(m, "private") = b["private"] + v
    /\ Net(m, "descriptor") = b["descriptor"] + d

\* Only a call that found no memory frees address 0 or loses private data, and none
\* loses a descriptor.
Safe(m) ==
    /\ m.leaked["descriptor"] = 0
    /\ m.short \/ (~ m.below /\ m.leaked["private"] = 0)

\* Blocks that are lost.
LEMMA TallyLeak ==
    ASSUME NEW b \in Counts, NEW m, NEW p \in Int, NEW i \in Int, NEW v \in Int, NEW d \in Int,
           Tally(b, m, p, i, v, d), NEW k \in Nat
    PROVE  /\ Tally(b, Leak(m, "path", k), p - k, i, v, d)
           /\ Tally(b, Leak(m, "item", k), p, i - k, v, d)
           /\ Tally(b, Leak(m, "private", k), p, i, v - k, d)
<1>1. "item" \in Kinds /\ "private" \in Kinds /\ "path" \in Kinds /\ "descriptor" \in Kinds
    BY DEF Kinds
<1>2. m \in MemType /\ \A kind \in Kinds : b[kind] \in Int
    BY DEF Tally, Counts
<1>3. ASSUME NEW kind \in Kinds
      PROVE  /\ Leak(m, kind, k) \in MemType
             /\ Net(Leak(m, kind, k), kind) = Net(m, kind) - k
             /\ \A other \in Kinds \ {kind} : Net(Leak(m, kind, k), other) = Net(m, other)
  <2> DEFINE n == Leak(m, kind, k)
  <2>1. n \in MemType /\ n.held = m.held /\ Plus(m.leaked, kind, k, n.leaked)
      BY <1>2, LeakFields
  <2> HIDE DEF n
  <2>2. Net(n, kind) = Net(m, kind) - k
      BY <1>2, <2>1, NetLeak DEF Plus
  <2>3. \A other \in Kinds \ {kind} : Net(n, other) = Net(m, other)
      BY <2>1 DEF Plus, Net
  <2> QED  BY <2>1, <2>2, <2>3 DEF n
<1>4. Tally(b, Leak(m, "path", k), p - k, i, v, d)
  <2>1. /\ Leak(m, "path", k) \in MemType
        /\ Net(Leak(m, "path", k), "path") = Net(m, "path") - k
        /\ Net(Leak(m, "path", k), "item") = Net(m, "item")
        /\ Net(Leak(m, "path", k), "private") = Net(m, "private")
        /\ Net(Leak(m, "path", k), "descriptor") = Net(m, "descriptor")
      BY <1>1, <1>3
  <2> QED  BY <1>1, <1>2, <2>1 DEF Tally
<1>5. Tally(b, Leak(m, "item", k), p, i - k, v, d)
  <2>1. /\ Leak(m, "item", k) \in MemType
        /\ Net(Leak(m, "item", k), "path") = Net(m, "path")
        /\ Net(Leak(m, "item", k), "item") = Net(m, "item") - k
        /\ Net(Leak(m, "item", k), "private") = Net(m, "private")
        /\ Net(Leak(m, "item", k), "descriptor") = Net(m, "descriptor")
      BY <1>1, <1>3
  <2> QED  BY <1>1, <1>2, <2>1 DEF Tally
<1>6. Tally(b, Leak(m, "private", k), p, i, v - k, d)
  <2>1. /\ Leak(m, "private", k) \in MemType
        /\ Net(Leak(m, "private", k), "path") = Net(m, "path")
        /\ Net(Leak(m, "private", k), "item") = Net(m, "item")
        /\ Net(Leak(m, "private", k), "private") = Net(m, "private") - k
        /\ Net(Leak(m, "private", k), "descriptor") = Net(m, "descriptor")
      BY <1>1, <1>3
  <2> QED  BY <1>1, <1>2, <2>1 DEF Tally
<1> QED  BY <1>4, <1>5, <1>6

\* The change of one count of held blocks, or of none.
LEMMA NetHeld ==
    ASSUME NEW m \in MemType, NEW n \in MemType, n.leaked = m.leaked, NEW kind \in Kinds,
           NEW k \in Int, n.held[kind] = m.held[kind] + k
    PROVE  Net(n, kind) = Net(m, kind) + k
<1> DEFINE a == m.held[kind]
           l == m.leaked[kind]
<1>1. a \in Int /\ l \in Int
    BY MemFields
<1>2. Net(n, kind) = (a + k) - l /\ Net(m, kind) = a - l
    BY DEF Net
<1> HIDE DEF a, l
<1> QED  BY <1>1, <1>2

\* A path has a number of blocks.
LEMMA PathBlocksType ==
    ASSUME NEW parts \in Strings
    PROVE  PathBlocks(parts) \in Nat
<1> DEFINE E == Seq(Nat)
<1>1. parts \in Seq(E)
    BY DEF Strings
<1> HIDE DEF E
<1>2. Len(parts) \in Nat
    BY <1>1, LenProperties
<1> QED  BY <1>2 DEF PathBlocks

\* pathparser_free.
LEMMA TallyFreePath ==
    ASSUME NEW b \in Counts, NEW m, NEW p \in Int, NEW i \in Int, NEW v \in Int, NEW d \in Int,
           Tally(b, m, p, i, v, d), NEW parts \in Strings
    PROVE  LET n == pathparser_free(m, parts)
           IN  /\ Tally(b, n, p - PathBlocks(parts), i, v, d) /\ n.leaked = m.leaked
               /\ n.below = m.below /\ n.short = m.short /\ n.wild = m.wild
<1> DEFINE n == pathparser_free(m, parts)
           k == PathBlocks(parts)
<1>1. "item" \in Kinds /\ "private" \in Kinds /\ "path" \in Kinds /\ "descriptor" \in Kinds
    BY DEF Kinds
<1>2. m \in MemType /\ \A kind \in Kinds : b[kind] \in Int
    BY DEF Tally, Counts
<1>3. k \in Nat
    BY PathBlocksType
<1>4. n = kfree(m, "path", k)
    BY DEF pathparser_free
<1> HIDE DEF n, k
<1>5. /\ n \in MemType /\ n.leaked = m.leaked /\ n.below = m.below /\ n.wild = m.wild
      /\ n.short = m.short /\ Plus(m.held, "path", -k, n.held)
    BY <1>1, <1>2, <1>3, <1>4, KfreeFields
<1>6. n.held["path"] = m.held["path"] + -k /\ -k \in Int
    BY <1>1, <1>3, <1>5 DEF Plus
<1>7. Net(n, "path") = Net(m, "path") + -k
    BY <1>1, <1>2, <1>5, <1>6, NetHeld
<1>8. /\ Net(n, "item") = Net(m, "item") /\ Net(n, "private") = Net(m, "private")
      /\ Net(n, "descriptor") = Net(m, "descriptor")
    BY <1>1, <1>5 DEF Plus, Net
<1>9. Tally(b, n, p - k, i, v, d)
    BY <1>1, <1>2, <1>3, <1>5, <1>7, <1>8 DEF Tally
<1> QED  BY <1>5, <1>9 DEF n, k

\* fat16_close.
LEMMA TallyClose ==
    ASSUME NEW b \in Counts, NEW m, NEW p \in Int, NEW i \in Int, NEW v \in Int, NEW d \in Int,
           Tally(b, m, p, i, v, d), NEW item \in ItemType
    PROVE  Tally(b, fat16_close(m, item), p, i - ItemBlocks(item), v - 1, d)
<1> DEFINE n == fat16_close(m, item)
           k == ItemBlocks(item)
<1>1. "item" \in Kinds /\ "private" \in Kinds /\ "path" \in Kinds /\ "descriptor" \in Kinds
    BY DEF Kinds
<1>2. m \in MemType /\ \A kind \in Kinds : b[kind] \in Int /\ m.held[kind] \in Int
    BY MemFields DEF Tally, Counts
<1>3. k \in Nat
    BY BlocksType
<1>4. /\ n \in MemType /\ n.leaked = m.leaked
      /\ n.held["item"] = m.held["item"] - k
      /\ n.held["private"] = m.held["private"] - 1
      /\ \A kind \in {"path", "descriptor"} : n.held[kind] = m.held[kind]
    BY <1>2, Closed
<1> HIDE DEF n, k
<1>5. /\ n.held["item"] = m.held["item"] + -k /\ -k \in Int
      /\ n.held["private"] = m.held["private"] + -1
    BY <1>1, <1>2, <1>3, <1>4
<1>6. Net(n, "item") = Net(m, "item") + -k /\ Net(n, "private") = Net(m, "private") + -1
    BY <1>1, <1>2, <1>4, <1>5, NetHeld
<1>7. Net(n, "path") = Net(m, "path") /\ Net(n, "descriptor") = Net(m, "descriptor")
    BY <1>4 DEF Net
<1>8. Tally(b, n, p, i - k, v - 1, d)
    BY <1>1, <1>2, <1>3, <1>4, <1>6, <1>7 DEF Tally
<1> QED  BY <1>8 DEF n, k

\* The heap when fopen is called.
LEMMA StartFields ==
    ASSUME NEW free \in Nat, NEW b \in Counts
    PROVE  LET m == Memory(free, b)
           IN  /\ m \in MemType /\ ~ m.short /\ ~ m.below /\ ~ m.wild
               /\ \A kind \in Kinds : /\ Net(m, kind) = b[kind] /\ b[kind] \in Int
                                      /\ m.held[kind] = b[kind] /\ m.leaked[kind] = 0
<1> DEFINE m == Memory(free, b)
<1>1. NoBlocks \in Counts /\ \A kind \in Kinds : NoBlocks[kind] = 0
    BY DEF NoBlocks, Counts
<1> HIDE DEF NoBlocks
<1>2. m \in MemType /\ ~ m.short /\ ~ m.below /\ ~ m.wild /\ m.held = b /\ m.leaked = NoBlocks
    BY <1>1 DEF Memory, MemType
<1>3. \A kind \in Kinds : b[kind] \in Int
    BY DEF Counts
<1> HIDE DEF m
<1>4. \A kind \in Kinds : Net(m, kind) = b[kind] - 0
    BY <1>1, <1>2 DEF Net
<1> QED  BY <1>1, <1>2, <1>3, <1>4 DEF m

\* After the path has been parsed.
LEMMA ParseTally ==
    ASSUME NEW free \in Nat, NEW b \in Counts, NEW path \in Seq(Nat)
    PROVE  LET p == pathparser_parse(Memory(free, b), path)
           IN  /\ p.parts \in Strings /\ p.root \in BOOLEAN /\ ~ p.m.wild
               /\ Tally(b, p.m, IF p.root THEN PathBlocks(p.parts) ELSE 0, 0, 0, 0)
               /\ p.m.below => p.m.short
               /\ \A kind \in {"private", "descriptor"} : p.m.leaked[kind] = 0
<1> DEFINE m == Memory(free, b)
           p == pathparser_parse(m, path)
           k == IF p.root THEN PathBlocks(p.parts) ELSE 0
<1>1. "item" \in Kinds /\ "private" \in Kinds /\ "path" \in Kinds /\ "descriptor" \in Kinds
    BY DEF Kinds
<1>2. /\ m \in MemType /\ ~ m.short /\ ~ m.below /\ ~ m.wild
      /\ \A kind \in Kinds : /\ Net(m, kind) = b[kind] /\ b[kind] \in Int
                             /\ m.held[kind] = b[kind] /\ m.leaked[kind] = 0
    BY StartFields
<1> HIDE DEF m
<1>3. /\ p.m \in MemType /\ p.parts \in Strings /\ p.root \in BOOLEAN
      /\ p.m.wild = m.wild /\ (p.m.below => p.m.short)
      /\ Net(p.m, "path") = Net(m, "path") + k
      /\ \A kind \in Kinds \ {"path"} : Untouched(m, p.m, kind)
    BY <1>2, ParseResult
<1> HIDE DEF p, k
<1>4. \A kind \in Kinds \ {"path"} : Net(p.m, kind) = b[kind] + 0 /\ p.m.leaked[kind] = 0
    BY <1>2, <1>3 DEF Untouched, Net
<1>5. Tally(b, p.m, k, 0, 0, 0)
    BY <1>1, <1>2, <1>3, <1>4 DEF Tally
<1> QED  BY <1>1, <1>2, <1>3, <1>4, <1>5 DEF m, p, k

\* After fat16_open.
LEMMA OpenTally ==
    ASSUME NEW b \in Counts, NEW m, NEW k \in Int, Tally(b, m, k, 0, 0, 0),
           ~ m.wild, m.below => m.short, \A kind \in {"private", "descriptor"} : m.leaked[kind] = 0,
           NEW rt \in Seq(SlotType), NEW sb \in Seq(SlotType),
           NEW parts \in Strings, parts # <<>>, NEW mode
    PROVE  LET open == fat16_open(m, rt, sb, parts, mode)
           IN  /\ open.item \in ItemType \cup {NULL} /\ open.m \in MemType
               /\ Safe(open.m)
               /\ open.item = NULL => Tally(b, open.m, k, 0, 0, 0)
               /\ open.item # NULL /\ ~ open.m.wild =>
                    /\ Tally(b, open.m, k, ItemBlocks(open.item), 1, 0)
                    /\ open.m.short \/ open.item.body = "whole"
               /\ open.m.wild => Tally(b, open.m, k, 0, 0, 0) /\ open.m.short
<1> DEFINE open == fat16_open(m, rt, sb, parts, mode)
           n == open.m
<1>1. "item" \in Kinds /\ "private" \in Kinds /\ "path" \in Kinds /\ "descriptor" \in Kinds
    BY DEF Kinds
<1>2. /\ m \in MemType
      /\ Net(m, "path") = b["path"] + k
      /\ Net(m, "item") = b["item"] + 0
      /\ Net(m, "private") = b["private"] + 0
      /\ Net(m, "descriptor") = b["descriptor"] + 0
    BY DEF Tally
<1>3. open \in Opening(m)
    BY <1>2, Opened
<1> HIDE DEF open
<1>4. /\ open.item \in ItemType \cup {NULL} /\ n \in MemType
      /\ n.below = m.below
      /\ m.short => n.short
      /\ n.short \/ open.item = NULL \/ open.item.body = "whole"
      /\ \A kind \in {"path", "descriptor"} : Untouched(m, n, kind)
      /\ open.item = NULL => /\ ~ n.wild
                             /\ Net(n, "item") = Net(m, "item")
                             /\ Untouched(m, n, "private")
      /\ open.item # NULL => n.held["private"] = m.held["private"] + 1
      /\ open.item # NULL /\ ~ n.wild =>
                          /\ Net(n, "item") = Net(m, "item") + ItemBlocks(open.item)
                          /\ n.leaked["private"] = m.leaked["private"]
      /\ n.wild => /\ n.short
                   /\ Net(n, "item") = Net(m, "item")
                   /\ n.leaked["private"] = m.leaked["private"] + 1
    BY <1>3 DEF Opening, SearchType
<1>5. ItemBlocks(open.item) \in Nat /\ b["item"] \in Int /\ b["private"] \in Int
    BY <1>1, <1>4, BlocksType DEF Counts
<1> HIDE DEF n
<1>6. Net(n, "path") = b["path"] + k /\ Net(n, "descriptor") = b["descriptor"] + 0
    BY <1>2, <1>4 DEF Untouched, Net
<1>7. m.leaked["private"] = 0 /\ m.leaked["descriptor"] = 0 /\ n.leaked["descriptor"] = 0
    BY <1>4 DEF Untouched
<1>8. m.held["private"] \in Int /\ n.held["private"] \in Int
    BY <1>1, <1>2, <1>4, MemFields
<1>9. m.held["private"] = b["private"]
    BY <1>2, <1>5, <1>7, <1>8 DEF Net
<1>10. Safe(n)
    BY <1>4, <1>7 DEF Safe, Untouched
<1>11. ASSUME open.item = NULL
       PROVE  Tally(b, n, k, 0, 0, 0)
  <2>1. Net(n, "item") = b["item"] + 0
      BY <1>2, <1>4, <1>11
  <2>2. Net(n, "private") = b["private"] + 0
      BY <1>2, <1>4, <1>11 DEF Untouched, Net
  <2> QED  BY <1>4, <1>6, <2>1, <2>2 DEF Tally
<1>12. ASSUME open.item # NULL, ~ n.wild
       PROVE  Tally(b, n, k, ItemBlocks(open.item), 1, 0) /\ (n.short \/ open.item.body = "whole")
  <2>1. Net(n, "item") = b["item"] + ItemBlocks(open.item)
      BY <1>2, <1>4, <1>5, <1>12
  <2>2. n.held["private"] = b["private"] + 1 /\ n.leaked["private"] = 0
      BY <1>4, <1>7, <1>9, <1>12
  <2>3. Net(n, "private") = b["private"] + 1
      BY <1>5, <2>2 DEF Net
  <2> QED  BY <1>4, <1>6, <1>12, <2>1, <2>3 DEF Tally
<1>13. ASSUME n.wild
       PROVE  Tally(b, n, k, 0, 0, 0) /\ n.short
  <2>1. Net(n, "item") = b["item"] + 0
      BY <1>2, <1>4, <1>13
  <2>2. n.held["private"] = b["private"] + 1 /\ n.leaked["private"] = 1
      BY <1>4, <1>7, <1>9, <1>13
  <2>3. Net(n, "private") = b["private"] + 0
      BY <1>5, <2>2 DEF Net
  <2> QED  BY <1>4, <1>6, <1>13, <2>1, <2>3 DEF Tally
<1> QED  BY <1>4, <1>10, <1>11, <1>12, <1>13 DEF open, n

-----------------------------------------------------------------------------
(* The steps *)

\* What HeapIs makes of the counts.
LEMMA HeapStep ==
    ASSUME CountInv, NEW m, NEW i \in Int, NEW d \in Int,
           Tally(blocks, m, 0, i, d, d), Safe(m), HeapIs(m)
    PROVE  /\ CountInv'
           /\ blocks'["path"] = blocks["path"] + (leaked'["path"] - leaked["path"])
           /\ blocks'["item"] = blocks["item"] + i + (leaked'["item"] - leaked["item"])
           /\ blocks'["private"] = blocks["private"] + d + (leaked'["private"] - leaked["private"])
           /\ blocks'["descriptor"] = blocks["descriptor"] + d
           /\ leaked'["descriptor"] = leaked["descriptor"]
           /\ ~ ranOut' => /\ ~ ranOut /\ ~ m.short /\ below' = below
                           /\ leaked'["private"] = leaked["private"]
<1> DEFINE b == blocks
           l == leaked
<1>1. "item" \in Kinds /\ "private" \in Kinds /\ "path" \in Kinds /\ "descriptor" \in Kinds
    BY DEF Kinds
<1>2. /\ b \in Counts /\ l \in Counts /\ ranOut \in BOOLEAN /\ below \in BOOLEAN
      /\ \A kind \in Kinds : b[kind] \in Int /\ l[kind] \in Int
    BY DEF CountInv, Counts
<1>3. m \in MemType
    BY DEF Tally
<1>4. /\ m.held \in Counts /\ m.leaked \in Counts /\ m.short \in BOOLEAN /\ m.below \in BOOLEAN
      /\ \A kind \in Kinds : m.held[kind] \in Int /\ m.leaked[kind] \in Int
    BY <1>3, MemFields
<1>5. /\ blocks' = m.held
      /\ leaked' = [kind \in Kinds |-> l[kind] + m.leaked[kind]]
      /\ ranOut' = (ranOut \/ m.short) /\ below' = (below \/ m.below)
    BY DEF HeapIs
<1>6. /\ m.held["path"] - m.leaked["path"] = b["path"] + 0
      /\ m.held["item"] - m.leaked["item"] = b["item"] + i
      /\ m.held["private"] - m.leaked["private"] = b["private"] + d
      /\ m.held["descriptor"] - m.leaked["descriptor"] = b["descriptor"] + d
    BY DEF Tally, Net
<1>7. m.leaked["descriptor"] = 0 /\ (m.short \/ (~ m.below /\ m.leaked["private"] = 0))
    BY DEF Safe
<1>8. leaked' \in Counts /\ \A kind \in Kinds : leaked'[kind] = l[kind] + m.leaked[kind]
    BY <1>2, <1>4, <1>5 DEF Counts
<1> HIDE DEF b, l
<1>9. CountInv'
  <2>1. opens' \in Nat
      BY DEF CountInv, HeapIs
  <2> QED  BY <1>2, <1>4, <1>5, <1>8, <2>1 DEF CountInv
<1>10. /\ blocks'["path"] = b["path"] + (leaked'["path"] - l["path"])
       /\ blocks'["item"] = b["item"] + i + (leaked'["item"] - l["item"])
       /\ blocks'["private"] = b["private"] + d + (leaked'["private"] - l["private"])
       /\ blocks'["descriptor"] = b["descriptor"] + d
       /\ leaked'["descriptor"] = l["descriptor"]
  <2>1. ASSUME NEW kind \in Kinds, NEW c \in Int, m.held[kind] - m.leaked[kind] = b[kind] + c
        PROVE  blocks'[kind] = b[kind] + c + (leaked'[kind] - l[kind])
    <3> DEFINE h == m.held[kind]
               g == m.leaked[kind]
               x == b[kind]
               y == l[kind]
    <3>1. h \in Int /\ g \in Int /\ x \in Int /\ y \in Int
        BY <1>2, <1>4
    <3>2. h - g = x + c /\ blocks'[kind] = h /\ leaked'[kind] = y + g
        BY <1>5, <1>8, <2>1
    <3> HIDE DEF h, g, x, y
    <3>3. blocks'[kind] = x + c + (leaked'[kind] - y)
        BY <3>1, <3>2
    <3> QED  BY <3>3 DEF x, y
  <2>2. leaked'["descriptor"] = l["descriptor"]
      BY <1>1, <1>2, <1>7, <1>8
  <2>3. blocks'["path"] = b["path"] + 0 + (leaked'["path"] - l["path"])
      BY <1>1, <1>6, <2>1
  <2>4. blocks'["item"] = b["item"] + i + (leaked'["item"] - l["item"])
      BY <1>1, <1>6, <2>1
  <2>5. blocks'["private"] = b["private"] + d + (leaked'["private"] - l["private"])
      BY <1>1, <1>6, <2>1
  <2>6. blocks'["descriptor"] = b["descriptor"] + d + (leaked'["descriptor"] - l["descriptor"])
      BY <1>1, <1>6, <2>1
  <2> QED  BY <1>1, <1>2, <2>2, <2>3, <2>4, <2>5, <2>6
<1>11. ASSUME ~ ranOut'
       PROVE  ~ ranOut /\ ~ m.short /\ below' = below /\ leaked'["private"] = l["private"]
  <2>1. ~ ranOut /\ ~ m.short
      BY <1>5, <1>11
  <2>2. ~ m.below /\ m.leaked["private"] = 0
      BY <1>7, <2>1
  <2>3. below' = below
      BY <1>2, <1>5, <2>2
  <2>4. leaked'["private"] = l["private"]
      BY <1>1, <1>2, <1>8, <2>2
  <2> QED  BY <2>1, <2>3, <2>4
<1> QED  BY <1>9, <1>10, <1>11 DEF b, l

\* A call that leaves the table alone.
LEMMA SameTable ==
    ASSUME Inv, NEW m, Tally(blocks, m, 0, 0, 0, 0), Safe(m), HeapIs(m),
           UNCHANGED <<OnDisk, disk, file_descriptors>>
    PROVE  /\ DiskInv' /\ TableInv' /\ CountInv'
           /\ MountedIsWhole' /\ BlocksAccounted' /\ WholeWhileMemoryLasts'
<1>1. /\ DiskInv /\ TableInv /\ CountInv
      /\ MountedIsWhole /\ BlocksAccounted /\ WholeWhileMemoryLasts
    BY DEF Inv
<1>2. DiskInv' /\ TableInv' /\ MountedIsWhole'
    BY <1>1 DEF DiskInv, TableInv, MountedIsWhole, OnDisk
<1>3. /\ CountInv'
      /\ blocks'["path"] = blocks["path"] + (leaked'["path"] - leaked["path"])
      /\ blocks'["item"] = blocks["item"] + 0 + (leaked'["item"] - leaked["item"])
      /\ blocks'["private"] = blocks["private"] + 0 + (leaked'["private"] - leaked["private"])
      /\ blocks'["descriptor"] = blocks["descriptor"] + 0
      /\ leaked'["descriptor"] = leaked["descriptor"]
      /\ ~ ranOut' => /\ ~ ranOut /\ ~ m.short /\ below' = below
                      /\ leaked'["private"] = leaked["private"]
    BY <1>1, HeapStep
<1>4. InUse' = InUse /\ OpenItemBlocks' = OpenItemBlocks
  <2>1. file_descriptors' = file_descriptors
      OBVIOUS
  <2> QED  BY <2>1, OpenItemBlocksIsSum, OpenItemBlocksIsSumNext DEF InUse
<1>5. BlocksAccounted'
  <2> DEFINE c == Cardinality(InUse)
             o == OpenItemBlocks[MaxFd]
  <2>1. /\ blocks["private"] = c + leaked["private"] /\ blocks["descriptor"] = c
        /\ blocks["item"] = leaked["item"] + o /\ blocks["path"] = leaked["path"]
      BY <1>1 DEF BlocksAccounted
  <2>2. \A kind \in Kinds : leaked[kind] \in Int /\ leaked'[kind] \in Int
      BY <1>1, <1>3 DEF CountInv, Counts
  <2>3. c \in Int /\ o \in Int
    <3>1. c \in Nat
        BY UsedFinite DEF Used, InUse
    <3>2. SumOf(file_descriptors) \in [0 .. MaxFd -> Nat] /\ MaxFd \in 0 .. MaxFd
        BY <1>1, SumExists, FilesAssumption DEF TableInv, Table
    <3>3. SumOf(file_descriptors)[MaxFd] \in Nat
        BY <3>2
    <3> QED  BY <3>1, <3>3, OpenItemBlocksIsSum
  <2>4. Cardinality(InUse') = c /\ (OpenItemBlocks[MaxFd])' = o
      BY <1>4
  <2>5. "item" \in Kinds /\ "private" \in Kinds /\ "path" \in Kinds
      BY DEF Kinds
  <2> HIDE DEF c, o
  <2>6. /\ blocks'["private"] = c + leaked'["private"] /\ blocks'["descriptor"] = c
        /\ blocks'["item"] = leaked'["item"] + o /\ blocks'["path"] = leaked'["path"]
      BY <1>3, <2>1, <2>2, <2>3, <2>5
  <2> QED  BY <2>4, <2>6 DEF BlocksAccounted
<1>6. WholeWhileMemoryLasts'
    BY <1>1, <1>3, <1>4 DEF WholeWhileMemoryLasts
<1> QED  BY <1>2, <1>3, <1>5, <1>6

\* A step that changes neither the table nor the holders.
LEMMA HeldUnchanged ==
    ASSUME HeldInv, HeldByOne, UNCHANGED <<file_descriptors, held>>
    PROVE  HeldInv' /\ HeldByOne'
  BY DEF HeldInv, HeldByOne

\* The fields of a holder.
LEMMA HolderFields ==
    ASSUME CountInv, NEW call \in Calls, NEW fd \in Index, NEW m \in MemType, NEW lost \in BOOLEAN
    PROVE  LET h == Holder(fd, call.path, m, lost)
           IN  h \in HolderType /\ h.fd = fd /\ h.lost = lost
<1> DEFINE P == {Asked(c.path) : c \in Calls}
           a == Asked(call.path)
<1>1. a \in P /\ m.short \in BOOLEAN /\ opens \in Nat
    BY MemFields DEF CountInv
<1> HIDE DEF P
<1>2. HolderType = [id : Nat, fd : Index, path : P, pos : Nat, short : BOOLEAN, lost : BOOLEAN,
                      disturbed : BOOLEAN]
    BY DEF HolderType, P
<1>3. Holder(fd, call.path, m, lost) = [id |-> opens, fd |-> fd, path |-> a, pos |-> 0,
                                        short |-> m.short, lost |-> lost, disturbed |-> FALSE]
    BY DEF Holder
<1> HIDE DEF a
<1> QED  BY <1>1, <1>2, <1>3

\* A new holder.
LEMMA HeldByNew ==
    ASSUME HeldInv, HeldByOne, NEW h \in HolderType,
           \A j \in Index : file_descriptors[j] # NULL => file_descriptors'[j] # NULL,
           held' = held \cup {h},
           h.lost \/ (file_descriptors[h.fd] = NULL /\ file_descriptors'[h.fd] # NULL)
    PROVE  HeldInv' /\ HeldByOne'
<1>1. ASSUME NEW g \in held
      PROVE  g \in HolderType /\ g.fd \in Index /\ (~ g.lost => file_descriptors[g.fd] # NULL)
  <2>1. g \in HolderType /\ (~ g.lost => file_descriptors[g.fd] # NULL)
      BY DEF HeldInv
  <2> QED  BY <2>1 DEF HolderType
<1>2. ASSUME NEW g \in held'
      PROVE  g \in HolderType /\ (~ g.lost => file_descriptors'[g.fd] # NULL)
    BY <1>1
<1>3. HeldInv'
    BY <1>2 DEF HeldInv
<1>4. ASSUME NEW f \in held', NEW g \in held', f.fd = g.fd, f # g
      PROVE  f.lost \/ g.lost
  <2>1. CASE f \in held /\ g \in held
      BY <1>4, <2>1 DEF HeldByOne
  <2>2. CASE f = h /\ g \in held
      BY <1>1, <1>4, <2>2
  <2>3. CASE g = h /\ f \in held
      BY <1>1, <1>4, <2>3
  <2> QED  BY <1>4, <2>1, <2>2, <2>3
<1>5. HeldByOne'
    BY <1>4 DEF HeldByOne
<1> QED  BY <1>3, <1>5

\* The blocks of the items of the open files are a number.
LEMMA SumType ==
    ASSUME NEW t \in Table
    PROVE  SumOf(t)[MaxFd] \in Nat
<1>1. SumOf(t) \in [0 .. MaxFd -> Nat]
    BY SumExists
<1>2. MaxFd \in 0 .. MaxFd
    BY FilesAssumption
<1> QED  BY <1>1, <1>2

\* One slot of the table changes.
LEMMA SlotChanged ==
    ASSUME NEW t \in Table, NEW fd \in Index, NEW d \in DescriptorType \cup {NULL}
    PROVE  LET u == [t EXCEPT ![fd] = d]
           IN  /\ u \in Table /\ u[fd] = d /\ \A i \in Index : i # fd => u[i] = t[i]
               /\ SumOf(u)[MaxFd] = SumOf(t)[MaxFd] + Weight(u, fd) - Weight(t, fd)
               /\ t[fd] = NULL /\ d # NULL =>
                    /\ Cardinality(Used(u)) = Cardinality(Used(t)) + 1
                    /\ SumOf(u)[MaxFd] = SumOf(t)[MaxFd] + ItemBlocks(d.item)
               /\ t[fd] # NULL /\ d = NULL =>
                    /\ Cardinality(Used(u)) = Cardinality(Used(t)) - 1
                    /\ SumOf(u)[MaxFd] = SumOf(t)[MaxFd] - ItemBlocks(t[fd].item)
               /\ t[fd] # NULL /\ d # NULL /\ d.item = t[fd].item =>
                    Used(u) = Used(t) /\ SumOf(u)[MaxFd] = SumOf(t)[MaxFd]
<1> DEFINE u == [t EXCEPT ![fd] = d]
           D == DescriptorType \cup {NULL}
<1>1. u \in Table /\ u[fd] = d /\ \A i \in Index : i # fd => u[i] = t[i]
  <2> HIDE DEF D
  <2> QED  BY DEF Table, D
<1> HIDE DEF u
<1>2. SumOf(u)[MaxFd] = SumOf(t)[MaxFd] + Weight(u, fd) - Weight(t, fd)
    BY <1>1, SumUpdate
<1>3. /\ SumOf(t)[MaxFd] \in Nat /\ Weight(u, fd) \in Nat /\ Weight(t, fd) \in Nat
      /\ IsFiniteSet(Used(t)) /\ Cardinality(Used(t)) \in Nat
    BY <1>1, SumType, WeightType, UsedFinite
<1>4. /\ Weight(u, fd) = IF d # NULL THEN ItemBlocks(d.item) ELSE 0
      /\ Weight(t, fd) = IF t[fd] # NULL THEN ItemBlocks(t[fd].item) ELSE 0
    BY <1>1 DEF Weight
<1>5. ASSUME t[fd] = NULL, d # NULL
      PROVE  /\ Cardinality(Used(u)) = Cardinality(Used(t)) + 1
             /\ SumOf(u)[MaxFd] = SumOf(t)[MaxFd] + ItemBlocks(d.item)
  <2>1. Used(u) = Used(t) \cup {fd} /\ fd \notin Used(t)
      BY <1>1, <1>5 DEF Used
  <2>2. Cardinality(Used(u)) = Cardinality(Used(t)) + 1
      BY <1>3, <2>1, FS_AddElement
  <2>3. Weight(u, fd) = ItemBlocks(d.item) /\ Weight(t, fd) = 0
      BY <1>4, <1>5
  <2> QED  BY <1>2, <1>3, <2>2, <2>3
<1>6. ASSUME t[fd] # NULL, d = NULL
      PROVE  /\ Cardinality(Used(u)) = Cardinality(Used(t)) - 1
             /\ SumOf(u)[MaxFd] = SumOf(t)[MaxFd] - ItemBlocks(t[fd].item)
  <2>1. Used(u) = Used(t) \ {fd} /\ fd \in Used(t)
      BY <1>1, <1>6 DEF Used
  <2>2. Cardinality(Used(u)) = Cardinality(Used(t)) - 1
      BY <1>3, <2>1, FS_RemoveElement
  <2>3. Weight(t, fd) = ItemBlocks(t[fd].item) /\ Weight(u, fd) = 0
      BY <1>4, <1>6
  <2> QED  BY <1>2, <1>3, <2>2, <2>3
<1>7. ASSUME t[fd] # NULL, d # NULL, d.item = t[fd].item
      PROVE  Used(u) = Used(t) /\ SumOf(u)[MaxFd] = SumOf(t)[MaxFd]
  <2>1. Used(u) = Used(t)
      BY <1>1, <1>7 DEF Used
  <2>2. Weight(u, fd) = Weight(t, fd)
      BY <1>4, <1>7
  <2> QED  BY <1>2, <1>3, <2>1, <2>2
<1> QED  BY <1>1, <1>2, <1>5, <1>6, <1>7 DEF u

\* fopen returns a descriptor: a free slot is taken.
LEMMA OpenSucceedsStep ==
    ASSUME Inv, NEW call \in Calls, NEW p, p.parts \in Strings, NEW open,
           open.item \in ItemType \cup {NULL}, open.m \in MemType, Safe(open.m),
           open.item # NULL /\ ~ open.m.wild =>
                /\ Tally(blocks, open.m, PathBlocks(p.parts), ItemBlocks(open.item), 1, 0)
                /\ open.m.short \/ open.item.body = "whole",
           OpenSucceeds(call.path, p, open)
    PROVE  Inv'
<1>1. PICK fd : fd = file_new_descriptor
    OBVIOUS
<1>2. PICK n : n = kzalloc(open.m, "descriptor")
    OBVIOUS
<1>3. PICK m : m = Leak(n, "path", PathBlocks(p.parts))
    OBVIOUS
<1>4. PICK d : d = [path |-> p.parts, item |-> open.item, pos |-> 0]
    OBVIOUS
<1>5. PICK h : h = Holder(fd, call.path, n, FALSE)
    OBVIOUS
<1>6. /\ open.item # NULL /\ ~ open.m.wild /\ fd > 0 /\ open.m.free > 0
      /\ file_descriptors' = [file_descriptors EXCEPT ![fd] = d]
      /\ HeapIs(m) /\ held' = held \cup {h} /\ UNCHANGED <<OnDisk, disk>>
    BY <1>1, <1>2, <1>3, <1>4, <1>5 DEF OpenSucceeds
<1>7. /\ DiskInv /\ TableInv /\ CountInv /\ HeldInv /\ HeldByOne
      /\ MountedIsWhole /\ BlocksAccounted /\ WholeWhileMemoryLasts
    BY DEF Inv
<1>8. "item" \in Kinds /\ "private" \in Kinds /\ "path" \in Kinds /\ "descriptor" \in Kinds
    BY DEF Kinds
<1>9. open.m.free # 0
    BY <1>6, MemFields
<1>10. /\ n \in MemType /\ n.leaked = open.m.leaked /\ n.below = open.m.below
       /\ n.short = open.m.short /\ Plus(open.m.held, "descriptor", 1, n.held)
    BY <1>2, <1>8, <1>9, KzallocFields
<1> DEFINE i == ItemBlocks(open.item)
           k == PathBlocks(p.parts)
<1>11. i \in Nat /\ k \in Nat /\ blocks \in Counts
    BY <1>7, BlocksType, PathBlocksType DEF CountInv
<1>12. Tally(blocks, n, k, i, 1, 1)
  <2>1. Tally(blocks, open.m, k, i, 1, 0)
      BY <1>6
  <2> HIDE DEF i, k
  <2>2. /\ Net(open.m, "path") = blocks["path"] + k /\ Net(open.m, "item") = blocks["item"] + i
        /\ Net(open.m, "private") = blocks["private"] + 1
        /\ Net(open.m, "descriptor") = blocks["descriptor"] + 0
      BY <2>1 DEF Tally
  <2>3. /\ Net(n, "path") = Net(open.m, "path") /\ Net(n, "item") = Net(open.m, "item")
        /\ Net(n, "private") = Net(open.m, "private")
      BY <1>8, <1>10 DEF Plus, Net
  <2>4. n.held["descriptor"] = open.m.held["descriptor"] + 1
      BY <1>8, <1>10 DEF Plus
  <2>5. Net(n, "descriptor") = Net(open.m, "descriptor") + 1
      BY <1>8, <1>10, <2>4, NetHeld
  <2>6. blocks["descriptor"] \in Int
      BY <1>8, <1>11 DEF Counts
  <2> QED  BY <1>10, <2>2, <2>3, <2>5, <2>6 DEF Tally
<1>13. Tally(blocks, m, 0, i, 1, 1)
  <2> HIDE DEF i, k
  <2>1. Tally(blocks, m, k - k, i, 1, 1)
      BY <1>3, <1>11, <1>12, TallyLeak DEF k
  <2>2. k - k = 0
      BY <1>11
  <2> QED  BY <2>1, <2>2
<1>14. m \in MemType /\ m.below = n.below /\ m.short = n.short /\ Plus(n.leaked, "path", k, m.leaked)
    BY <1>3, <1>8, <1>10, <1>11, LeakFields
<1>15. Safe(m)
  <2>1. m.leaked["private"] = open.m.leaked["private"] /\ m.leaked["descriptor"] = open.m.leaked["descriptor"]
      BY <1>8, <1>10, <1>14 DEF Plus
  <2> QED  BY <1>10, <1>14, <2>1 DEF Safe
<1> HIDE DEF i, k
<1>16. /\ CountInv'
       /\ blocks'["path"] = blocks["path"] + (leaked'["path"] - leaked["path"])
       /\ blocks'["item"] = blocks["item"] + i + (leaked'["item"] - leaked["item"])
       /\ blocks'["private"] = blocks["private"] + 1 + (leaked'["private"] - leaked["private"])
       /\ blocks'["descriptor"] = blocks["descriptor"] + 1
       /\ leaked'["descriptor"] = leaked["descriptor"]
       /\ ~ ranOut' => /\ ~ ranOut /\ ~ m.short /\ below' = below
                       /\ leaked'["private"] = leaked["private"]
    BY <1>6, <1>7, <1>11, <1>13, <1>15, HeapStep
<1>17. fd \in Index /\ file_descriptors[fd] = NULL
    BY <1>1, <1>6, NewDescriptor
<1>18. d \in DescriptorType /\ d.item = open.item
  <2> DEFINE E == Seq(Seq(Nat))
  <2>1. p.parts \in E
      BY DEF Strings
  <2> HIDE DEF E
  <2>2. DescriptorType = [path : E, item : ItemType, pos : Nat]
      BY DEF DescriptorType, E
  <2> QED  BY <1>4, <1>6, <2>1, <2>2
<1>19. d # NULL
    BY <1>18, DescriptorFields
<1> DEFINE t == file_descriptors
           u == [t EXCEPT ![fd] = d]
<1>20. t \in Table
    BY <1>7 DEF TableInv, Table
<1>21. /\ u \in Table /\ u[fd] = d /\ \A j \in Index : j # fd => u[j] = t[j]
       /\ Cardinality(Used(u)) = Cardinality(Used(t)) + 1
       /\ SumOf(u)[MaxFd] = SumOf(t)[MaxFd] + i
  <2> HIDE DEF t
  <2>1. fd \in Index /\ t[fd] = NULL /\ d \in DescriptorType \cup {NULL} /\ i = ItemBlocks(d.item)
      BY <1>17, <1>18 DEF t, i
  <2> QED  BY <1>19, <1>20, <2>1, SlotChanged
<1>22. u = file_descriptors'
    BY <1>6
<1> HIDE DEF u
<1>23. DiskInv' /\ TableInv' /\ MountedIsWhole'
  <2>1. TableInv'
      BY <1>21, <1>22 DEF TableInv, Table
  <2> QED  BY <1>6, <1>7, <2>1 DEF DiskInv, MountedIsWhole, OnDisk
<1>24. HeldInv' /\ HeldByOne'
  <2>1. h \in HolderType /\ h.fd = fd /\ h.lost = FALSE
      BY <1>5, <1>7, <1>10, <1>17, HolderFields
  <2>2. \A j \in Index : file_descriptors[j] # NULL => file_descriptors'[j] # NULL
      BY <1>17, <1>21, <1>22
  <2>3. file_descriptors[h.fd] = NULL /\ file_descriptors'[h.fd] # NULL
      BY <1>17, <1>19, <1>21, <1>22, <2>1
  <2> QED  BY <1>6, <1>7, <2>1, <2>2, <2>3, HeldByNew
<1>25. BlocksAccounted'
  <2> DEFINE c == Cardinality(Used(t))
             o == SumOf(t)[MaxFd]
  <2>1. /\ Cardinality(InUse) = c /\ Cardinality(InUse') = c + 1
        /\ OpenItemBlocks[MaxFd] = o /\ OpenItemBlocks'[MaxFd] = o + i
    <3>1. InUse = Used(t) /\ InUse' = Used(u)
        BY <1>22 DEF InUse, Used
    <3> QED  BY <1>21, <1>22, <3>1, OpenItemBlocksIsSum, OpenItemBlocksIsSumNext
  <2>2. /\ blocks["private"] = c + leaked["private"] /\ blocks["descriptor"] = c
        /\ blocks["item"] = leaked["item"] + o /\ blocks["path"] = leaked["path"]
      BY <1>7, <2>1 DEF BlocksAccounted
  <2>3. \A kind \in Kinds : leaked[kind] \in Int /\ leaked'[kind] \in Int
      BY <1>7, <1>16 DEF CountInv, Counts
  <2>4. c \in Int /\ o \in Int /\ i \in Int
    <3>1. c \in Nat
        BY UsedFinite
    <3>2. o \in Nat
        BY <1>20, SumType
    <3> HIDE DEF c, o
    <3> QED  BY <1>11, <3>1, <3>2
  <2> HIDE DEF c, o
  <2>5. /\ blocks'["private"] = (c + 1) + leaked'["private"] /\ blocks'["descriptor"] = c + 1
        /\ blocks'["item"] = leaked'["item"] + (o + i) /\ blocks'["path"] = leaked'["path"]
    <3> DEFINE v == leaked["private"]
               w == leaked'["private"]
               x == leaked["item"]
               y == leaked'["item"]
    <3>1. v \in Int /\ w \in Int /\ x \in Int /\ y \in Int
        BY <1>8, <2>3
    <3>2. blocks'["private"] = (c + v) + 1 + (w - v) /\ blocks'["item"] = (x + o) + i + (y - x)
        BY <1>16, <2>2
    <3> HIDE DEF v, w, x, y
    <3>3. blocks'["private"] = (c + 1) + w /\ blocks'["item"] = y + (o + i)
        BY <2>4, <3>1, <3>2
    <3>4. blocks'["path"] = leaked'["path"] /\ blocks'["descriptor"] = c + 1
        BY <1>8, <1>16, <2>2, <2>3
    <3> QED  BY <3>3, <3>4 DEF w, y
  <2> QED  BY <2>1, <2>5 DEF BlocksAccounted
<1>26. WholeWhileMemoryLasts'
  <2> SUFFICES ASSUME ~ ranOut'
               PROVE  /\ ~ below'
                      /\ \A j \in InUse' : file_descriptors'[j].item.body = "whole"
                      /\ \A kind \in {"private", "descriptor"} : leaked'[kind] = 0
      BY DEF WholeWhileMemoryLasts
  <2>1. ~ ranOut /\ ~ open.m.short /\ below' = below
      BY <1>10, <1>14, <1>16
  <2>2. /\ ~ below /\ \A j \in InUse : file_descriptors[j].item.body = "whole"
        /\ \A kind \in {"private", "descriptor"} : leaked[kind] = 0
      BY <1>7, <2>1 DEF WholeWhileMemoryLasts
  <2>3. ASSUME NEW j \in InUse'
        PROVE  file_descriptors'[j].item.body = "whole"
    <3>1. j \in Index /\ file_descriptors'[j] # NULL
        BY DEF InUse
    <3>2. CASE j = fd
        BY <1>6, <1>18, <1>21, <1>22, <2>1, <3>2
    <3>3. CASE j # fd
        BY <1>21, <1>22, <2>2, <3>1, <3>3 DEF InUse
    <3> QED  BY <3>2, <3>3
  <2> QED  BY <1>16, <2>1, <2>2, <2>3
<1> QED  BY <1>16, <1>23, <1>24, <1>25, <1>26 DEF Inv

\* fopen keeps the invariant, however it ends.
LEMMA FopenStep ==
    ASSUME Inv, NEW call \in Calls, NEW free \in Rooms, fopen(call.path, call.mode, free)
    PROVE  Inv'
<1> USE DEF Inv
<1>1. PICK p : /\ p = pathparser_parse(Memory(free, blocks), call.path)
               /\ \/ OpenRefuses(call.mode, p)
                  \/ /\ ~ OpenRefused(call.mode, p)
                     /\ \E open \in {fat16_open(p.m, root, sub, p.parts, call.mode)} :
                          \/ OpenFails(p, open)
                          \/ OpenGoesAstray(p, open)
                          \/ OpenFindsNoDescriptor(p, open)
                          \/ OpenSucceeds(call.path, p, open)
                          \/ OpenLosesDescriptor(call.path, p, open)
    BY DEF fopen
<1>2. free \in Nat /\ call.path \in Seq(Nat) /\ blocks \in Counts
    BY FilesAssumption DEF CountInv
<1> DEFINE k == PathBlocks(p.parts)
<1>3. /\ p.parts \in Strings /\ p.root \in BOOLEAN /\ ~ p.m.wild
      /\ Tally(blocks, p.m, IF p.root THEN k ELSE 0, 0, 0, 0)
      /\ p.m.below => p.m.short
      /\ \A kind \in {"private", "descriptor"} : p.m.leaked[kind] = 0
    BY <1>1, <1>2, ParseTally
<1>4. k \in Nat /\ k - k = 0
  <2>1. k \in Nat
      BY <1>3, PathBlocksType
  <2> HIDE DEF k
  <2> QED  BY <2>1
<1> HIDE DEF k
<1>5. CASE OpenRefuses(call.mode, p)
  <2>1. PICK m : m = IF p.root THEN pathparser_free(p.m, p.parts) ELSE p.m
      OBVIOUS
  <2>2. HeapIs(m) /\ UNCHANGED <<OnDisk, disk, file_descriptors>> /\ UNCHANGED held
      BY <1>5, <2>1 DEF OpenRefuses
  <2>3. Tally(blocks, m, 0, 0, 0, 0) /\ Safe(m)
    <3>1. CASE ~ p.root
        BY <1>3, <2>1, <3>1 DEF Safe
    <3>2. CASE p.root
      <4>1. Tally(blocks, p.m, k, 0, 0, 0) /\ m = pathparser_free(p.m, p.parts)
          BY <1>3, <2>1, <3>2
      <4>2. Tally(blocks, m, k - k, 0, 0, 0) /\ m.leaked = p.m.leaked /\ m.below = p.m.below /\ m.short = p.m.short
          BY <1>2, <1>3, <1>4, <4>1, TallyFreePath DEF k
      <4> QED  BY <1>3, <1>4, <4>2 DEF Safe
    <3> QED  BY <3>1, <3>2
  <2>4. HeldInv' /\ HeldByOne'
      BY <2>2, HeldUnchanged
  <2> QED  BY <2>2, <2>3, <2>4, SameTable
<1>6. ASSUME ~ OpenRefused(call.mode, p),
             NEW open, open = fat16_open(p.m, root, sub, p.parts, call.mode),
             \/ OpenFails(p, open)
             \/ OpenGoesAstray(p, open)
             \/ OpenFindsNoDescriptor(p, open)
             \/ OpenSucceeds(call.path, p, open)
             \/ OpenLosesDescriptor(call.path, p, open)
      PROVE  Inv'
  <2>1. p.root /\ p.parts # <<>>
      BY <1>6 DEF OpenRefused
  <2>2. Tally(blocks, p.m, k, 0, 0, 0)
      BY <1>3, <2>1
  <2>3. /\ open.item \in ItemType \cup {NULL} /\ open.m \in MemType
        /\ Safe(open.m)
        /\ open.item = NULL => Tally(blocks, open.m, k, 0, 0, 0)
        /\ open.item # NULL /\ ~ open.m.wild =>
             /\ Tally(blocks, open.m, k, ItemBlocks(open.item), 1, 0)
             /\ open.m.short \/ open.item.body = "whole"
        /\ open.m.wild => Tally(blocks, open.m, k, 0, 0, 0) /\ open.m.short
    <3>1. root \in Seq(SlotType) /\ sub \in Seq(SlotType) /\ k \in Int
        BY <1>4 DEF DiskInv
    <3> QED  BY <1>2, <1>3, <1>6, <2>1, <2>2, <3>1, OpenTally
  <2>4. ItemBlocks(open.item) \in Nat
      BY <2>3, BlocksType
  <2>5. CASE OpenFails(p, open)
    <3>1. PICK n : n = pathparser_free(open.m, p.parts)
        OBVIOUS
    <3>2. PICK m : m = [n EXCEPT !.wild = TRUE]
        OBVIOUS
    <3>3. /\ open.item = NULL /\ HeapIs(m)
          /\ UNCHANGED <<OnDisk, disk, file_descriptors>> /\ UNCHANGED held
        BY <2>5, <3>1, <3>2 DEF OpenFails
    <3>4. Tally(blocks, n, k - k, 0, 0, 0) /\ n.leaked = open.m.leaked /\ n.below = open.m.below /\ n.short = open.m.short
        BY <1>2, <1>3, <1>4, <2>3, <3>1, <3>3, TallyFreePath DEF k
    <3>5. n \in MemType
        BY <3>4 DEF Tally
    <3>6. /\ m \in MemType /\ m.held = n.held /\ m.leaked = n.leaked
          /\ m.below = n.below /\ m.short = n.short
        BY <3>2, <3>5 DEF MemType
    <3>7. Tally(blocks, m, 0, 0, 0, 0)
        BY <1>4, <3>4, <3>6 DEF Tally, Net
    <3>8. Safe(m)
        BY <2>3, <3>4, <3>6 DEF Safe
    <3>9. HeldInv' /\ HeldByOne'
        BY <3>3, HeldUnchanged
    <3> QED  BY <3>3, <3>7, <3>8, <3>9, SameTable
  <2>6. CASE OpenGoesAstray(p, open)
    <3>1. PICK m : m = Leak(open.m, "path", k)
        OBVIOUS
    <3>2. /\ open.m.wild /\ HeapIs(m)
          /\ UNCHANGED <<OnDisk, disk, file_descriptors>> /\ UNCHANGED held
        BY <2>6, <3>1 DEF OpenGoesAstray, k
    <3>3. Tally(blocks, open.m, k, 0, 0, 0) /\ open.m.short
        BY <2>3, <3>2
    <3>4. Tally(blocks, m, k - k, 0, 0, 0)
        BY <1>2, <1>4, <3>1, <3>3, TallyLeak
    <3>5. "path" \in Kinds /\ "descriptor" \in Kinds
        BY DEF Kinds
    <3>6. m.short = open.m.short /\ Plus(open.m.leaked, "path", k, m.leaked)
        BY <1>4, <2>3, <3>1, <3>5, LeakFields
    <3>7. Safe(m)
        BY <2>3, <3>3, <3>5, <3>6 DEF Safe, Plus
    <3>8. HeldInv' /\ HeldByOne'
        BY <3>2, HeldUnchanged
    <3> QED  BY <1>4, <3>2, <3>4, <3>7, <3>8, SameTable
  <2>7. CASE OpenFindsNoDescriptor(p, open)
    <3> DEFINE i == ItemBlocks(open.item)
    <3>1. PICK n : n = pathparser_free(open.m, p.parts)
        OBVIOUS
    <3>2. PICK m : m = fat16_close(n, open.item)
        OBVIOUS
    <3>3. /\ open.item # NULL /\ ~ open.m.wild /\ HeapIs(m)
          /\ UNCHANGED <<OnDisk, disk, file_descriptors>> /\ UNCHANGED held
        BY <2>7, <3>1, <3>2 DEF OpenFindsNoDescriptor
    <3>4. open.item \in ItemType /\ i \in Nat /\ i - i = 0
      <4>1. i \in Nat
          BY <2>4
      <4> HIDE DEF i
      <4> QED  BY <2>3, <3>3, <4>1
    <3>5. Tally(blocks, open.m, k, i, 1, 0) /\ (open.m.short \/ open.item.body = "whole")
        BY <2>3, <3>3
    <3> HIDE DEF i
    <3>6. Tally(blocks, n, k - k, i, 1, 0) /\ n.leaked = open.m.leaked /\ n.below = open.m.below /\ n.short = open.m.short
        BY <1>2, <1>3, <1>4, <3>1, <3>4, <3>5, TallyFreePath DEF k
    <3>7. Tally(blocks, n, 0, i, 1, 0) /\ n \in MemType
        BY <1>4, <3>6 DEF Tally
    <3>8. Tally(blocks, m, 0, i - i, 1 - 1, 0)
        BY <1>2, <3>2, <3>4, <3>7, TallyClose DEF i
    <3>9. m.leaked = n.leaked /\ m.short = n.short /\ (m.below => n.below \/ open.item.body = "null")
        BY <3>2, <3>4, <3>7, Closed
    <3>10. Safe(m)
        BY <2>3, <3>5, <3>6, <3>9 DEF Safe
    <3>11. HeldInv' /\ HeldByOne'
        BY <3>3, HeldUnchanged
    <3>12. Tally(blocks, m, 0, 0, 0, 0)
        BY <3>4, <3>8
    <3> QED  BY <3>3, <3>10, <3>11, <3>12, SameTable
  <2>8. CASE OpenSucceeds(call.path, p, open)
      BY <1>3, <2>3, <2>8, OpenSucceedsStep DEF k
  <2>9. CASE OpenLosesDescriptor(call.path, p, open)
    <3> DEFINE i == ItemBlocks(open.item)
    <3>1. PICK fd : fd = file_new_descriptor
        OBVIOUS
    <3>2. PICK n : n = kzalloc(open.m, "descriptor")
        OBVIOUS
    <3>3. PICK o : o = Leak(n, "path", k)
        OBVIOUS
    <3>4. PICK q : q = Leak(o, "private", 1)
        OBVIOUS
    <3>5. PICK m : m = Leak(q, "item", i)
        OBVIOUS
    <3>6. PICK h : h = Holder(fd, call.path, n, TRUE)
        OBVIOUS
    <3>7. /\ open.item # NULL /\ ~ open.m.wild /\ fd > 0 /\ open.m.free = 0
          /\ HeapIs(m) /\ held' = held \cup {h}
          /\ UNCHANGED <<OnDisk, disk, file_descriptors>>
        BY <2>9, <3>1, <3>2, <3>3, <3>4, <3>5, <3>6 DEF OpenLosesDescriptor, k
    <3>8. "item" \in Kinds /\ "private" \in Kinds /\ "path" \in Kinds /\ "descriptor" \in Kinds
        BY DEF Kinds
    <3>9. n \in MemType /\ n.leaked = open.m.leaked /\ n.held = open.m.held /\ n.short
        BY <2>3, <3>2, <3>7, <3>8, KzallocFields
    <3>10. i \in Nat /\ i - i = 0 /\ Tally(blocks, open.m, k, i, 1, 0)
      <4>1. i \in Nat /\ Tally(blocks, open.m, k, i, 1, 0)
          BY <2>3, <2>4, <3>7
      <4> HIDE DEF i
      <4> QED  BY <4>1
    <3> HIDE DEF i
    <3>11. Tally(blocks, n, k, i, 1, 0)
        BY <3>9, <3>10 DEF Tally, Net
    <3>12. Tally(blocks, o, k - k, i, 1, 0)
        BY <1>2, <1>4, <3>3, <3>10, <3>11, TallyLeak
    <3>13. Tally(blocks, o, 0, i, 1, 0) /\ o \in MemType
        BY <1>4, <3>12 DEF Tally
    <3>14. Tally(blocks, q, 0, i, 1 - 1, 0)
        BY <1>2, <3>4, <3>10, <3>13, TallyLeak
    <3>15. Tally(blocks, q, 0, i, 0, 0) /\ q \in MemType
        BY <3>14 DEF Tally
    <3>16. Tally(blocks, m, 0, i - i, 0, 0)
        BY <1>2, <3>5, <3>10, <3>15, TallyLeak
    <3>17. Tally(blocks, m, 0, 0, 0, 0)
        BY <3>10, <3>16
    <3>18. Safe(m)
      <4>1. o.short = n.short /\ Plus(n.leaked, "path", k, o.leaked)
          BY <1>4, <3>3, <3>8, <3>9, LeakFields
      <4>2. q.short = o.short /\ Plus(o.leaked, "private", 1, q.leaked)
          BY <3>4, <3>8, <3>13, LeakFields
      <4>3. m.short = q.short /\ Plus(q.leaked, "item", i, m.leaked)
          BY <3>5, <3>8, <3>10, <3>15, LeakFields
      <4>4. m.leaked["descriptor"] = open.m.leaked["descriptor"]
          BY <3>8, <3>9, <4>1, <4>2, <4>3 DEF Plus
      <4> QED  BY <2>3, <3>9, <4>1, <4>2, <4>3, <4>4 DEF Safe
    <3>19. HeldInv' /\ HeldByOne'
      <4>1. fd \in Index
          BY <3>1, <3>7, NewDescriptor
      <4>2. h \in HolderType /\ h.lost
          BY <3>6, <3>9, <4>1, HolderFields DEF Inv
      <4> QED  BY <3>7, <4>2, HeldByNew
    <3> QED  BY <3>7, <3>17, <3>18, <3>19, SameTable
  <2> QED  BY <1>6, <2>5, <2>6, <2>7, <2>8, <2>9
<1> QED  BY <1>1, <1>5, <1>6

\* file_get_descriptor returns what the table has.
LEMMA GetDescriptor ==
    ASSUME TableInv, NEW fd \in 0 .. MaxFd + 1, file_get_descriptor(fd) # NULL
    PROVE  /\ fd \in Index /\ file_get_descriptor(fd) = file_descriptors[fd]
           /\ file_descriptors[fd] \in DescriptorType
<1>1. fd \in Index /\ file_get_descriptor(fd) = file_descriptors[fd]
    BY FilesAssumption DEF file_get_descriptor, Index
<1>2. file_descriptors[fd] \in DescriptorType \cup {NULL}
    BY <1>1 DEF TableInv
<1> QED  BY <1>1, <1>2

\* The number of a holder.
LEMMA HeldNumber ==
    ASSUME HeldInv, NEW h \in held
    PROVE  h.fd \in Index /\ h.fd \in 0 .. MaxFd + 1
<1> DEFINE P == {Asked(call.path) : call \in Calls}
<1>1. HolderType = [id : Nat, fd : Index, path : P, pos : Nat, short : BOOLEAN, lost : BOOLEAN,
                    disturbed : BOOLEAN]
    BY DEF HolderType
<1>2. h \in HolderType
    BY DEF HeldInv
<1> HIDE DEF P
<1>3. h.fd \in Index
    BY <1>1, <1>2
<1> QED  BY <1>3, FilesAssumption DEF Index

\* fclose keeps the invariant.
LEMMA FcloseStep ==
    ASSUME Inv, NEW h \in held, fclose(h)
    PROVE  Inv'
<1> DEFINE fd == h.fd
           left(g) == [g EXCEPT !.lost = g.lost \/ Shares(g, h)]
<1>0. fd \in 0 .. MaxFd + 1
    BY HeldNumber DEF Inv
<1>1. PICK desc : desc = file_get_descriptor(fd)
    OBVIOUS
<1>2. PICK s : s = Memory(0, blocks)
    OBVIOUS
<1>3. PICK n : n = fat16_close(s, desc.item)
    OBVIOUS
<1>4. PICK m : m = kfree(n, "descriptor", 1)
    OBVIOUS
<1>5. /\ desc # NULL
      /\ file_descriptors' = [file_descriptors EXCEPT ![fd] = NULL]
      /\ blocks' = m.held
      /\ below' = (below \/ m.below \/ desc.item.body = "freed")
      /\ held' = {left(g) : g \in held \ {h}}
      /\ UNCHANGED <<OnDisk, disk, opens, leaked, ranOut, wild>>
    BY <1>1, <1>2, <1>3, <1>4 DEF fclose
<1>6. /\ DiskInv /\ TableInv /\ CountInv /\ HeldInv /\ HeldByOne
      /\ MountedIsWhole /\ BlocksAccounted /\ WholeWhileMemoryLasts
    BY DEF Inv
<1>7. "item" \in Kinds /\ "private" \in Kinds /\ "path" \in Kinds /\ "descriptor" \in Kinds
    BY DEF Kinds
<1>8. fd \in Index /\ desc = file_descriptors[fd] /\ desc \in DescriptorType
    BY <1>0, <1>1, <1>5, <1>6, GetDescriptor
<1> DEFINE i == ItemBlocks(desc.item)
           t == file_descriptors
           u == [t EXCEPT ![fd] = NULL]
<1>9. desc.item \in ItemType /\ i \in Nat
    BY <1>8, DescriptorFields
<1>10. /\ s \in MemType /\ ~ s.below
       /\ \A kind \in Kinds : blocks[kind] \in Int /\ s.held[kind] = blocks[kind]
  <2>1. 0 \in Nat /\ blocks \in Counts
      BY <1>6 DEF CountInv
  <2> QED  BY <1>2, <2>1, StartFields
<1>11. /\ n \in MemType /\ (n.below => s.below \/ desc.item.body = "null")
       /\ n.held["item"] = s.held["item"] - i
       /\ n.held["private"] = s.held["private"] - 1
       /\ \A kind \in {"path", "descriptor"} : n.held[kind] = s.held[kind]
    BY <1>3, <1>9, <1>10, Closed
<1> HIDE DEF i
<1>12. m \in MemType /\ m.below = n.below /\ Plus(n.held, "descriptor", -1, m.held)
  <2>1. 1 \in Nat
      OBVIOUS
  <2> QED  BY <1>4, <1>7, <1>11, <2>1, KfreeFields
<1>13. /\ blocks'["item"] = blocks["item"] - i /\ blocks'["private"] = blocks["private"] - 1
       /\ blocks'["descriptor"] = blocks["descriptor"] + -1 /\ blocks'["path"] = blocks["path"]
    BY <1>5, <1>7, <1>10, <1>11, <1>12 DEF Plus
<1>14. t \in Table
    BY <1>6 DEF TableInv, Table
<1>15. /\ u \in Table /\ u[fd] = NULL /\ \A j \in Index : j # fd => u[j] = t[j]
       /\ Cardinality(Used(u)) = Cardinality(Used(t)) - 1
       /\ SumOf(u)[MaxFd] = SumOf(t)[MaxFd] - i
  <2> HIDE DEF t
  <2>1. fd \in Index /\ t[fd] # NULL /\ NULL \in DescriptorType \cup {NULL} /\ i = ItemBlocks(t[fd].item)
      BY <1>5, <1>8 DEF t, i
  <2> QED  BY <1>14, <2>1, SlotChanged
<1>16. u = file_descriptors'
    BY <1>5
<1> HIDE DEF u
<1>17. DiskInv' /\ TableInv' /\ MountedIsWhole' /\ CountInv'
  <2>1. TableInv'
      BY <1>15, <1>16 DEF TableInv, Table
  <2>2. CountInv'
    <3>1. m.held \in Counts /\ m.below \in BOOLEAN
        BY <1>12, MemFields
    <3> QED  BY <1>5, <1>6, <3>1 DEF CountInv
  <2> QED  BY <1>5, <1>6, <2>1, <2>2 DEF DiskInv, MountedIsWhole, OnDisk
<1>18. HeldInv' /\ HeldByOne'
  <2>1. ASSUME NEW g \in held, g # h
        PROVE  /\ left(g) \in HolderType /\ left(g).fd = g.fd /\ (g.lost => left(g).lost)
               /\ ~ left(g).lost => ~ Shares(g, h) /\ ~ g.lost
               /\ g.fd \in Index /\ (~ g.lost => t[g.fd] # NULL)
    <3> DEFINE P == {Asked(call.path) : call \in Calls}
               q == g.lost \/ Shares(g, h)
    <3>1. HolderType = [id : Nat, fd : Index, path : P, pos : Nat, short : BOOLEAN, lost : BOOLEAN,
                        disturbed : BOOLEAN]
        BY DEF HolderType
    <3>2. g \in HolderType /\ (~ g.lost => t[g.fd] # NULL)
        BY <1>6 DEF HeldInv
    <3>3. q \in BOOLEAN /\ (q <=> g.lost \/ Shares(g, h))
        OBVIOUS
    <3> HIDE DEF P, q
    <3>4. [g EXCEPT !.lost = q] \in HolderType /\ [g EXCEPT !.lost = q].fd = g.fd /\ [g EXCEPT !.lost = q].lost = q
        BY <3>1, <3>2, <3>3
    <3>5. g.fd \in Index
        BY <3>1, <3>2
    <3>6. left(g) = [g EXCEPT !.lost = q]
        BY DEF q
    <3> HIDE DEF left
    <3> QED  BY <3>2, <3>3, <3>4, <3>5, <3>6
  <2> HIDE DEF left
  <2>2. HeldInv'
    <3>1. ASSUME NEW f \in held'
          PROVE  f \in HolderType /\ (~ f.lost => file_descriptors'[f.fd] # NULL)
      <4>1. PICK g \in held : g # h /\ f = left(g)
          BY <1>5
      <4>2. ~ f.lost => g.fd # fd
          BY <2>1, <4>1 DEF Shares
      <4> QED  BY <1>15, <1>16, <2>1, <4>1, <4>2
    <3> QED  BY <3>1 DEF HeldInv
  <2>3. HeldByOne'
    <3>1. ASSUME NEW e \in held', NEW f \in held', e.fd = f.fd, e # f
          PROVE  e.lost \/ f.lost
      <4>1. PICK x \in held : x # h /\ e = left(x)
          BY <1>5
      <4>2. PICK y \in held : y # h /\ f = left(y)
          BY <1>5
      <4>3. x.fd = y.fd /\ x # y
          BY <2>1, <3>1, <4>1, <4>2
      <4>4. x.lost \/ y.lost
          BY <1>6, <4>3 DEF HeldByOne
      <4> QED  BY <2>1, <4>1, <4>2, <4>4
    <3> QED  BY <3>1 DEF HeldByOne
  <2> QED  BY <2>2, <2>3
<1>19. BlocksAccounted'
  <2> DEFINE c == Cardinality(Used(t))
             o == SumOf(t)[MaxFd]
  <2>1. /\ Cardinality(InUse) = c /\ Cardinality(InUse') = c - 1
        /\ OpenItemBlocks[MaxFd] = o /\ OpenItemBlocks'[MaxFd] = o - i
    <3>1. InUse = Used(t) /\ InUse' = Used(u)
        BY <1>16 DEF InUse, Used
    <3> QED  BY <1>15, <1>16, <3>1, OpenItemBlocksIsSum, OpenItemBlocksIsSumNext
  <2>2. /\ blocks["private"] = c + leaked["private"] /\ blocks["descriptor"] = c
        /\ blocks["item"] = leaked["item"] + o /\ blocks["path"] = leaked["path"]
      BY <1>6, <2>1 DEF BlocksAccounted
  <2>3. c \in Int /\ o \in Int /\ i \in Int /\ leaked["private"] \in Int /\ leaked["item"] \in Int
    <3>1. c \in Nat
        BY UsedFinite
    <3>2. o \in Nat
        BY <1>14, SumType
    <3>3. leaked["private"] \in Int /\ leaked["item"] \in Int
        BY <1>6, <1>7 DEF CountInv, Counts
    <3> HIDE DEF c, o
    <3> QED  BY <1>9, <3>1, <3>2, <3>3
  <2> HIDE DEF c, o
  <2>4. /\ blocks'["private"] = (c - 1) + leaked["private"] /\ blocks'["descriptor"] = c - 1
        /\ blocks'["item"] = leaked["item"] + (o - i) /\ blocks'["path"] = leaked["path"]
    <3> DEFINE v == leaked["private"]
               x == leaked["item"]
    <3>1. v \in Int /\ x \in Int
        BY <2>3
    <3>2. blocks'["private"] = (c + v) - 1 /\ blocks'["item"] = (x + o) - i
        BY <1>13, <2>2
    <3> HIDE DEF v, x
    <3>3. blocks'["private"] = (c - 1) + v /\ blocks'["item"] = x + (o - i)
        BY <2>3, <3>1, <3>2
    <3>4. blocks'["path"] = leaked["path"] /\ blocks'["descriptor"] = c - 1
        BY <1>13, <2>2, <2>3
    <3> QED  BY <3>3, <3>4 DEF v, x
  <2> QED  BY <1>5, <2>1, <2>4 DEF BlocksAccounted
<1>20. WholeWhileMemoryLasts'
  <2> SUFFICES ASSUME ~ ranOut'
               PROVE  /\ ~ below'
                      /\ \A j \in InUse' : file_descriptors'[j].item.body = "whole"
                      /\ \A kind \in {"private", "descriptor"} : leaked'[kind] = 0
      BY DEF WholeWhileMemoryLasts
  <2>1. /\ ~ below /\ \A j \in InUse : file_descriptors[j].item.body = "whole"
        /\ \A kind \in {"private", "descriptor"} : leaked[kind] = 0
      BY <1>5, <1>6 DEF WholeWhileMemoryLasts
  <2>2. desc.item.body = "whole"
      BY <1>5, <1>8, <2>1 DEF InUse
  <2>3. ~ below'
      BY <1>5, <1>10, <1>11, <1>12, <2>1, <2>2
  <2>4. ASSUME NEW j \in InUse'
        PROVE  file_descriptors'[j].item.body = "whole"
    <3>1. j \in Index /\ file_descriptors'[j] # NULL
        BY DEF InUse
    <3>2. j # fd
        BY <1>15, <1>16, <3>1
    <3> QED  BY <1>15, <1>16, <2>1, <3>1, <3>2 DEF InUse
  <2> QED  BY <1>5, <2>1, <2>3, <2>4
<1> QED  BY <1>17, <1>18, <1>19, <1>20 DEF Inv

\* fread and fseek move a position and nothing else.
LEMMA MoveStep ==
    ASSUME Inv, NEW h \in held, file_get_descriptor(h.fd) # NULL,
           NEW offset \in Nat, NEW whence, Move(h, offset, whence)
    PROVE  Inv'
<1> DEFINE fd == h.fd
           from(pos) == offset + IF whence = "SEEK_CUR" THEN pos ELSE 0
           own(g) == g = h /\ ~ g.lost /\ ~ g.disturbed
           moved(g) == [g EXCEPT !.pos = IF own(g) THEN from(g.pos) ELSE g.pos,
                                 !.disturbed = g.disturbed \/ Shares(g, h)]
           t == file_descriptors
           d == [t[fd] EXCEPT !.pos = from(t[fd].pos)]
           u == [t EXCEPT ![fd] = d]
<1>1. /\ DiskInv /\ TableInv /\ CountInv /\ HeldInv /\ HeldByOne
      /\ MountedIsWhole /\ BlocksAccounted /\ WholeWhileMemoryLasts
    BY DEF Inv
<1>2. fd \in Index /\ t[fd] \in DescriptorType /\ t[fd] # NULL
    BY <1>1, HeldNumber, GetDescriptor
<1>3. \A pos \in Nat : from(pos) \in Nat
    OBVIOUS
<1>4. /\ file_descriptors' = u
      /\ held' = {moved(g) : g \in held}
      /\ UNCHANGED <<OnDisk, disk, blocks, opens, leaked, Errors>>
    BY DEF Move
<1> HIDE DEF from
<1>5. d \in DescriptorType /\ d # NULL /\ d.item = t[fd].item
  <2> DEFINE e == t[fd]
             E == Seq(Seq(Nat))
  <2>1. DescriptorType = [path : E, item : ItemType, pos : Nat]
      BY DEF DescriptorType
  <2>2. e \in DescriptorType
      BY <1>2
  <2> HIDE DEF e, E, t
  <2>3. [e EXCEPT !.pos = from(e.pos)] \in DescriptorType /\ [e EXCEPT !.pos = from(e.pos)].item = e.item
    <3>1. e.pos \in Nat
        BY <2>1, <2>2
    <3>2. from(e.pos) \in Nat
        BY <1>3, <3>1
    <3> QED  BY <2>1, <2>2, <3>2
  <2>4. [e EXCEPT !.pos = from(e.pos)] # NULL
      BY <2>3, DescriptorFields
  <2> QED  BY <2>3, <2>4 DEF e
<1>6. t \in Table
    BY <1>1 DEF TableInv, Table
<1>7. /\ u \in Table /\ u[fd] = d /\ \A j \in Index : j # fd => u[j] = t[j]
      /\ Used(u) = Used(t) /\ SumOf(u)[MaxFd] = SumOf(t)[MaxFd]
  <2> HIDE DEF t, d
  <2>1. d \in DescriptorType \cup {NULL}
      BY <1>5
  <2> QED  BY <1>2, <1>5, <1>6, <2>1, SlotChanged
<1> HIDE DEF u, d
<1>8. InUse' = InUse /\ OpenItemBlocks'[MaxFd] = OpenItemBlocks[MaxFd]
  <2>1. InUse = Used(t) /\ InUse' = Used(u)
      BY <1>4 DEF InUse, Used
  <2> QED  BY <1>4, <1>7, <2>1, OpenItemBlocksIsSum, OpenItemBlocksIsSumNext
<1>9. DiskInv' /\ TableInv' /\ MountedIsWhole' /\ CountInv'
  <2>1. TableInv'
      BY <1>4, <1>7 DEF TableInv, Table
  <2> QED  BY <1>1, <1>4, <2>1 DEF DiskInv, MountedIsWhole, CountInv, OnDisk, Errors
<1>10. ASSUME NEW g \in held
       PROVE  /\ moved(g) \in HolderType /\ moved(g).fd = g.fd /\ moved(g).lost = g.lost
              /\ g.fd \in Index /\ (~ g.lost => t[g.fd] # NULL)
  <2> DEFINE P == {Asked(call.path) : call \in Calls}
             p == IF own(g) THEN from(g.pos) ELSE g.pos
             q == g.disturbed \/ Shares(g, h)
             f == [g EXCEPT !.pos = p, !.disturbed = q]
  <2>1. HolderType = [id : Nat, fd : Index, path : P, pos : Nat, short : BOOLEAN, lost : BOOLEAN,
                      disturbed : BOOLEAN]
      BY DEF HolderType
  <2>2. g \in HolderType /\ (~ g.lost => t[g.fd] # NULL)
      BY <1>1 DEF HeldInv
  <2> HIDE DEF P
  <2>3. p \in Nat
    <3>1. g.pos \in Nat
        BY <2>1, <2>2
    <3> QED  BY <1>3, <3>1
  <2>4. q \in BOOLEAN
      OBVIOUS
  <2>5. moved(g) = f
      OBVIOUS
  <2> HIDE DEF p, q, moved
  <2>6. f \in HolderType /\ f.fd = g.fd /\ f.lost = g.lost
      BY <2>1, <2>2, <2>3, <2>4
  <2>7. g.fd \in Index
      BY <2>1, <2>2
  <2> HIDE DEF f
  <2> QED  BY <2>2, <2>5, <2>6, <2>7
<1> HIDE DEF moved
<1>11. HeldInv'
  <2>1. ASSUME NEW g \in held'
        PROVE  g \in HolderType /\ (~ g.lost => file_descriptors'[g.fd] # NULL)
    <3>1. PICK f \in held : g = moved(f)
        BY <1>4
    <3> QED  BY <1>4, <1>5, <1>7, <1>10, <3>1
  <2> QED  BY <2>1 DEF HeldInv
<1>12. HeldByOne'
  <2>1. ASSUME NEW f \in held', NEW g \in held', f.fd = g.fd, f # g
        PROVE  f.lost \/ g.lost
    <3>1. PICK x \in held : f = moved(x)
        BY <1>4
    <3>2. PICK y \in held : g = moved(y)
        BY <1>4
    <3>3. x.fd = y.fd /\ x # y
        BY <1>10, <2>1, <3>1, <3>2
    <3>4. x.lost \/ y.lost
        BY <1>1, <3>3 DEF HeldByOne
    <3> QED  BY <1>10, <3>1, <3>2, <3>4
  <2> QED  BY <2>1 DEF HeldByOne
<1>13. BlocksAccounted'
    BY <1>1, <1>4, <1>8 DEF BlocksAccounted
<1>14. WholeWhileMemoryLasts'
  <2> SUFFICES ASSUME ~ ranOut'
               PROVE  /\ ~ below'
                      /\ \A j \in InUse' : file_descriptors'[j].item.body = "whole"
                      /\ \A kind \in {"private", "descriptor"} : leaked'[kind] = 0
      BY DEF WholeWhileMemoryLasts
  <2>1. /\ ~ below /\ \A j \in InUse : t[j].item.body = "whole"
        /\ \A kind \in {"private", "descriptor"} : leaked[kind] = 0
      BY <1>1, <1>4 DEF WholeWhileMemoryLasts, Errors
  <2>2. ASSUME NEW j \in InUse
        PROVE  u[j].item = t[j].item
    <3>1. j \in Index
        BY DEF InUse
    <3> QED  BY <1>5, <1>7, <3>1
  <2> QED  BY <1>4, <1>8, <2>1, <2>2 DEF Errors
<1> QED  BY <1>9, <1>11, <1>12, <1>13, <1>14 DEF Inv

\* A call that is refused.
LEMMA SameState ==
    ASSUME Inv, UNCHANGED vars
    PROVE  Inv'
<1>1. /\ DiskInv /\ TableInv /\ CountInv /\ HeldInv /\ HeldByOne
      /\ MountedIsWhole /\ BlocksAccounted /\ WholeWhileMemoryLasts
    BY DEF Inv
<1>2. /\ root' = root /\ sub' = sub /\ disk' = disk /\ file_descriptors' = file_descriptors
      /\ blocks' = blocks /\ held' = held /\ leaked' = leaked /\ ranOut' = ranOut /\ below' = below
      /\ opens' = opens
    BY DEF vars
<1>3. InUse' = InUse /\ OpenItemBlocks' = OpenItemBlocks
    BY <1>2, OpenItemBlocksIsSum, OpenItemBlocksIsSumNext DEF InUse
<1>4. DiskInv' /\ TableInv' /\ CountInv' /\ MountedIsWhole'
    BY <1>1, <1>2 DEF DiskInv, TableInv, CountInv, MountedIsWhole
<1>5. HeldInv' /\ HeldByOne'
    BY <1>1, <1>2, HeldUnchanged
<1>6. BlocksAccounted' /\ WholeWhileMemoryLasts'
    BY <1>1, <1>2, <1>3 DEF BlocksAccounted, WholeWhileMemoryLasts
<1> QED  BY <1>4, <1>5, <1>6 DEF Inv

\* disk_search_and_init keeps the invariant.
LEMMA MountStep ==
    ASSUME Inv, disk_search_and_init
    PROVE  Inv'
<1>1. /\ DiskInv /\ TableInv /\ CountInv /\ HeldInv /\ HeldByOne
      /\ MountedIsWhole /\ BlocksAccounted /\ WholeWhileMemoryLasts
    BY DEF Inv
<1>2. /\ root' = root /\ sub' = sub /\ file_descriptors' = file_descriptors
      /\ blocks' = blocks /\ held' = held /\ leaked' = leaked /\ ranOut' = ranOut /\ below' = below
      /\ opens' = opens
      /\ disk' = [searched |-> TRUE, filesystem |-> fs_resolve, fs_private |-> fat16_resolve.fs_private]
    BY DEF disk_search_and_init, OnDisk, Errors
<1>3. InUse' = InUse /\ OpenItemBlocks' = OpenItemBlocks
    BY <1>2, OpenItemBlocksIsSum, OpenItemBlocksIsSumNext DEF InUse
<1>4. DiskInv' /\ TableInv' /\ CountInv'
    BY <1>1, <1>2 DEF DiskInv, TableInv, CountInv
<1>5. MountedIsWhole'
  <2>1. disk'.filesystem = fs_resolve /\ disk'.fs_private = fat16_resolve.fs_private
      BY <1>2
  <2>2. fs_resolve # NULL => fat16_resolve.fs_private
    <3>1. fat16_resolve.res = (IF volume = "fat16" THEN 0 ELSE -5)
          /\ (fat16_resolve.fs_private <=> volume = "fat16")
        BY Zenon DEF fat16_resolve
    <3>2. fs_resolve # NULL => volume = "fat16"
        BY <3>1 DEF fs_resolve
    <3> QED  BY <3>1, <3>2
  <2> QED  BY <2>1, <2>2 DEF MountedIsWhole
<1>6. HeldInv' /\ HeldByOne'
    BY <1>1, <1>2, HeldUnchanged
<1>7. BlocksAccounted' /\ WholeWhileMemoryLasts'
    BY <1>1, <1>2, <1>3 DEF BlocksAccounted, WholeWhileMemoryLasts
<1> QED  BY <1>4, <1>5, <1>6, <1>7 DEF Inv

\* The invariant holds at boot, before the disk is searched.
LEMMA InitInv ==
    ASSUME Init
    PROVE  Inv
<1>1. /\ root \in Roots /\ sub \in Subs /\ disk.filesystem = NULL
      /\ file_descriptors = [i \in Index |-> NULL] /\ blocks = NoBlocks /\ held = {}
      /\ leaked = NoBlocks /\ ranOut = FALSE /\ below = FALSE /\ opens = 0
    BY DEF Init
<1>2. DiskInv /\ MountedIsWhole
    BY <1>1, FilesAssumption DEF DiskInv, MountedIsWhole
<1>3. TableInv /\ HeldInv /\ HeldByOne
  <2> HIDE DEF DescriptorType
  <2> QED  BY <1>1 DEF TableInv, HeldInv, HeldByOne
<1>4. CountInv /\ \A kind \in Kinds : blocks[kind] = 0 /\ leaked[kind] = 0
  <2>1. NoBlocks \in Counts /\ \A kind \in Kinds : NoBlocks[kind] = 0
      BY DEF NoBlocks, Counts
  <2> QED  BY <1>1, <2>1 DEF CountInv
<1>5. InUse = {}
    BY <1>1 DEF InUse
<1>6. OpenItemBlocks[MaxFd] = 0
  <2> DEFINE t == file_descriptors
             a == SumOf(t)
             P == {i \in 0 .. MaxFd : a[i] = 0}
  <2>1. t \in Table
      BY <1>3 DEF TableInv, Table
  <2>2. a[0] = 0 /\ \A i \in Index : a[i] = a[i - 1] + Weight(t, i)
      BY <2>1, SumExists
  <2>3. \A i \in Index : Weight(t, i) = 0
      BY <1>1 DEF Weight
  <2>4. MaxFd \in Nat /\ Index = 1 .. MaxFd
      BY FilesAssumption DEF Index
  <2> HIDE DEF a
  <2>5. 0 \in P /\ \A i \in 1 .. MaxFd : i - 1 \in P => i \in P
      BY <2>2, <2>3, <2>4
  <2> HIDE DEF P
  <2>6. 0 .. MaxFd \subseteq P
      BY <2>4, <2>5, UpTo
  <2>7. a[MaxFd] = 0
      BY <2>4, <2>6 DEF P
  <2> QED  BY <2>7, OpenItemBlocksIsSum DEF a
<1>7. Cardinality(InUse) = 0
    BY <1>5, FS_EmptySet
<1>8. BlocksAccounted
    BY <1>4, <1>6, <1>7 DEF BlocksAccounted, Kinds
<1>9. WholeWhileMemoryLasts
    BY <1>1, <1>4, <1>5 DEF WholeWhileMemoryLasts, Kinds
<1> QED  BY <1>2, <1>3, <1>4, <1>8, <1>9 DEF Inv

\* Every step keeps the invariant.
LEMMA NextInv ==
    ASSUME Inv, [Next \/ Lost]_vars
    PROVE  Inv'
<1>1. CASE UNCHANGED vars
    BY <1>1, SameState
<1>2. CASE Lost
    BY <1>2, SameState DEF Lost
<1>3. CASE disk_search_and_init
    BY <1>3, MountStep
<1>4. CASE CallRefused
    BY <1>4, SameState DEF CallRefused
<1>5. ASSUME NEW call \in Calls, NEW free \in Rooms, fopen(call.path, call.mode, free)
      PROVE  Inv'
    BY <1>5, FopenStep
<1>6. ASSUME NEW h \in held, fclose(h)
      PROVE  Inv'
    BY <1>6, FcloseStep
<1>7. ASSUME NEW h \in held, fread(h)
      PROVE  Inv'
  <2>1. 1 \in Nat
      OBVIOUS
  <2> QED  BY <1>7, <2>1, MoveStep, SameState DEF fread
<1>8. ASSUME NEW h \in held, NEW offset \in 0 .. FileSize,
             NEW whence \in {"SEEK_SET", "SEEK_CUR"}, fseek(h, offset, whence)
      PROVE  Inv'
  <2>1. offset \in Nat
      BY FilesAssumption
  <2> QED  BY <1>8, <2>1, MoveStep DEF fseek
<1> QED  BY <1>1, <1>2, <1>3, <1>4, <1>5, <1>6, <1>7, <1>8 DEF Next

-----------------------------------------------------------------------------
(* Names *)

\* A set of numbers that is not empty has a least one.
LEMMA LeastIs ==
    ASSUME NEW S \in SUBSET Nat, S # {}
    PROVE  Min(S) \in S /\ \A y \in S : Min(S) <= y
<1> DEFINE R == OpToRel(<, Nat)
<1>1. IsWellFoundedOn(R, Nat)
    BY NatLessThanWellFounded
<1>2. PICK x \in S : \A y \in S : ~ (<<y, x>> \in R)
  <2> HIDE DEF R
  <2> QED  BY <1>1, WFMin
<1>3. ASSUME NEW y \in S, y < x
      PROVE  FALSE
  <2>1. <<y, x>> \in R
      BY <1>3 DEF OpToRel
  <2> QED  BY <1>2, <2>1
<1>4. \A y \in S : x <= y
    BY <1>3
<1> QED  BY <1>4 DEF Min

\* The blanks of a field of a slot are behind its characters.
Padded(bytes, at, size) ==
    \A i, j \in at .. at + size - 1 : i < j /\ bytes[i] = 32 => bytes[j] = 32

\* The string s is what stands in the field behind the first o bytes, up to a blank.
Cut(s, bytes, o, size) ==
    /\ s \in Seq(Nat) /\ Len(s) \in 0 .. size
    /\ \A i \in 1 .. Len(s) : s[i] = bytes[o + i] /\ bytes[o + i] \notin Blank
    /\ Len(s) # size => bytes[o + Len(s) + 1] \in Blank

\* fat16_to_proper_string, whatever is in the field.
LEMMA ProperString ==
    ASSUME NEW bytes \in Seq(Nat), NEW o \in Nat, NEW at, at = o + 1, NEW size \in Nat \ {0},
           o + size <= Len(bytes)
    PROVE  Cut(fat16_to_proper_string(bytes, at, size), bytes, o, size)
<1> DEFINE ends == {i \in at .. at + size - 1 : bytes[i] \in Blank}
           e == Min(ends \cup {at + size})
           s == fat16_to_proper_string(bytes, at, size)
<1>1. Len(bytes) \in Nat /\ \A i \in 1 .. Len(bytes) : bytes[i] \in Nat
    BY LenProperties, ElementOfSeq
<1>2. e \in ends \cup {at + size} /\ \A i \in ends \cup {at + size} : e <= i
  <2>1. ends \cup {at + size} \in SUBSET Nat
      OBVIOUS
  <2> HIDE DEF ends
  <2> QED  BY <2>1, LeastIs
<1>3. s = SubSeq(bytes, at, e - 1)
    BY DEF fat16_to_proper_string
<1> HIDE DEF e, s
<1>4. e \in at .. at + size
    BY <1>2
<1>5. s \in Seq(Nat) /\ Len(s) = e - at /\ \A i \in 1 .. e - at : s[i] = bytes[at + i - 1]
  <2>1. at \in Int /\ e - 1 \in Int /\ (\A i \in at .. e - 1 : bytes[i] \in Nat)
    <3>1. \A i \in at .. e - 1 : i \in 1 .. Len(bytes)
        BY <1>1, <1>4
    <3> QED  BY <1>1, <1>4, <3>1
  <2> DEFINE b == e - 1
  <2>2. b - at + 1 = e - at /\ (IF at <= b THEN b - at + 1 ELSE 0) = e - at
      BY <1>4
  <2> HIDE DEF b
  <2>3. SubSeq(bytes, at, b) \in Seq(Nat) /\ Len(SubSeq(bytes, at, b)) = (IF at <= b THEN b - at + 1 ELSE 0)
        /\ \A i \in 1 .. b - at + 1 : SubSeq(bytes, at, b)[i] = bytes[at + i - 1]
      BY <2>1, SubSeqProperties DEF b
  <2>4. s = SubSeq(bytes, at, b)
      BY <1>3 DEF b
  <2> QED  BY <2>2, <2>3, <2>4
<1>6. \A i \in 1 .. e - at : s[i] = bytes[o + i]
  <2>1. \A i \in 1 .. e - at : at + i - 1 = o + i
      BY <1>4
  <2> QED  BY <1>5, <2>1
<1>7. \A i \in at .. e - 1 : bytes[i] \notin Blank
    BY <1>2, <1>4
<1>8. Len(s) \in 0 .. size
    BY <1>4, <1>5
<1>9. ASSUME NEW i \in 1 .. Len(s)
      PROVE  s[i] = bytes[o + i] /\ bytes[o + i] \notin Blank
  <2>1. i \in 1 .. e - at /\ o + i \in at .. e - 1
      BY <1>4, <1>5
  <2> QED  BY <1>6, <1>7, <2>1
<1>10. ASSUME Len(s) # size
       PROVE  bytes[o + Len(s) + 1] \in Blank
  <2>1. e # at + size /\ o + Len(s) + 1 = e
      BY <1>4, <1>5, <1>10
  <2> QED  BY <1>2, <2>1
<1> QED  BY <1>5, <1>8, <1>9, <1>10 DEF s, Cut

\* The string s is what stands in a padded field: the rest of it is spaces.
Written(s, bytes, o, size) ==
    /\ s \in Seq(Nat) /\ Len(s) \in 0 .. size
    /\ \A i \in 1 .. Len(s) : s[i] = bytes[o + i] /\ bytes[o + i] # 32
    /\ \A i \in Len(s) + 1 .. size : bytes[o + i] = 32

\* fat16_to_proper_string reads a padded field as it was written.
LEMMA Field ==
    ASSUME NEW bytes \in Seq(Nat), NEW o \in Nat, NEW at, at = o + 1, NEW size \in Nat \ {0},
           o + size <= Len(bytes), Padded(bytes, at, size),
           \A i \in 1 .. Len(bytes) : bytes[i] # 0
    PROVE  Written(fat16_to_proper_string(bytes, at, size), bytes, o, size)
<1> DEFINE s == fat16_to_proper_string(bytes, at, size)
           l == Len(s)
<1>1. Cut(s, bytes, o, size) /\ Len(bytes) \in Nat
    BY ProperString, LenProperties
<1> HIDE DEF s
<1>2. /\ s \in Seq(Nat) /\ l \in 0 .. size
      /\ \A i \in 1 .. l : s[i] = bytes[o + i] /\ bytes[o + i] # 32
    BY <1>1 DEF Cut, Blank
<1>3. ASSUME NEW i \in l + 1 .. size
      PROVE  bytes[o + i] = 32
  <2>1. l # size /\ o + l + 1 \in 1 .. Len(bytes)
      BY <1>1, <1>2
  <2>2. bytes[o + l + 1] = 32
      BY <1>1, <2>1 DEF Cut, Blank
  <2>3. /\ o + i \in at .. at + size - 1 /\ o + l + 1 \in at .. at + size - 1
        /\ o + i = o + l + 1 \/ o + l + 1 < o + i
    <3> HIDE DEF l
    <3> QED  BY <1>2
  <2> QED  BY <2>2, <2>3 DEF Padded
<1> QED  BY <1>2, <1>3 DEF s, Written

\* The string f is the name of a slot with the bytes b: l characters, and a dot and x
\* more if there is an extension.
Spelled(f, b, l, x) ==
    /\ l \in 0 .. NameSize /\ x \in 0 .. ExtSize
    /\ Len(f) = IF x = 0 THEN l ELSE l + 1 + x
    /\ \A i \in 1 .. l : f[i] = b[i] /\ b[i] # 32
    /\ \A i \in l + 1 .. NameSize : b[i] = 32
    /\ x # 0 => f[l + 1] = Dot
    /\ \A i \in 1 .. x : f[l + 1 + i] = b[NameSize + i] /\ b[NameSize + i] # 32
    /\ \A i \in x + 1 .. ExtSize : b[NameSize + i] = 32

\* The bytes of a slot are as many as its two fields have.
LEMMA SlotBytes ==
    ASSUME NEW slot \in SlotType, Len(slot.bytes) = NameSize + ExtSize
    PROVE  /\ slot.bytes \in Seq(Nat) /\ DOMAIN slot.bytes = 1 .. NameSize + ExtSize
           /\ \A i \in 1 .. NameSize + ExtSize : slot.bytes[i] \in Nat
           /\ NameSize \in Nat \ {0} /\ ExtSize \in Nat \ {0}
<1>1. slot.bytes \in Seq(Nat)
  <2> DEFINE E == Seq(Nat)
  <2>1. slot \in [bytes : E, attribute : {"file", "label", "directory"}]
      BY DEF SlotType
  <2> HIDE DEF E
  <2>2. slot.bytes \in E
      BY <2>1
  <2> QED  BY <2>2 DEF E
<1> QED  BY <1>1, LenProperties, ElementOfSeq, FatOpenAssumption

\* fat16_get_full_relative_filename spells the name of a slot.
LEMMA FullName ==
    ASSUME NEW slot \in SlotType, Len(slot.bytes) = NameSize + ExtSize, ShortNamed(slot)
    PROVE  LET f == fat16_get_full_relative_filename(slot)
           IN  f \in Seq(Nat) /\ \E l, x : Spelled(f, slot.bytes, l, x)
<1> DEFINE b == slot.bytes
           f == fat16_get_full_relative_filename(slot)
           s == fat16_to_proper_string(b, 1, NameSize)
           t == fat16_to_proper_string(b, NameSize + 1, ExtSize)
<1>1. /\ b \in Seq(Nat) /\ DOMAIN b = 1 .. NameSize + ExtSize /\ Len(b) = NameSize + ExtSize
      /\ NameSize \in Nat \ {0} /\ ExtSize \in Nat \ {0} /\ b[NameSize + 1] \in Nat
      /\ NameSize + 1 \in 1 .. NameSize + ExtSize
  <2>1. NameSize + 1 \in 1 .. NameSize + ExtSize
      BY SlotBytes
  <2> QED  BY <2>1, SlotBytes
<1>2. Padded(b, 1, NameSize) /\ Padded(b, NameSize + 1, ExtSize)
      /\ \A i \in DOMAIN b : b[i] # 0 /\ b[i] # Dot
    BY DEF ShortNamed, Padded
<1>3. f = s \o IF b[NameSize + 1] \in Blank THEN <<>> ELSE <<Dot>> \o t
    BY DEF fat16_get_full_relative_filename
<1> HIDE DEF b, f
<1>4. /\ s \in Seq(Nat) /\ Len(s) \in 0 .. NameSize
      /\ \A i \in 1 .. Len(s) : s[i] = b[i] /\ b[i] # 32
      /\ \A i \in Len(s) + 1 .. NameSize : b[i] = 32
  <2>1. /\ s \in Seq(Nat) /\ Len(s) \in 0 .. NameSize
        /\ \A i \in 1 .. Len(s) : s[i] = b[0 + i] /\ b[0 + i] # 32
        /\ \A i \in Len(s) + 1 .. NameSize : b[0 + i] = 32
    <3>1. 0 \in Nat /\ 1 = 0 + 1 /\ 0 + NameSize <= Len(b)
        BY <1>1
    <3>2. \A i \in 1 .. Len(b) : b[i] # 0
        BY <1>1, <1>2
    <3>3. Written(s, b, 0, NameSize)
        BY <1>1, <1>2, <3>1, <3>2, Field
    <3> QED  BY <3>3 DEF Written
  <2> HIDE DEF s
  <2>2. \A i \in 1 .. NameSize : 0 + i = i
      BY <1>1
  <2>3. (1 .. Len(s)) \subseteq 1 .. NameSize /\ (Len(s) + 1 .. NameSize) \subseteq 1 .. NameSize
      BY <1>1, <2>1
  <2> QED  BY <2>1, <2>2, <2>3
<1>5. /\ t \in Seq(Nat) /\ Len(t) \in 0 .. ExtSize
      /\ \A i \in 1 .. Len(t) : t[i] = b[NameSize + i] /\ b[NameSize + i] # 32
      /\ \A i \in Len(t) + 1 .. ExtSize : b[NameSize + i] = 32
  <2>1. NameSize + ExtSize <= Len(b) /\ NameSize \in Nat
      BY <1>1
  <2>2. \A i \in 1 .. Len(b) : b[i] # 0
      BY <1>1, <1>2
  <2>3. Written(t, b, NameSize, ExtSize)
      BY <1>1, <1>2, <2>1, <2>2, Field
  <2> QED  BY <2>3 DEF Written
<1> HIDE DEF s, t
<1>8. CASE b[NameSize + 1] \in Blank
  <2>1. f = s
      BY <1>3, <1>4, <1>8, ConcatEmptySeq
  <2>2. b[NameSize + 1] = 32
      BY <1>1, <1>2, <1>8 DEF Blank
  <2>3. Len(t) = 0
    <3>1. Len(t) # 0 => 1 \in 1 .. Len(t)
        BY <1>5
    <3> QED  BY <1>5, <2>2, <3>1
  <2>4. Spelled(f, b, Len(s), 0)
    <3>1. \A i \in 0 + 1 .. ExtSize : b[NameSize + i] = 32
        BY <1>5, <2>3
    <3>2. 0 \in 0 .. ExtSize
        BY <1>1
    <3> QED  BY <1>4, <2>1, <3>1, <3>2 DEF Spelled
  <2> QED  BY <1>4, <2>1, <2>4 DEF f, b
<1>9. CASE b[NameSize + 1] \notin Blank
  <2> DEFINE r == <<Dot>> \o t
             l == Len(s)
             x == Len(t)
  <2>1. f = s \o r
      BY <1>3, <1>9
  <2>2. r \in Seq(Nat) /\ Len(r) = 1 + x /\ r[1] = Dot /\ \A i \in 1 .. x : r[1 + i] = t[i]
    <3>1. <<Dot>> \in Seq(Nat) /\ Len(<<Dot>>) = 1 /\ <<Dot>>[1] = Dot
        BY DEF Dot
    <3> HIDE DEF Dot
    <3>2. r \in Seq(Nat) /\ Len(r) = 1 + x /\ \A i \in 1 .. 1 + x : r[i] = IF i <= 1 THEN Dot ELSE t[i - 1]
        BY <1>5, <3>1, ConcatProperties
    <3> HIDE DEF r
    <3>3. \A i \in 1 .. x : 1 + i \in 1 .. 1 + x /\ ~ (1 + i <= 1) /\ (1 + i) - 1 = i
        BY <1>5
    <3>4. 1 \in 1 .. 1 + x
        BY <1>5
    <3> QED  BY <3>2, <3>3, <3>4
  <2>3. x # 0
    <3>1. x = 0 => 1 \in x + 1 .. ExtSize
        BY <1>1, <1>5
    <3> QED  BY <1>5, <1>9, <3>1 DEF Blank
  <2> HIDE DEF r
  <2>4. f \in Seq(Nat) /\ Len(f) = l + (1 + x)
        /\ \A i \in 1 .. l + (1 + x) : f[i] = IF i <= l THEN s[i] ELSE r[i - l]
    <3> HIDE DEF x
    <3>1. /\ s \o r \in Seq(Nat) /\ Len(s \o r) = Len(s) + Len(r)
          /\ \A i \in 1 .. Len(s) + Len(r) : (s \o r)[i] = IF i <= Len(s) THEN s[i] ELSE r[i - Len(s)]
      <4>1. s \in Seq(Nat) /\ r \in Seq(Nat)
          BY <1>4, <2>2
      <4> QED  BY <4>1, ConcatProperties
    <3> QED  BY <2>1, <2>2, <3>1
  <2>5. l \in Nat /\ x \in Nat
      BY <1>4, <1>5
  <2> HIDE DEF l, x
  <2>6. ASSUME NEW i \in 1 .. l
        PROVE  f[i] = s[i]
    <3>1. i \in 1 .. l + (1 + x) /\ i <= l
        BY <2>5
    <3> QED  BY <2>4, <3>1
  <2>7. f[l + 1] = Dot
    <3>1. l + 1 \in 1 .. l + (1 + x) /\ ~ (l + 1 <= l) /\ (l + 1) - l = 1
        BY <2>5
    <3> QED  BY <2>2, <2>4, <3>1
  <2>8. ASSUME NEW i \in 1 .. x
        PROVE  f[l + 1 + i] = t[i]
    <3>1. l + 1 + i \in 1 .. l + (1 + x) /\ ~ (l + 1 + i <= l) /\ (l + 1 + i) - l = 1 + i
        BY <2>5
    <3> QED  BY <2>2, <2>4, <3>1
  <2>9. Spelled(f, b, l, x)
    <3>1. l + (1 + x) = l + 1 + x
        BY <2>5
    <3>2. l \in 0 .. NameSize /\ x \in 0 .. ExtSize
        BY <1>4, <1>5 DEF l, x
    <3>3. \A i \in 1 .. l : f[i] = b[i] /\ b[i] # 32
        BY <1>4, <2>6 DEF l
    <3>4. \A i \in l + 1 .. NameSize : b[i] = 32
        BY <1>4 DEF l
    <3>5. \A i \in 1 .. x : f[l + 1 + i] = b[NameSize + i] /\ b[NameSize + i] # 32
        BY <1>5, <2>8 DEF x
    <3>6. \A i \in x + 1 .. ExtSize : b[NameSize + i] = 32
        BY <1>5 DEF x
    <3> QED  BY <2>3, <2>4, <2>7, <3>1, <3>2, <3>3, <3>4, <3>5, <3>6 DEF Spelled
  <2> QED  BY <2>4, <2>9 DEF f, b
<1> QED  BY <1>8, <1>9 DEF f, b

\* Strings that istrncmp calls equal agree, in all but case, up to where the shorter
\* one ends.
LEMMA Alike ==
    ASSUME NEW s \in Seq(Nat), NEW t \in Seq(Nat), NEW n \in Nat, istrncmp(s, t, n) = 0,
           NEW i \in Nat \ {0}, i <= n, i <= Len(s) + 1, i <= Len(t) + 1
    PROVE  /\ tolower(Append(s, 0)[i]) = tolower(Append(t, 0)[i])
           /\ Append(s, 0)[i] \in Nat /\ Append(t, 0)[i] \in Nat
<1> DEFINE u == Append(s, 0)
           v == Append(t, 0)
           k == Min({n, Len(u), Len(v)})
           D == {j \in 1 .. k : tolower(u[j]) # tolower(v[j])}
<1>1. /\ u \in Seq(Nat) /\ v \in Seq(Nat) /\ Len(u) = Len(s) + 1 /\ Len(v) = Len(t) + 1
      /\ Len(s) \in Nat /\ Len(t) \in Nat
    BY LenProperties, AppendProperties
<1>2. istrncmp(s, t, n) = IF D = {} THEN 0 ELSE u[Min(D)] - v[Min(D)]
    BY DEF istrncmp
<1> HIDE DEF u, v
<1>3. k \in Nat /\ k <= Len(u) /\ k <= Len(v) /\ i <= k
  <2> DEFINE M == {n, Len(u), Len(v)}
  <2>1. M \in SUBSET Nat /\ M # {}
      BY <1>1
  <2>2. \A y \in M : i <= y
      BY <1>1
  <2>3. Min(M) \in M /\ \A y \in M : Min(M) <= y
    <3> HIDE DEF M
    <3> QED  BY <2>1, LeastIs
  <2>4. n \in M /\ Len(u) \in M /\ Len(v) \in M /\ k = Min(M)
      OBVIOUS
  <2> HIDE DEF M, k
  <2> QED  BY <2>1, <2>2, <2>3, <2>4
<1> HIDE DEF k
<1>4. \A j \in 1 .. k : u[j] \in Nat /\ v[j] \in Nat
  <2>1. \A j \in 1 .. k : j \in 1 .. Len(u) /\ j \in 1 .. Len(v)
      BY <1>1, <1>3
  <2>2. (\A j \in 1 .. Len(u) : u[j] \in Nat) /\ \A j \in 1 .. Len(v) : v[j] \in Nat
      BY <1>1, ElementOfSeq
  <2> QED  BY <2>1, <2>2
<1>5. D = {}
  <2> SUFFICES ASSUME D # {}
               PROVE  FALSE
      OBVIOUS
  <2> DEFINE j == Min(D)
  <2>1. j \in D
    <3>1. D \in SUBSET Nat
        BY <1>3
    <3> HIDE DEF D
    <3> QED  BY <3>1, LeastIs
  <2>2. u[j] - v[j] = 0
      BY <1>2
  <2> HIDE DEF j
  <2>3. u[j] \in Nat /\ v[j] \in Nat /\ tolower(u[j]) # tolower(v[j])
      BY <1>4, <2>1
  <2>4. u[j] = v[j]
      BY <2>2, <2>3
  <2> QED  BY <2>3, <2>4
<1>6. i \in 1 .. k
    BY <1>3
<1> QED  BY <1>4, <1>5, <1>6 DEF u, v

\* istrncmp of two strings that are not cut off: they are equal in all but case.
LEMMA SameButCase ==
    ASSUME NEW s \in Seq(Nat), NEW t \in Seq(Nat), NEW n \in Nat, Len(s) < n,
           \A i \in 1 .. Len(s) : s[i] # 0, \A i \in 1 .. Len(t) : t[i] # 0,
           istrncmp(s, t, n) = 0
    PROVE  Len(s) = Len(t) /\ \A i \in 1 .. Len(s) : tolower(s[i]) = tolower(t[i])
<1> DEFINE u == Append(s, 0)
           v == Append(t, 0)
           p == Len(s)
           q == Len(t)
<1>1. /\ p \in Nat /\ q \in Nat
      /\ \A i \in 1 .. p : u[i] = s[i]
      /\ \A i \in 1 .. q : v[i] = t[i]
      /\ u[p + 1] = 0 /\ v[q + 1] = 0
    BY LenProperties, AppendProperties
<1>2. ASSUME NEW i \in Nat \ {0}, i <= p + 1, i <= q + 1
      PROVE  tolower(u[i]) = tolower(v[i]) /\ u[i] \in Nat /\ v[i] \in Nat
  <2>1. i <= n
      BY <1>1, <1>2
  <2> QED  BY <1>2, <2>1, Alike
<1>3. \A c \in Nat : tolower(c) = 0 <=> c = 0
    BY DEF tolower
<1> HIDE DEF u, v
<1>4. p = q
  <2>1. CASE p < q
    <3>1. p + 1 \in 1 .. q /\ p + 1 \in Nat \ {0} /\ p + 1 <= p + 1 /\ p + 1 <= q + 1
        BY <1>1, <2>1
    <3>2. v[p + 1] # 0
        BY <1>1, <3>1
    <3> HIDE DEF p, q
    <3>3. tolower(v[p + 1]) = tolower(0) /\ v[p + 1] \in Nat
        BY <1>1, <1>2, <3>1
    <3> QED  BY <1>3, <3>2, <3>3
  <2>2. CASE q < p
    <3>1. q + 1 \in 1 .. p /\ q + 1 \in Nat \ {0} /\ q + 1 <= p + 1 /\ q + 1 <= q + 1
        BY <1>1, <2>2
    <3>2. u[q + 1] # 0
        BY <1>1, <3>1
    <3> HIDE DEF p, q
    <3>3. tolower(u[q + 1]) = tolower(0) /\ u[q + 1] \in Nat
        BY <1>1, <1>2, <3>1
    <3> QED  BY <1>3, <3>2, <3>3
  <2> HIDE DEF p, q
  <2> QED  BY <1>1, <2>1, <2>2
<1>5. ASSUME NEW i \in 1 .. p
      PROVE  tolower(s[i]) = tolower(t[i])
  <2>1. i \in 1 .. q /\ i \in Nat \ {0} /\ i <= p + 1 /\ i <= q + 1
      BY <1>1, <1>4
  <2> QED  BY <1>1, <1>2, <2>1
<1> QED  BY <1>4, <1>5

\* A character in capitals.
Capital(c) == IF c \in 97 .. 122 THEN c - 32 ELSE c

\* tolower identifies a letter with its capital, and nothing else.
LEMMA CapitalOf ==
    ASSUME NEW c \in Nat, NEW d \in Nat, tolower(c) = tolower(d)
    PROVE  (c \notin 97 .. 122 => Capital(d) = c) /\ (c = Dot <=> d = Dot)
<1>1. CASE c \in 65 .. 90 /\ d \in 65 .. 90
    BY <1>1 DEF tolower, Capital, Dot
<1>2. CASE c \in 65 .. 90 /\ d \notin 65 .. 90
    BY <1>2 DEF tolower, Capital, Dot
<1>3. CASE c \notin 65 .. 90 /\ d \in 65 .. 90
    BY <1>3 DEF tolower, Capital, Dot
<1>4. CASE c \notin 65 .. 90 /\ d \notin 65 .. 90
    BY <1>4 DEF tolower, Capital, Dot
<1> QED  BY <1>1, <1>2, <1>3, <1>4

\* The name of a slot, in whatever case it is written, has the bytes of the slot.
LEMMA SpelledIsShortName ==
    ASSUME NEW slot \in SlotType, Len(slot.bytes) = NameSize + ExtSize, ShortNamed(slot),
           NEW f \in Seq(Nat), NEW l, NEW x, Spelled(f, slot.bytes, l, x),
           NEW name \in Seq(Nat), Len(name) = Len(f),
           \A i \in 1 .. Len(f) : tolower(f[i]) = tolower(name[i])
    PROVE  slot.bytes = ShortName(name)
<1> DEFINE b == slot.bytes
           k == Len(name)
           dots == {i \in DOMAIN name : name[i] = Dot}
           base == Min(dots \cup {k + 1}) - 1
           char(i) == IF i \in DOMAIN name THEN Capital(name[i]) ELSE 32
           N == NameSize
           E == ExtSize
<1>1. /\ b \in Seq(Nat) /\ DOMAIN b = 1 .. N + E
      /\ N \in Nat \ {0} /\ E \in Nat \ {0} /\ \A i \in 1 .. N + E : b[i] \in Nat
    BY SlotBytes
<1>2. \A i \in 1 .. N + E : b[i] # Dot /\ b[i] \notin 97 .. 122
    BY <1>1 DEF ShortNamed
<1>3. /\ l \in 0 .. N /\ x \in 0 .. E
      /\ k = IF x = 0 THEN l ELSE l + 1 + x
      /\ \A i \in 1 .. l : f[i] = b[i]
      /\ \A i \in l + 1 .. N : b[i] = 32
      /\ x # 0 => f[l + 1] = Dot
      /\ \A i \in 1 .. x : f[l + 1 + i] = b[N + i]
      /\ \A i \in x + 1 .. E : b[N + i] = 32
    BY DEF Spelled
<1>4. ShortName(name) = [i \in 1 .. N + E |-> IF i > N THEN char(base + 1 + i - N)
                                             ELSE IF i <= base THEN char(i) ELSE 32]
    BY DEF ShortName, Capital
<1>5. /\ k \in Nat /\ DOMAIN name = 1 .. k /\ \A i \in 1 .. k : name[i] \in Nat /\ f[i] \in Nat
    BY LenProperties, ElementOfSeq
<1>6. \A i \in 1 .. k : tolower(f[i]) = tolower(name[i])
    OBVIOUS
<1> HIDE DEF b, k, N, E
<1>7. \A i \in 1 .. k : (f[i] \notin 97 .. 122 => Capital(name[i]) = f[i]) /\ (f[i] = Dot <=> name[i] = Dot)
    BY <1>5, <1>6, CapitalOf
<1>8. l \in Nat /\ x \in Nat /\ l <= k /\ l <= N
    BY <1>1, <1>3
<1>9. base = l
  <2> DEFINE M == dots \cup {k + 1}
  <2>1. l + 1 \in M
    <3>1. CASE x = 0
        BY <1>3, <3>1
    <3>2. CASE x # 0
      <4>1. l + 1 \in 1 .. k /\ f[l + 1] = Dot
          BY <1>3, <1>8, <3>2
      <4> QED  BY <1>5, <1>7, <4>1
    <3> QED  BY <3>1, <3>2
  <2>2. ASSUME NEW j \in M, j <= l
        PROVE  FALSE
    <3>1. j \in 1 .. k /\ name[j] = Dot /\ j \in 1 .. l
        BY <1>5, <1>8, <2>2
    <3>2. f[j] = Dot /\ f[j] = b[j]
        BY <1>3, <1>7, <3>1
    <3>3. j \in 1 .. N + E
        BY <1>1, <1>8, <3>1
    <3> QED  BY <1>2, <3>2, <3>3
  <2>3. M \in SUBSET Nat
      BY <1>5
  <2>4. base = Min(M) - 1
      OBVIOUS
  <2> HIDE DEF M, base
  <2>5. Min(M) \in M /\ \A y \in M : Min(M) <= y
      BY <2>1, <2>3, LeastIs
  <2>6. Min(M) = l + 1
    <3>1. Min(M) \in Nat /\ Min(M) <= l + 1 /\ ~ (Min(M) <= l)
        BY <2>1, <2>2, <2>3, <2>5
    <3> QED  BY <1>8, <3>1
  <2> QED  BY <1>8, <2>4, <2>6
<1> HIDE DEF base
<1>10. \A j \in 1 .. k : f[j] \notin 97 .. 122 => char(j) = f[j]
    BY <1>5, <1>7
<1>11. \A j \in Nat : j > k => char(j) = 32
    BY <1>5
<1> HIDE DEF char
<1>12. ASSUME NEW i \in 1 .. N
       PROVE  b[i] = IF i <= l THEN char(i) ELSE 32
  <2>1. CASE i <= l
    <3>1. i \in 1 .. l /\ i \in 1 .. k /\ i \in 1 .. N + E
        BY <1>1, <1>5, <1>8, <2>1
    <3> QED  BY <1>2, <1>3, <1>10, <2>1, <3>1
  <2>2. CASE ~ (i <= l)
    <3>1. i \in l + 1 .. N
        BY <1>1, <1>8, <2>2
    <3> QED  BY <1>3, <2>2, <3>1
  <2> QED  BY <2>1, <2>2
<1>13. ASSUME NEW j \in 1 .. E
       PROVE  b[N + j] = char(l + 1 + j)
  <2>1. CASE j <= x
    <3>1. j \in 1 .. x /\ l + 1 + j \in 1 .. k /\ N + j \in 1 .. N + E
        BY <1>1, <1>3, <1>8, <2>1
    <3>2. f[l + 1 + j] = b[N + j]
        BY <1>3, <3>1
    <3> QED  BY <1>2, <1>10, <3>1, <3>2
  <2>2. CASE ~ (j <= x)
    <3>1. j \in x + 1 .. E /\ l + 1 + j > k /\ l + 1 + j \in Nat
        BY <1>1, <1>3, <1>8, <2>2
    <3>2. b[N + j] = 32
        BY <1>3, <3>1
    <3> QED  BY <1>11, <3>1, <3>2
  <2> QED  BY <2>1, <2>2
<1>14. ASSUME NEW i \in 1 .. N + E
       PROVE  b[i] = IF i > N THEN char(base + 1 + i - N) ELSE IF i <= base THEN char(i) ELSE 32
  <2>1. CASE i > N
    <3> DEFINE j == i - N
    <3>1. j \in 1 .. E /\ N + j = i /\ l + 1 + j = base + 1 + i - N
        BY <1>1, <1>8, <1>9, <2>1
    <3> HIDE DEF j
    <3> QED  BY <1>13, <2>1, <3>1
  <2>2. CASE ~ (i > N)
    <3>1. i \in 1 .. N
        BY <1>1, <2>2
    <3> QED  BY <1>9, <1>12, <2>2, <3>1
  <2> QED  BY <2>1, <2>2
<1>15. b = [i \in 1 .. N + E |-> b[i]]
    BY <1>1
<1> QED  BY <1>4, <1>14, <1>15 DEF b

\* A slot of a disk with well-formed names, a name that may be asked for, and what the
\* search takes for the slot of a name.
Fits(slot) ==
    /\ Len(slot.bytes) = NameSize + ExtSize
    /\ ShortNamed(slot) \/ slot.bytes[1] = Dot
Asks(name) ==
    /\ name \in Seq(Nat) /\ name # <<>> /\ name[1] # Dot
    /\ \A i \in 1 .. Len(name) : name[i] # 0
Matches(slot, name) == istrncmp(fat16_get_full_relative_filename(slot), name, MaxPath) = 0

\* The name of a slot that begins with a dot begins with it too.
LEMMA DotName ==
    ASSUME NEW slot \in SlotType, Len(slot.bytes) = NameSize + ExtSize, slot.bytes[1] = Dot
    PROVE  LET f == fat16_get_full_relative_filename(slot)
           IN  f \in Seq(Nat) /\ Len(f) \in Nat \ {0} /\ f[1] = Dot
<1> DEFINE b == slot.bytes
           f == fat16_get_full_relative_filename(slot)
           s == fat16_to_proper_string(b, 1, NameSize)
           t == fat16_to_proper_string(b, NameSize + 1, ExtSize)
           r == IF b[NameSize + 1] \in Blank THEN <<>> ELSE <<Dot>> \o t
<1>1. /\ b \in Seq(Nat) /\ Len(b) = NameSize + ExtSize
      /\ NameSize \in Nat \ {0} /\ ExtSize \in Nat \ {0} /\ b[1] = Dot
    BY SlotBytes
<1>2. f = s \o r
    BY DEF fat16_get_full_relative_filename
<1> HIDE DEF b, f
<1>3. Cut(s, b, 0, NameSize)
  <2>1. 0 \in Nat /\ 1 = 0 + 1 /\ 0 + NameSize <= Len(b)
      BY <1>1
  <2> QED  BY <1>1, <2>1, ProperString
<1>4. Cut(t, b, NameSize, ExtSize)
  <2>1. NameSize \in Nat /\ NameSize + ExtSize <= Len(b)
      BY <1>1
  <2> QED  BY <1>1, <2>1, ProperString
<1> HIDE DEF s, t
<1>5. s \in Seq(Nat) /\ Len(s) \in Nat \ {0} /\ s[1] = Dot
  <2>1. s \in Seq(Nat) /\ Len(s) \in Nat
      BY <1>3, LenProperties DEF Cut
  <2>2. Len(s) # 0
    <3> SUFFICES ASSUME Len(s) = 0
                 PROVE  FALSE
        OBVIOUS
    <3>1. b[0 + 0 + 1] \in Blank
        BY <1>1, <1>3 DEF Cut
    <3> QED  BY <1>1, <3>1 DEF Blank, Dot
  <2>3. s[1] = b[0 + 1]
      BY <1>3, <2>1, <2>2 DEF Cut
  <2> QED  BY <1>1, <2>1, <2>2, <2>3
<1>6. r \in Seq(Nat)
  <2>1. t \in Seq(Nat) /\ <<Dot>> \in Seq(Nat) /\ <<>> \in Seq(Nat)
      BY <1>4 DEF Cut, Dot
  <2>2. <<Dot>> \o t \in Seq(Nat)
      BY <2>1, ConcatProperties
  <2> QED  BY <2>1, <2>2
<1> HIDE DEF r
<1>7. /\ f \in Seq(Nat) /\ Len(f) = Len(s) + Len(r) /\ Len(r) \in Nat
      /\ \A i \in 1 .. Len(s) + Len(r) : f[i] = IF i <= Len(s) THEN s[i] ELSE r[i - Len(s)]
  <2>1. /\ s \o r \in Seq(Nat) /\ Len(s \o r) = Len(s) + Len(r)
        /\ \A i \in 1 .. Len(s) + Len(r) : (s \o r)[i] = IF i <= Len(s) THEN s[i] ELSE r[i - Len(s)]
    <3>1. s \in Seq(Nat) /\ r \in Seq(Nat)
        BY <1>5, <1>6
    <3> QED  BY <3>1, ConcatProperties
  <2> QED  BY <1>2, <1>6, <2>1, LenProperties
<1>8. f[1] = Dot
  <2>1. 1 \in 1 .. Len(s) + Len(r) /\ 1 <= Len(s)
      BY <1>5, <1>7
  <2> QED  BY <1>5, <1>7, <2>1
<1> QED  BY <1>5, <1>7, <1>8 DEF f

\* What the search takes for the slot of a name has its bytes.
LEMMA MatchIsName ==
    ASSUME NEW slot \in SlotType, Fits(slot), NEW name, Asks(name), Matches(slot, name)
    PROVE  slot.bytes = ShortName(name)
<1> DEFINE f == fat16_get_full_relative_filename(slot)
<1>1. /\ name \in Seq(Nat) /\ name # <<>> /\ name[1] # Dot /\ Len(name) \in Nat \ {0}
      /\ \A i \in 1 .. Len(name) : name[i] # 0
    BY LenProperties, EmptySeq DEF Asks
<1>2. Len(slot.bytes) = NameSize + ExtSize /\ istrncmp(f, name, MaxPath) = 0
    BY DEF Fits, Matches
<1>3. NameSize \in Nat \ {0} /\ ExtSize \in Nat \ {0} /\ MaxPath \in Nat /\ MaxPath > NameSize + ExtSize + 1
    BY FatOpenAssumption
<1>4. CASE ShortNamed(slot)
  <2>1. f \in Seq(Nat) /\ \E l, x : Spelled(f, slot.bytes, l, x)
      BY <1>2, <1>4, FullName
  <2>2. PICK l, x : Spelled(f, slot.bytes, l, x)
      BY <2>1
  <2> HIDE DEF f
  <2>3. Len(f) < MaxPath
    <3>1. l \in 0 .. NameSize /\ x \in 0 .. ExtSize /\ Len(f) = IF x = 0 THEN l ELSE l + 1 + x
        BY <2>2 DEF Spelled
    <3> QED  BY <1>3, <3>1
  <2>4. ASSUME NEW i \in 1 .. Len(f)
        PROVE  f[i] # 0
    <3> DEFINE b == slot.bytes
    <3>1. \A j \in 1 .. NameSize + ExtSize : b[j] # 0
        BY <1>2, <1>4, SlotBytes DEF ShortNamed
    <3>2. /\ l \in 0 .. NameSize /\ x \in 0 .. ExtSize /\ Len(f) = IF x = 0 THEN l ELSE l + 1 + x
          /\ \A j \in 1 .. l : f[j] = b[j]
          /\ x # 0 => f[l + 1] = Dot
          /\ \A j \in 1 .. x : f[l + 1 + j] = b[NameSize + j]
        BY <2>2 DEF Spelled
    <3> HIDE DEF b
    <3>3. CASE i <= l
      <4>1. i \in 1 .. l /\ i \in 1 .. NameSize + ExtSize
          BY <1>3, <3>2, <3>3
      <4> QED  BY <3>1, <3>2, <4>1
    <3>4. CASE i = l + 1
      <4>1. x # 0
          BY <1>3, <3>2, <3>4
      <4> QED  BY <3>2, <3>4, <4>1 DEF Dot
    <3>5. CASE i > l + 1
      <4> DEFINE j == i - l - 1
      <4>1. j \in 1 .. x /\ i = l + 1 + j /\ NameSize + j \in 1 .. NameSize + ExtSize
          BY <1>3, <3>2, <3>5
      <4> HIDE DEF j
      <4> QED  BY <3>1, <3>2, <4>1
    <3>6. i <= l \/ i = l + 1 \/ i > l + 1
        BY <1>3, <3>2
    <3> QED  BY <3>3, <3>4, <3>5, <3>6
  <2>5. Len(f) = Len(name) /\ \A i \in 1 .. Len(f) : tolower(f[i]) = tolower(name[i])
      BY <1>1, <1>2, <1>3, <2>1, <2>3, <2>4, SameButCase
  <2> QED  BY <1>1, <1>2, <1>4, <2>1, <2>2, <2>5, SpelledIsShortName
<1>5. CASE slot.bytes[1] = Dot
  <2>1. f \in Seq(Nat) /\ Len(f) \in Nat \ {0} /\ f[1] = Dot
      BY <1>2, <1>5, DotName
  <2> HIDE DEF f
  <2>2. 1 \in Nat \ {0} /\ 1 <= MaxPath /\ 1 <= Len(f) + 1 /\ 1 <= Len(name) + 1
      BY <1>1, <1>3, <2>1
  <2>3. tolower(Append(f, 0)[1]) = tolower(Append(name, 0)[1]) /\ Append(name, 0)[1] \in Nat
      BY <1>1, <1>2, <1>3, <2>1, <2>2, Alike
  <2>4. Append(f, 0)[1] = Dot /\ Append(name, 0)[1] = name[1]
    <3>1. 1 \in 1 .. Len(f) /\ 1 \in 1 .. Len(name) /\ 0 \in Nat
        BY <1>1, <2>1
    <3> QED  BY <1>1, <2>1, <3>1, AppendProperties
  <2>5. Dot \in Nat
      BY DEF Dot
  <2>6. name[1] = Dot
      BY <2>3, <2>4, <2>5, CapitalOf
  <2> QED  BY <1>1, <2>6
<1> QED  BY <1>4, <1>5 DEF Fits

\* An item is made of the slot it is made for.
LEMMA NewItemSlot ==
    ASSUME NEW m \in MemType, NEW slot \in SlotType
    PROVE  LET r == fat16_new_fat_item_for_directory_item(m, slot)
           IN  r.item = NULL \/ r.item.slot = slot
<1>1. m.free \in Nat
    BY MemFields
<1> HIDE DEF SlotType, MemType
<1>2. CASE m.free = 0
    BY <1>2 DEF fat16_new_fat_item_for_directory_item
<1>3. CASE m.free = 1
    BY <1>3 DEF fat16_new_fat_item_for_directory_item, Item
<1>4. CASE m.free > 1 /\ TypeOf(slot) = "file"
    BY <1>1, <1>4 DEF fat16_new_fat_item_for_directory_item, Item
<1>5. CASE m.free = 2 /\ TypeOf(slot) = "directory"
    BY <1>5 DEF fat16_new_fat_item_for_directory_item, Item
<1>6. CASE m.free > 2 /\ TypeOf(slot) # "file"
    BY <1>1, <1>6 DEF fat16_new_fat_item_for_directory_item, Item
<1> QED  BY <1>1, <1>2, <1>3, <1>4, <1>5, <1>6 DEF TypeOf

\* The slots of a directory of a disk with well-formed names.
Fitting(slots) == slots \in Seq(SlotType) /\ \A i \in 1 .. Len(slots) : Fits(slots[i])

\* A match is the slot of the name, if none comes after it.
LEMMA LastMatch ==
    ASSUME NEW slots, Fitting(slots), NEW name, Asks(name),
           NEW n \in Nat, n = fat16_get_total_items_for_directory(slots), n <= Len(slots),
           NEW j \in 1 .. n, Matches(slots[j], name), \A k \in j + 1 .. n : ~ Matches(slots[k], name)
    PROVE  slots[j] = SlotNamed(slots, name)
<1> DEFINE S == {i \in 1 .. n : slots[i].bytes = ShortName(name)}
<1>1. /\ slots \in Seq(SlotType) /\ Len(slots) \in Nat
      /\ \A i \in 1 .. Len(slots) : slots[i] \in SlotType /\ Fits(slots[i])
  <2> HIDE DEF SlotType
  <2> QED  BY LenProperties, ElementOfSeq DEF Fitting
<1>2. \A i \in 1 .. n : slots[i] \in SlotType /\ Fits(slots[i])
    BY <1>1
<1>3. slots[j].bytes = ShortName(name)
    BY <1>2, MatchIsName
<1>4. ASSUME NEW i \in S, i > j
      PROVE  FALSE
  <2>1. i \in j + 1 .. n /\ slots[i].bytes = slots[j].bytes
      BY <1>3, <1>4
  <2>2. fat16_get_full_relative_filename(slots[i]) = fat16_get_full_relative_filename(slots[j])
      BY <2>1 DEF fat16_get_full_relative_filename
  <2> QED  BY <2>1, <2>2 DEF Matches
<1>5. j \in S /\ \A i \in S : j >= i
    BY <1>3, <1>4
<1>6. Max(S) = j
  <2>1. S \in SUBSET Nat
      OBVIOUS
  <2> HIDE DEF S
  <2>2. Max(S) \in S /\ \A i \in S : Max(S) >= i
      BY <1>5 DEF Max
  <2>3. j \in Nat /\ Max(S) \in Nat /\ Max(S) >= j /\ j >= Max(S)
      BY <1>5, <2>1, <2>2
  <2> QED  BY <2>3
<1>7. SlotNamed(slots, name) = slots[Max(S)]
    BY DEF SlotNamed
<1> QED  BY <1>6, <1>7

\* fat16_find_item_in_directory returns an item of the last slot of the name, if any.
LEMMA FoundNamed ==
    ASSUME NEW m \in MemType, NEW slots, Fitting(slots), NEW name, Asks(name)
    PROVE  LET r == fat16_find_item_in_directory(m, slots, name)
           IN  r.item = NULL \/ r.item.slot = SlotNamed(slots, name)
<1> DEFINE n == fat16_get_total_items_for_directory(slots)
<1>1. slots \in Seq(SlotType) /\ Len(slots) \in Nat /\ \A i \in 1 .. Len(slots) : slots[i] \in SlotType
  <2> HIDE DEF SlotType
  <2> QED  BY LenProperties, ElementOfSeq DEF Fitting
<1>2. n \in Nat /\ n <= Len(slots)
    BY <1>1, FoundLoop
<1>3. PICK h : /\ h[0] = [m |-> m, item |-> NULL]
               /\ \A i \in 1 .. n : h[i] = LookAt(h[i - 1], slots[i], name)
               /\ \A i \in 0 .. n : h[i] \in Searching(m)
               /\ fat16_find_item_in_directory(m, slots, name) = h[n]
  <2> HIDE DEF SlotType
  <2> QED  BY <1>1, FoundLoop
<1> DEFINE last(i, j) == /\ Matches(slots[j], name) /\ h[i].item.slot = slots[j]
                         /\ \A k \in j + 1 .. i : ~ Matches(slots[k], name)
           P == {i \in 0 .. n : h[i].item = NULL \/ \E j \in 1 .. i : last(i, j)}
<1>4. n = fat16_get_total_items_for_directory(slots)
    OBVIOUS
<1> HIDE DEF n, SlotType
<1>5. 0 \in P
    BY <1>2, <1>3
<1>6. ASSUME NEW i \in 1 .. n, i - 1 \in P
      PROVE  i \in P
  <2>1. /\ i - 1 \in 0 .. n /\ i \in 0 .. n /\ i \in Nat
        /\ h[i] = LookAt(h[i - 1], slots[i], name) /\ slots[i] \in SlotType /\ h[i - 1] \in Searching(m)
      BY <1>1, <1>2, <1>3
  <2>2. CASE Matches(slots[i], name)
    <3> DEFINE at == h[i - 1]
               o == IF at.item = NULL THEN at.m ELSE Leak(at.m, "item", ItemBlocks(at.item))
    <3>1. h[i] = fat16_new_fat_item_for_directory_item(o, slots[i])
        BY <2>1, <2>2 DEF LookAt, Matches
    <3>2. at.m \in MemType /\ at.item \in ItemType \cup {NULL}
        BY <2>1 DEF Searching, SearchType
    <3>3. o \in MemType
      <4>1. "item" \in Kinds /\ (at.item # NULL => ItemBlocks(at.item) \in Nat)
          BY <3>2, BlocksType DEF Kinds
      <4>2. CASE at.item = NULL
          BY <3>2, <4>2
      <4>3. CASE at.item # NULL
          BY <3>2, <4>1, <4>3, LeakFields
      <4> QED  BY <4>2, <4>3
    <3> HIDE DEF o
    <3>4. h[i].item = NULL \/ h[i].item.slot = slots[i]
        BY <2>1, <3>1, <3>3, NewItemSlot
    <3>5. i \in 1 .. i /\ \A k \in i + 1 .. i : ~ Matches(slots[k], name)
        BY <2>1
    <3> QED  BY <2>1, <2>2, <3>4, <3>5
  <2>3. CASE ~ Matches(slots[i], name)
    <3>1. h[i] = h[i - 1]
        BY <2>1, <2>3 DEF LookAt, Matches
    <3>2. CASE h[i].item = NULL
        BY <2>1, <3>2
    <3>3. CASE h[i].item # NULL
      <4>1. PICK j \in 1 .. i - 1 : last(i - 1, j)
          BY <1>6, <3>1, <3>3
      <4>2. j \in 1 .. i /\ \A k \in j + 1 .. i : k \in j + 1 .. i - 1 \/ k = i
          BY <2>1
      <4>3. last(i, j)
          BY <2>3, <3>1, <4>1, <4>2
      <4> HIDE DEF last
      <4> QED  BY <2>1, <4>2, <4>3
    <3> QED  BY <3>2, <3>3
  <2> QED  BY <2>2, <2>3
<1>7. n \in P
  <2> HIDE DEF P
  <2>1. 0 .. n \subseteq P
      BY <1>2, <1>5, <1>6, UpTo
  <2> QED  BY <1>2, <2>1
<1>8. CASE \E j \in 1 .. n : last(n, j)
  <2>1. PICK j \in 1 .. n : last(n, j)
      BY <1>8
  <2>2. slots[j] = SlotNamed(slots, name)
      BY <1>2, <1>4, <2>1, LastMatch
  <2> QED  BY <1>3, <2>1, <2>2
<1> QED  BY <1>3, <1>7, <1>8

\* fat16_get_directory_entry returns an item of the slot that the last part names.
LEMMA EntryNamed ==
    ASSUME NEW m \in MemType, ~ m.wild, NEW rt, Fitting(rt), NEW sb, Fitting(sb),
           NEW parts \in Strings, parts # <<>>, \A i \in 1 .. Len(parts) : Asks(parts[i])
    PROVE  LET r == fat16_get_directory_entry(m, rt, sb, parts)
           IN  \/ r.m.wild \/ r.item = NULL
               \/ r.item.slot = SlotNamed(IF Len(parts) = 1 THEN rt ELSE sb, parts[Len(parts)])
<1> DEFINE n == Len(parts) - 1
           slots(i) == IF i = 0 THEN rt ELSE sb
<1>1. rt \in Seq(SlotType) /\ sb \in Seq(SlotType)
    BY DEF Fitting
<1>2. n \in Nat
    BY <1>1, EnteredLoop
<1>3. PICK h : /\ h[0] = fat16_find_item_in_directory(m, rt, parts[1])
               /\ \A i \in 1 .. n : h[i] = GoDown(h[i - 1], sb, parts[i + 1])
               /\ \A i \in 0 .. n : h[i] \in Entering(m)
               /\ fat16_get_directory_entry(m, rt, sb, parts) = h[n]
  <2> HIDE DEF SlotType
  <2> QED  BY <1>1, EnteredLoop
<1>4. Len(parts) \in Nat
  <2> DEFINE E == Seq(Nat)
  <2>1. parts \in Seq(E)
      BY DEF Strings
  <2> HIDE DEF E
  <2> QED  BY <2>1, LenProperties
<1>5. n + 1 = Len(parts)
    BY <1>4
<1> DEFINE P == {i \in 0 .. n : \/ h[i].m.wild \/ h[i].item = NULL
                               \/ h[i].item.slot = SlotNamed(slots(i), parts[i + 1])}
<1>6. \A i \in 0 .. n : Asks(parts[i + 1])
  <2>1. \A i \in 0 .. n : i + 1 \in 1 .. Len(parts)
      BY <1>2, <1>5
  <2> QED  BY <2>1
<1> HIDE DEF n, SlotType
<1>7. 0 \in P
  <2>1. 0 \in 0 .. n /\ 0 + 1 = 1
      BY <1>2
  <2>2. h[0].item = NULL \/ h[0].item.slot = SlotNamed(rt, parts[1])
      BY <1>3, <1>6, <2>1, FoundNamed
  <2> QED  BY <2>1, <2>2
<1>8. ASSUME NEW i \in 1 .. n, i - 1 \in P
      PROVE  i \in P
  <2> DEFINE at == h[i - 1]
             name == parts[i + 1]
             next == fat16_find_item_in_directory(at.m, sb, name)
  <2>1. /\ i - 1 \in 0 .. n /\ i \in 0 .. n /\ h[i] = GoDown(at, sb, name) /\ slots(i) = sb
        /\ at \in Entering(m)
      BY <1>2, <1>3
  <2>2. at \in SearchType /\ at.m \in MemType /\ Asks(name)
      BY <1>6, <2>1 DEF Entering, SearchType
  <2> HIDE DEF at, name, slots
  <2>3. CASE at.item = NULL \/ at.m.wild
    <3>1. h[i] = at
        BY <2>1, <2>3 DEF GoDown
    <3> QED  BY <2>1, <2>3, <3>1
  <2>4. CASE ~ (at.item = NULL \/ at.m.wild) /\ at.item.type = "file"
    <3>1. h[i] = [m |-> Leak(at.m, "item", ItemBlocks(at.item)), item |-> NULL]
        BY <2>1, <2>4 DEF GoDown
    <3> QED  BY <2>1, <3>1
  <2>5. CASE ~ (at.item = NULL \/ at.m.wild) /\ at.item.type # "file" /\ at.item.body # "whole"
    <3> DEFINE l == Leak(Leak(at.m, "item", 1), "private", 1)
    <3>1. h[i] = [at EXCEPT !.m = [l EXCEPT !.wild = TRUE]]
        BY <2>1, <2>5 DEF GoDown
    <3>2. l \in MemType
      <4>1. "item" \in Kinds /\ "private" \in Kinds /\ 1 \in Nat
          BY DEF Kinds
      <4>2. Leak(at.m, "item", 1) \in MemType
          BY <2>2, <4>1, LeakFields
      <4> QED  BY <4>1, <4>2, LeakFields
    <3> HIDE DEF l
    <3>3. [l EXCEPT !.wild = TRUE].wild
        BY <3>2 DEF MemType
    <3>4. h[i].m = [l EXCEPT !.wild = TRUE]
        BY <2>2, <3>1 DEF SearchType
    <3> QED  BY <2>1, <3>3, <3>4
  <2>6. CASE ~ (at.item = NULL \/ at.m.wild) /\ at.item.type # "file" /\ at.item.body = "whole"
    <3>1. h[i] = [next EXCEPT !.m = fat16_fat_item_free(next.m, at.item)]
        BY <2>1, <2>6 DEF GoDown
    <3>2. next.item = NULL \/ next.item.slot = SlotNamed(sb, name)
        BY <2>2, FoundNamed
    <3>3. next \in SearchType
      <4>1. next \in Searching(at.m)
          BY <1>1, <2>2, Found
      <4> QED  BY <4>1 DEF Searching
    <3> HIDE DEF next
    <3>4. h[i].item = next.item
        BY <3>1, <3>3 DEF SearchType
    <3> QED  BY <2>1, <3>2, <3>4 DEF name
  <2> QED  BY <2>3, <2>4, <2>5, <2>6
<1>9. n \in P
  <2> HIDE DEF P
  <2>1. 0 .. n \subseteq P
      BY <1>2, <1>7, <1>8, UpTo
  <2> QED  BY <1>2, <2>1
<1>10. slots(n) = IF Len(parts) = 1 THEN rt ELSE sb
    BY <1>2, <1>4, <1>5
<1> HIDE DEF slots
<1> QED  BY <1>3, <1>5, <1>9, <1>10

\* What fat16_open opens is the slot that the path names.
LEMMA OpenNamed ==
    ASSUME NEW m \in MemType, ~ m.wild, NEW rt, Fitting(rt), NEW sb, Fitting(sb),
           NEW parts \in Strings, parts # <<>>, \A i \in 1 .. Len(parts) : Asks(parts[i]), NEW mode
    PROVE  LET r == fat16_open(m, rt, sb, parts, mode)
           IN  \/ r.m.wild \/ r.item = NULL
               \/ r.item.slot = SlotNamed(IF Len(parts) = 1 THEN rt ELSE sb, parts[Len(parts)])
<1> DEFINE descriptor == kzalloc(m, "private")
           found == fat16_get_directory_entry(descriptor, rt, sb, parts)
           r == fat16_open(m, rt, sb, parts, mode)
<1>1. m.free \in Nat /\ descriptor \in MemType /\ ~ descriptor.wild
  <2>1. "private" \in Kinds
      BY DEF Kinds
  <2> QED  BY <2>1, MemFields, KzallocFields
<1>2. \/ found.m.wild \/ found.item = NULL
      \/ found.item.slot = SlotNamed(IF Len(parts) = 1 THEN rt ELSE sb, parts[Len(parts)])
  <2> HIDE DEF descriptor
  <2> QED  BY <1>1, EntryNamed
<1>3. found \in SearchType
  <2>1. rt \in Seq(SlotType) /\ sb \in Seq(SlotType)
      BY DEF Fitting
  <2> HIDE DEF descriptor
  <2>2. found \in Entering(descriptor)
      BY <1>1, <2>1, Entered
  <2> QED  BY <2>2 DEF Entering
<1>4. \/ r.item = NULL \/ r = found
  <2>1. CASE mode # "r"
      BY <2>1 DEF fat16_open
  <2>2. CASE mode = "r" /\ m.free = 0
      BY <2>2 DEF fat16_open
  <2>3. CASE mode = "r" /\ m.free > 0 /\ found.item = NULL
    <3>1. r = [found EXCEPT !.m = kfree(found.m, "private", 1)]
        BY <1>1, <2>3 DEF fat16_open
    <3> HIDE DEF r, found
    <3> QED  BY <1>3, <2>3, <3>1 DEF SearchType
  <2>4. CASE mode = "r" /\ m.free > 0 /\ found.item # NULL
      BY <1>1, <2>4 DEF fat16_open
  <2> QED  BY <1>1, <2>1, <2>2, <2>3, <2>4
<1> HIDE DEF r, found
<1>5. \/ r.m.wild \/ r.item = NULL
      \/ r.item.slot = SlotNamed(IF Len(parts) = 1 THEN rt ELSE sb, parts[Len(parts)])
    BY <1>2, <1>4
<1> QED  BY <1>5 DEF r

-----------------------------------------------------------------------------
(* What a path asks for *)

\* pathparser_parse_path_part adds the part, or stops: at an empty one or without memory.
LEMMA PartStep ==
    ASSUME NEW p \in ParseType, NEW part \in Seq(Nat)
    PROVE  LET q == pathparser_parse_path_part(p, part)
           IN  \/ ~ p.going /\ q = p
               \/ p.going /\ ~ q.going /\ q.parts = p.parts /\ (part = <<>> \/ q.m.short)
               \/ p.going /\ q.going /\ part # <<>> /\ q.parts = Append(p.parts, part)
<1> DEFINE string == kzalloc(p.m, "path")
           both == kzalloc(string, "path")
           q == pathparser_parse_path_part(p, part)
<1>1. p.m \in MemType /\ p.m.free \in Nat /\ p.going \in BOOLEAN /\ "path" \in Kinds
    BY MemFields DEF ParseType, Kinds
<1>2. /\ string \in MemType
      /\ p.m.free = 0 => string.short
      /\ p.m.free # 0 => string.free = p.m.free - 1
    BY <1>1, KzallocFields
<1> HIDE DEF string
<1>3. both \in MemType /\ (string.free = 0 => both.short)
    BY <1>1, <1>2, KzallocFields
<1> HIDE DEF both
\* The path ends here.
<1>4. ASSUME NEW n, q = [p EXCEPT !.m = n, !.going = FALSE]
      PROVE  ~ q.going /\ q.parts = p.parts /\ q.m = n
  <2> HIDE DEF q
  <2> QED  BY <1>4 DEF ParseType
<1>5. CASE ~ p.going
  <2>1. q = p
      BY <1>5 DEF pathparser_parse_path_part
  <2> QED  BY <1>5, <2>1
<1>6. CASE p.going /\ part = <<>>
  <2> DEFINE n == IF p.m.free = 0 THEN kfreeNull(string) ELSE kfree(string, "path", 1)
  <2>1. q = [p EXCEPT !.m = n, !.going = FALSE]
      BY <1>6 DEF pathparser_parse_path_part, string
  <2> HIDE DEF n, q
  <2> QED  BY <1>4, <1>6, <2>1 DEF q
<1>7. CASE p.going /\ part # <<>> /\ p.m.free = 0
  <2>1. q = [p EXCEPT !.m = string, !.going = FALSE]
      BY <1>7 DEF pathparser_parse_path_part, string
  <2> HIDE DEF q
  <2> QED  BY <1>2, <1>4, <1>7, <2>1 DEF q
<1>8. CASE p.going /\ part # <<>> /\ p.m.free = 1
  <2> DEFINE n == Leak(both, "path", 1)
  <2>1. q = [p EXCEPT !.m = n, !.going = FALSE]
      BY <1>8 DEF pathparser_parse_path_part, string, both
  <2>2. both.short
      BY <1>2, <1>3, <1>8
  <2>3. n.short
    <3>1. 1 \in Nat
        OBVIOUS
    <3> QED  BY <1>1, <1>3, <2>2, <3>1, LeakFields
  <2> HIDE DEF n, q
  <2> QED  BY <1>4, <1>8, <2>1, <2>3 DEF q
<1>9. CASE p.going /\ part # <<>> /\ p.m.free # 0 /\ p.m.free # 1
  <2>1. q = [p EXCEPT !.m = both, !.parts = Append(p.parts, part)]
      BY <1>9 DEF pathparser_parse_path_part, string, both
  <2> HIDE DEF q
  <2>2. q.going = p.going /\ q.parts = Append(p.parts, part)
      BY <2>1 DEF ParseType
  <2> QED  BY <1>9, <2>2 DEF q
<1> QED  BY <1>5, <1>6, <1>7, <1>8, <1>9

\* The first k parts of a path.
Parts(parts, strings, k) ==
    /\ parts \in Strings /\ Len(parts) = k
    /\ \A i \in 1 .. k : parts[i] = strings[i] /\ strings[i] # <<>>

\* One part more.
LEMMA PartsAppend ==
    ASSUME NEW parts, NEW strings, NEW k \in Nat, Parts(parts, strings, k),
           NEW part \in Seq(Nat), part = strings[k + 1], part # <<>>
    PROVE  Parts(Append(parts, part), strings, k + 1)
<1> DEFINE E == Seq(Nat)
           more == Append(parts, part)
<1>1. parts \in Seq(E) /\ part \in E /\ Strings = Seq(E) /\ Len(parts) = k
      /\ \A i \in 1 .. k : parts[i] = strings[i] /\ strings[i] # <<>>
    BY DEF Strings, Parts
<1> HIDE DEF E
<1>2. more \in Seq(E) /\ Len(more) = k + 1 /\ (\A i \in 1 .. k : more[i] = parts[i]) /\ more[k + 1] = part
    BY <1>1, AppendProperties
<1> HIDE DEF more
<1>3. ASSUME NEW i \in 1 .. k + 1
      PROVE  more[i] = strings[i] /\ strings[i] # <<>>
  <2>1. i \in 1 .. k \/ i = k + 1
      OBVIOUS
  <2> QED  BY <1>1, <1>2, <2>1
<1> QED  BY <1>1, <1>2, <1>3 DEF more, Parts

\* The parts up to the first empty one.
LEMMA AskedIs ==
    ASSUME NEW path \in Seq(Nat)
    PROVE  LET q == PathParts(path)
           IN  /\ q \in Strings /\ Len(q) \in Nat
               /\ \E e \in 1 .. Len(q) + 1 :
                    /\ Parts(Asked(path), q, e - 1)
                    /\ e # Len(q) + 1 => q[e] = <<>>
<1> DEFINE q == PathParts(path)
           n == Len(q)
           empty == {i \in DOMAIN q : q[i] = <<>>}
           M == empty \cup {n + 1}
           e == Min(M)
           E == Seq(Nat)
<1>1. Asked(path) = SubSeq(q, 1, e - 1)
    BY DEF Asked
<1>2. q \in Seq(E) /\ Strings = Seq(E)
    BY PathPartsType DEF Strings
<1> HIDE DEF q, E
<1>3. n \in Nat /\ DOMAIN q = 1 .. n
    BY <1>2, LenProperties
<1>4. e \in M /\ \A i \in M : e <= i
  <2>1. M \in SUBSET Nat /\ M # {}
      BY <1>3
  <2> HIDE DEF M
  <2> QED  BY <2>1, LeastIs
<1> HIDE DEF e, n
<1>5. e \in 1 .. n + 1 /\ (e # n + 1 => q[e] = <<>>)
    BY <1>3, <1>4
<1>6. \A i \in 1 .. e - 1 : i \in 1 .. n /\ q[i] # <<>>
    BY <1>3, <1>4, <1>5
<1>7. /\ SubSeq(q, 1, e - 1) \in Seq(E) /\ Len(SubSeq(q, 1, e - 1)) = e - 1
      /\ \A i \in 1 .. e - 1 : SubSeq(q, 1, e - 1)[i] = q[i]
  <2>1. /\ SubSeq(q, 1, e - 1) \in Seq(E)
        /\ Len(SubSeq(q, 1, e - 1)) = IF 1 <= e - 1 THEN (e - 1) - 1 + 1 ELSE 0
        /\ \A i \in 1 .. (e - 1) - 1 + 1 : SubSeq(q, 1, e - 1)[i] = q[1 + i - 1]
    <3>1. \A i \in 1 .. e - 1 : i \in 1 .. Len(q)
        BY <1>6 DEF n
    <3>2. 1 \in Int /\ e - 1 \in Int
        BY <1>3, <1>5
    <3> QED  BY <1>2, <3>1, <3>2, SubSeqProperties
  <2>2. Len(SubSeq(q, 1, e - 1)) = e - 1
      BY <1>3, <1>5, <2>1
  <2>3. ASSUME NEW i \in 1 .. e - 1
        PROVE  SubSeq(q, 1, e - 1)[i] = q[i]
    <3>1. i \in 1 .. (e - 1) - 1 + 1 /\ 1 + i - 1 = i
        BY <1>3, <1>5
    <3> QED  BY <2>1, <3>1
  <2> QED  BY <2>1, <2>2, <2>3
<1>8. Parts(Asked(path), q, e - 1)
    BY <1>1, <1>2, <1>6, <1>7 DEF Parts
<1> QED  BY <1>2, <1>3, <1>5, <1>8 DEF q, n

\* pathparser_parse returns what was asked for, or as much of it as there was memory.
LEMMA ParseNamed ==
    ASSUME NEW m \in MemType, m.below => m.short, NEW path \in Seq(Nat),
           pathparser_parse(m, path).root
    PROVE  LET p == pathparser_parse(m, path)
           IN  \E k \in 0 .. Len(Asked(path)) :
                   /\ Parts(p.parts, Asked(path), k)
                   /\ k # Len(Asked(path)) => p.m.short
<1> DEFINE q == PathParts(path)
           strings == Append(q, <<>>)
           n == Len(strings)
           p == pathparser_parse(m, path)
<1>1. pathparser_path_valid_format(path) /\ Len(path) <= MaxPath /\ m.free # 0
  <2>1. Len(path) \in Int /\ MaxPath \in Int
      BY LenProperties, FatOpenAssumption
  <2>2. CASE Len(path) > MaxPath \/ ~ pathparser_path_valid_format(path)
    <3>1. p = [m |-> m, root |-> FALSE, drive |-> -1, parts |-> <<>>]
        BY <2>1, <2>2 DEF pathparser_parse
    <3>2. p.root = FALSE
        BY <3>1
    <3> QED  BY <3>2
  <2>3. CASE pathparser_path_valid_format(path) /\ Len(path) <= MaxPath /\ m.free = 0
    <3>1. p = [m |-> kzalloc(m, "path"), root |-> FALSE, drive |-> -1, parts |-> <<>>]
        BY <2>1, <2>3 DEF pathparser_parse
    <3>2. p.root = FALSE
        BY <3>1
    <3> QED  BY <3>2
  <2> QED  BY <2>1, <2>2, <2>3
<1>2. n \in Nat
    BY <1>1, ParseLoop
<1>3. PICK h : /\ h[0] = [m |-> kzalloc(m, "path"), parts |-> <<>>, going |-> TRUE]
               /\ \A i \in 1 .. n : h[i] = pathparser_parse_path_part(h[i - 1], strings[i])
               /\ \A i \in 0 .. n : h[i] \in Parsing(m)
               /\ p.m = h[n].m /\ p.parts = h[n].parts
    BY <1>1, ParseLoop
<1> HIDE DEF p
<1>4. /\ q \in Strings /\ Len(q) \in Nat /\ n = Len(q) + 1 /\ strings[n] = <<>>
      /\ \A i \in 1 .. Len(q) : strings[i] = q[i]
      /\ \A i \in 1 .. n : strings[i] \in Seq(Nat)
  <2> DEFINE E == Seq(Nat)
             o == <<>>
  <2>1. q \in Seq(E) /\ Strings = Seq(E) /\ o \in E
      BY PathPartsType DEF Strings
  <2> HIDE DEF E, q, o
  <2>2. /\ Append(q, o) \in Seq(E) /\ Len(Append(q, o)) = Len(q) + 1 /\ Len(q) \in Nat
        /\ (\A i \in 1 .. Len(q) : Append(q, o)[i] = q[i]) /\ Append(q, o)[Len(q) + 1] = o
      BY <2>1, AppendProperties, LenProperties
  <2>3. \A i \in 1 .. Len(Append(q, o)) : Append(q, o)[i] \in E
      BY <2>2, ElementOfSeq
  <2> QED  BY <2>1, <2>2, <2>3 DEF E, o
<1> HIDE DEF strings, n, q
<1> DEFINE stopped(s, j) == Parts(s.parts, strings, j - 1) /\ (strings[j] = <<>> \/ s.m.short)
           reached(i) == \/ h[i].going /\ Parts(h[i].parts, strings, i)
                         \/ ~ h[i].going /\ \E j \in 1 .. i : stopped(h[i], j)
           P == {i \in 0 .. n : reached(i)}
<1>5. 0 \in P
  <2>1. h[0].going /\ h[0].parts = <<>> /\ Len(<<>>) = 0 /\ <<>> \in Strings
      BY <1>3, EmptySeq DEF Strings
  <2>2. Parts(h[0].parts, strings, 0)
      BY <2>1 DEF Parts
  <2>3. reached(0)
      BY <2>1, <2>2, Zenon
  <2> HIDE DEF reached
  <2> QED  BY <1>2, <2>3
<1>6. ASSUME NEW i \in 1 .. n, i - 1 \in P
      PROVE  i \in P
  <2> SUFFICES reached(i)
    <3>1. i \in 0 .. n
        BY <1>2
    <3> HIDE DEF reached
    <3> QED  BY <3>1
  <2>1. /\ i - 1 \in 0 .. n /\ i \in 0 .. n /\ i - 1 \in Nat /\ (i - 1) + 1 = i
        /\ h[i] = pathparser_parse_path_part(h[i - 1], strings[i])
        /\ h[i - 1] \in ParseType /\ strings[i] \in Seq(Nat)
      BY <1>2, <1>3, <1>4 DEF Parsing
  <2>2. \/ ~ h[i - 1].going /\ h[i] = h[i - 1]
        \/ /\ h[i - 1].going /\ ~ h[i].going /\ h[i].parts = h[i - 1].parts
           /\ strings[i] = <<>> \/ h[i].m.short
        \/ /\ h[i - 1].going /\ h[i].going /\ strings[i] # <<>>
           /\ h[i].parts = Append(h[i - 1].parts, strings[i])
    <3> DEFINE s == h[i - 1]
               part == strings[i]
               t == pathparser_parse_path_part(s, part)
    <3>1. s \in ParseType /\ part \in Seq(Nat) /\ h[i] = t
        BY <2>1
    <3> HIDE DEF s, part
    <3>2. \/ ~ s.going /\ t = s
          \/ s.going /\ ~ t.going /\ t.parts = s.parts /\ (part = <<>> \/ t.m.short)
          \/ s.going /\ t.going /\ part # <<>> /\ t.parts = Append(s.parts, part)
        BY <3>1, PartStep
    <3> HIDE DEF t
    <3> QED  BY <3>1, <3>2, Zenon DEF s, part
  <2>3. CASE ~ h[i - 1].going /\ h[i] = h[i - 1]
    <3>1. PICK j \in 1 .. i - 1 : stopped(h[i - 1], j)
        BY <1>6, <2>3
    <3>2. j \in 1 .. i
        BY <2>1
    <3> HIDE DEF stopped
    <3> QED  BY <2>3, <3>1, <3>2, Zenon
  <2>4. CASE /\ h[i - 1].going /\ ~ h[i].going /\ h[i].parts = h[i - 1].parts
             /\ strings[i] = <<>> \/ h[i].m.short
    <3>1. Parts(h[i - 1].parts, strings, i - 1)
        BY <1>6, <2>4
    <3>2. stopped(h[i], i) /\ i \in 1 .. i
        BY <2>1, <2>4, <3>1
    <3> HIDE DEF stopped
    <3> QED  BY <2>4, <3>2, Zenon
  <2>5. CASE /\ h[i - 1].going /\ h[i].going /\ strings[i] # <<>>
             /\ h[i].parts = Append(h[i - 1].parts, strings[i])
    <3>1. Parts(h[i - 1].parts, strings, i - 1)
        BY <1>6, <2>5
    <3>2. Parts(h[i].parts, strings, i)
        BY <2>1, <2>5, <3>1, PartsAppend
    <3> QED  BY <2>5, <3>2, Zenon
  <2> QED  BY <2>2, <2>3, <2>4, <2>5
<1>7. n \in P
  <2> HIDE DEF P
  <2>1. 0 .. n \subseteq P
      BY <1>2, <1>5, <1>6, UpTo
  <2> QED  BY <1>2, <2>1
<1>8. PICK j \in 1 .. n : stopped(h[n], j)
  <2>1. CASE h[n].going /\ Parts(h[n].parts, strings, n)
    <3>1. n \in 1 .. n
        BY <1>2, <1>4
    <3> QED  BY <1>4, <2>1, <3>1 DEF Parts
  <2> QED  BY <1>7, <2>1
<1>9. PICK e \in 1 .. n : Parts(Asked(path), q, e - 1) /\ (e # n => q[e] = <<>>)
    BY <1>4, AskedIs DEF q
<1>10. j <= e
  <2> SUFFICES ASSUME e < j
               PROVE  FALSE
      BY <1>2
  <2>1. e \in 1 .. j - 1 /\ e # n /\ e \in 1 .. Len(q)
      BY <1>2, <1>4
  <2>2. strings[e] # <<>>
      BY <1>8, <2>1 DEF Parts
  <2> QED  BY <1>4, <1>9, <2>1, <2>2
<1>11. Len(Asked(path)) = e - 1 /\ j - 1 \in 0 .. e - 1
    BY <1>2, <1>9, <1>10 DEF Parts
<1>12. Parts(p.parts, Asked(path), j - 1)
  <2>1. /\ p.parts \in Strings /\ Len(p.parts) = j - 1
        /\ \A i \in 1 .. j - 1 : p.parts[i] = strings[i] /\ strings[i] # <<>>
      BY <1>3, <1>8 DEF Parts
  <2>2. \A i \in 1 .. j - 1 : i \in 1 .. e - 1 /\ i \in 1 .. Len(q)
      BY <1>2, <1>4, <1>10
  <2>3. \A i \in 1 .. e - 1 : Asked(path)[i] = q[i]
      BY <1>9 DEF Parts
  <2> QED  BY <1>4, <2>1, <2>2, <2>3 DEF Parts
<1>13. ASSUME j - 1 # e - 1
       PROVE  p.m.short
  <2>1. strings[j] # <<>>
    <3>1. j \in 1 .. e - 1 /\ j \in 1 .. Len(q)
        BY <1>2, <1>4, <1>10, <1>13
    <3>2. q[j] # <<>>
        BY <1>9, <3>1 DEF Parts
    <3> QED  BY <1>4, <3>1, <3>2
  <2> QED  BY <1>3, <1>8, <2>1
<1>14. \E k \in 0 .. Len(Asked(path)) : Parts(p.parts, Asked(path), k) /\ (k # Len(Asked(path)) => p.m.short)
    BY <1>11, <1>12, <1>13
<1> QED  BY <1>14 DEF p

-----------------------------------------------------------------------------
(* Where the descriptors lead *)

\* The descriptor d is that of the holder h: as many parts of the path as memory
\* allowed, their slot, and the position, unless another has moved it.
Leads(h, d, rt, sb) ==
    /\ d.pos = h.pos \/ h.disturbed
    /\ \E k \in 1 .. Len(h.path) : Parts(d.path, h.path, k) /\ (k # Len(h.path) => h.short)
    /\ d.item.slot = SlotNamed(IF Len(d.path) = 1 THEN rt ELSE sb, d.path[Len(d.path)])

\* A caller that has lost its descriptor, or found its file moved, did so after memory
\* ran out.
Kept(h, d, rt, sb, out) ==
    IF h.lost THEN out ELSE Leads(h, d, rt, sb) /\ (h.disturbed => out)

\* The disk is the one that was booted from, and every caller keeps its descriptor.
LeadInv ==
    /\ root \in Roots /\ sub \in Subs
    /\ \A h \in held : Kept(h, file_descriptors[h.fd], root, sub, ranOut)

\* The directories of a disk with well-formed names are such slots.
LEMMA FittingDirectories ==
    ASSUME WellFormedNames, NEW slots \in Roots \cup Subs
    PROVE  Fitting(slots)
<1> HIDE DEF SlotType
<1>1. slots \in Seq(SlotType)
    BY FilesAssumption
<1>2. DOMAIN slots = 1 .. Len(slots)
    BY <1>1, LenProperties
<1> QED  BY <1>1, <1>2 DEF WellFormedNames, Fitting, Fits

\* What a caller asks for, and the parts of it that pathparser_parse finds.
LEMMA PartsAsked ==
    ASSUME WellFormedNames, NEW call \in Calls, NEW parts,
           NEW k \in 0 .. Len(Asked(call.path)), Parts(parts, Asked(call.path), k)
    PROVE  \A i \in 1 .. Len(parts) : Asks(parts[i])
<1> DEFINE a == Asked(call.path)
           E == Seq(Nat)
<1>1. call.path \in Seq(Nat)
    BY FilesAssumption
<1>2. a \in Strings
    BY <1>1, AskedIs DEF Parts
<1>3. a \in Seq(E) /\ parts \in Seq(E)
    BY <1>2 DEF Strings, Parts
<1>4. \A i \in DOMAIN a : a[i][1] # Dot /\ \A j \in DOMAIN a[i] : a[i][j] # 0
    BY DEF WellFormedNames
<1>5. k \in 0 .. Len(a) /\ Len(parts) = k /\ \A i \in 1 .. k : parts[i] = a[i] /\ a[i] # <<>>
    BY DEF Parts
<1> HIDE DEF a, E
<1>6. Len(a) \in Nat /\ DOMAIN a = 1 .. Len(a) /\ \A i \in 1 .. Len(parts) : parts[i] \in E
    BY <1>3, LenProperties, ElementOfSeq
<1>7. ASSUME NEW i \in 1 .. Len(parts)
      PROVE  Asks(parts[i])
  <2> DEFINE name == parts[i]
  <2>1. i \in DOMAIN a /\ name = a[i] /\ name # <<>> /\ name \in Seq(Nat)
      BY <1>5, <1>6 DEF E
  <2>2. name[1] # Dot /\ \A j \in DOMAIN name : name[j] # 0
      BY <1>4, <2>1
  <2> HIDE DEF name
  <2>3. DOMAIN name = 1 .. Len(name)
      BY <2>1, LenProperties
  <2>4. Asks(name)
      BY <2>1, <2>2, <2>3 DEF Asks
  <2> QED  BY <2>4 DEF name
<1> QED  BY <1>7

\* A call that changes neither the table nor the holders.
LEMMA LeadSame ==
    ASSUME LeadInv, UNCHANGED <<root, sub, file_descriptors, held>>, ranOut => ranOut'
    PROVE  LeadInv'
  BY DEF LeadInv, Kept

\* Every caller's descriptor leads to what it asked for: LeadInv says what the
\* property does.
LEMMA LeadInvLeads ==
    ASSUME Inv, LeadInv
    PROVE  HeldDescriptorsLead
<1> SUFFICES ASSUME NEW h \in held
             PROVE  LET desc == file_get_descriptor(h.fd)
                        directory == IF Len(desc.path) = 1 THEN root ELSE sub
                    IN  CASE h.fd = MaxFd -> desc = NULL
                          [] h.fd # MaxFd /\ h.lost -> ranOut
                          [] OTHER ->
                                /\ desc # NULL
                                /\ desc.pos = h.pos \/ h.disturbed
                                /\ h.disturbed => ranOut
                                /\ IsPrefix(desc.path, h.path)
                                /\ desc.item.slot = SlotNamed(directory, Last(desc.path))
                                /\ desc.path # h.path => h.short
    BY DEF HeldDescriptorsLead
<1> DEFINE desc == file_get_descriptor(h.fd)
<1>1. h \in HolderType /\ (~ h.lost => file_descriptors[h.fd] # NULL)
    BY DEF Inv, HeldInv
<1>2. h.fd \in Index /\ h.lost \in BOOLEAN /\ \E call \in Calls : h.path = Asked(call.path)
  <2> DEFINE P == {Asked(call.path) : call \in Calls}
  <2>1. HolderType = [id : Nat, fd : Index, path : P, pos : Nat, short : BOOLEAN, lost : BOOLEAN,
                      disturbed : BOOLEAN]
      BY DEF HolderType
  <2> HIDE DEF P
  <2>2. h.fd \in Index /\ h.lost \in BOOLEAN /\ h.path \in P
      BY <1>1, <2>1
  <2> QED  BY <2>2 DEF P
<1>3. MaxFd \in Nat \ {0} /\ h.fd \in 1 .. MaxFd
    BY <1>2, FilesAssumption DEF Index
<1>4. CASE h.fd = MaxFd
  <2>1. desc = NULL
      BY <1>3, <1>4 DEF file_get_descriptor
  <2> QED  BY <1>4, <2>1
<1>5. CASE h.fd # MaxFd /\ h.lost
  <2>1. ranOut
      BY <1>5 DEF LeadInv, Kept
  <2> QED  BY <1>5, <2>1
<1>6. CASE h.fd # MaxFd /\ ~ h.lost
  <2> DEFINE a == h.path
             d == file_descriptors[h.fd]
             E == Seq(Nat)
             x == d.path
  <2>1. desc = d /\ d # NULL
      BY <1>1, <1>3, <1>6 DEF file_get_descriptor
  <2>2. Leads(h, d, root, sub) /\ (h.disturbed => ranOut)
      BY <1>6 DEF LeadInv, Kept
  <2>3. PICK k \in 1 .. Len(a) : Parts(x, a, k) /\ (k # Len(a) => h.short)
      BY <2>2 DEF Leads
  <2>4. /\ d.pos = h.pos \/ h.disturbed
        /\ d.item.slot = SlotNamed(IF Len(x) = 1 THEN root ELSE sub, x[Len(x)])
      BY <2>2 DEF Leads
  <2>5. a \in Seq(E) /\ Len(a) \in Nat
    <3>1. PICK call \in Calls : a = Asked(call.path)
        BY <1>2
    <3>2. a \in Strings
        BY <3>1, FilesAssumption, AskedIs DEF Parts
    <3>3. a \in Seq(E)
        BY <3>2 DEF Strings
    <3> HIDE DEF a, E
    <3> QED  BY <3>3, LenProperties
  <2>6. x \in Seq(E) /\ Len(x) = k /\ \A i \in 1 .. k : x[i] = a[i]
      BY <2>3 DEF Parts, Strings
  <2> HIDE DEF a, x, d, E, desc
  <2>7. SubSeq(x, 1, k) = x /\ SubSeq(a, 1, k) = x
    <3> DEFINE p == SubSeq(x, 1, k)
               q == SubSeq(a, 1, k)
    <3>1. k \in Int /\ 1 \in Int /\ 1 <= k /\ k - 1 + 1 = k
        BY <2>5
    <3>2. (\A i \in 1 .. k : x[i] \in E) /\ \A i \in 1 .. k : a[i] \in E
      <4>1. \A i \in 1 .. k : x[i] \in E
          BY <2>6, ElementOfSeq
      <4> QED  BY <2>6, <4>1
    <3>3. p \in Seq(E) /\ Len(p) = k /\ \A i \in 1 .. k - 1 + 1 : p[i] = x[1 + i - 1]
        BY <3>1, <3>2, SubSeqProperties
    <3>4. q \in Seq(E) /\ Len(q) = k /\ \A i \in 1 .. k - 1 + 1 : q[i] = a[1 + i - 1]
        BY <3>1, <3>2, SubSeqProperties
    <3> HIDE DEF p, q
    <3>5. \A i \in 1 .. k : i \in 1 .. k - 1 + 1 /\ 1 + i - 1 = i
        BY <3>1
    <3>6. p = x
      <4>1. \A i \in 1 .. k : p[i] = x[i]
          BY <3>3, <3>5
      <4> QED  BY <2>6, <3>3, <4>1, SeqEqual
    <3>7. q = x
      <4>1. \A i \in 1 .. k : q[i] = x[i]
          BY <2>6, <3>4, <3>5
      <4> QED  BY <2>6, <3>4, <4>1, SeqEqual
    <3> QED  BY <3>6, <3>7 DEF p, q
  <2>8. IsPrefix(x, a)
    <3>1. k <= Len(a)
        BY <2>5
    <3> QED  BY <2>6, <2>7, <3>1 DEF IsPrefix
  <2>9. x # a => h.short
    <3>1. k = Len(a) => x = a
        BY <2>5, <2>6, SeqEqual
    <3> QED  BY <2>3, <3>1
  <2>10. d.item.slot = SlotNamed(IF Len(x) = 1 THEN root ELSE sub, Last(x))
      BY <2>4 DEF Last
  <2>11. /\ desc # NULL
         /\ desc.pos = h.pos \/ h.disturbed
         /\ h.disturbed => ranOut
         /\ IsPrefix(desc.path, h.path)
         /\ desc.item.slot = SlotNamed(IF Len(desc.path) = 1 THEN root ELSE sub, Last(desc.path))
         /\ desc.path # h.path => h.short
      BY <2>1, <2>2, <2>4, <2>8, <2>9, <2>10 DEF x, a
  <2> QED  BY <1>6, <2>11 DEF desc
<1> HIDE DEF desc
<1> QED  BY <1>2, <1>4, <1>5, <1>6

\* A holder that comes with a call of fopen: with a descriptor of its own, or lost.
LEMMA LeadNew ==
    ASSUME Inv, LeadInv, root' = root, sub' = sub, NEW h, held' = held \cup {h},
           ranOut => ranOut',
           NEW fd \in Index, file_descriptors[fd] = NULL,
           \A i \in Index : i # fd => file_descriptors'[i] = file_descriptors[i],
           Kept(h, file_descriptors'[h.fd], root, sub, ranOut')
    PROVE  LeadInv'
<1>1. ASSUME NEW g \in held
      PROVE  Kept(g, file_descriptors'[g.fd], root, sub, ranOut')
  <2>1. Kept(g, file_descriptors[g.fd], root, sub, ranOut)
      BY DEF LeadInv
  <2>2. g.fd \in Index /\ (~ g.lost => file_descriptors[g.fd] # NULL)
      BY HeldNumber DEF Inv, HeldInv
  <2>3. ~ g.lost => file_descriptors'[g.fd] = file_descriptors[g.fd]
      BY <2>2
  <2> QED  BY <2>1, <2>3 DEF Kept
<1> QED  BY <1>1 DEF LeadInv

\* fopen, for every path, every disk and every number of free blocks.
LEMMA FopenLeads ==
    ASSUME WellFormedNames, Inv, LeadInv, NEW call \in Calls, NEW free \in Rooms,
           fopen(call.path, call.mode, free)
    PROVE  LeadInv'
<1>1. PICK p : /\ p = pathparser_parse(Memory(free, blocks), call.path)
               /\ \/ OpenRefuses(call.mode, p)
                  \/ /\ ~ OpenRefused(call.mode, p)
                     /\ \E open \in {fat16_open(p.m, root, sub, p.parts, call.mode)} :
                          \/ OpenFails(p, open)
                          \/ OpenGoesAstray(p, open)
                          \/ OpenFindsNoDescriptor(p, open)
                          \/ OpenSucceeds(call.path, p, open)
                          \/ OpenLosesDescriptor(call.path, p, open)
    BY DEF fopen
<1>2. CASE OpenRefuses(call.mode, p)
    BY <1>2, LeadSame DEF OpenRefuses, HeapIs, OnDisk
<1>3. ASSUME ~ OpenRefused(call.mode, p),
             NEW open, open = fat16_open(p.m, root, sub, p.parts, call.mode),
             \/ OpenFails(p, open)
             \/ OpenGoesAstray(p, open)
             \/ OpenFindsNoDescriptor(p, open)
             \/ OpenSucceeds(call.path, p, open)
             \/ OpenLosesDescriptor(call.path, p, open)
      PROVE  LeadInv'
  <2> DEFINE a == Asked(call.path)
             fd == file_new_descriptor
             n == kzalloc(open.m, "descriptor")
  <2>1. p.root /\ p.parts # <<>>
      BY <1>3 DEF OpenRefused
  <2>2. CASE OpenFails(p, open)
      BY <2>2, LeadSame DEF OpenFails, HeapIs, OnDisk
  <2>3. CASE OpenGoesAstray(p, open)
      BY <2>3, LeadSame DEF OpenGoesAstray, HeapIs, OnDisk
  <2>4. CASE OpenFindsNoDescriptor(p, open)
      BY <2>4, LeadSame DEF OpenFindsNoDescriptor, HeapIs, OnDisk
  <2>5. /\ call.path \in Seq(Nat) /\ p.m \in MemType /\ p.parts \in Strings /\ ~ p.m.wild
        /\ \E k \in 0 .. Len(a) : Parts(p.parts, a, k) /\ (k # Len(a) => p.m.short)
    <3> DEFINE m == Memory(free, blocks)
    <3>1. call.path \in Seq(Nat) /\ free \in Nat /\ blocks \in Counts
        BY FilesAssumption DEF Inv, CountInv
    <3>2. m \in MemType /\ ~ m.below /\ ~ m.wild
        BY <3>1, StartFields
    <3> HIDE DEF m
    <3>3. p = pathparser_parse(m, call.path)
        BY <1>1 DEF m
    <3>4. p.m \in MemType /\ p.parts \in Strings /\ p.m.wild = m.wild
        BY <3>1, <3>2, <3>3, ParseResult
    <3>5. \E k \in 0 .. Len(a) : Parts(p.parts, a, k) /\ (k # Len(a) => p.m.short)
        BY <2>1, <3>1, <3>2, <3>3, ParseNamed
    <3> QED  BY <3>1, <3>2, <3>4, <3>5
  <2>6. PICK k \in 0 .. Len(a) : Parts(p.parts, a, k) /\ (k # Len(a) => p.m.short)
      BY <2>5
  <2>7. Fitting(root) /\ Fitting(sub) /\ root \in Seq(SlotType) /\ sub \in Seq(SlotType)
    <3>1. Fitting(root) /\ Fitting(sub)
        BY FittingDirectories DEF LeadInv
    <3> QED  BY <3>1 DEF Fitting
  <2>8. \A i \in 1 .. Len(p.parts) : Asks(p.parts[i])
      BY <2>6, PartsAsked
  <2>9. \/ open.m.wild \/ open.item = NULL
        \/ open.item.slot = SlotNamed(IF Len(p.parts) = 1 THEN root ELSE sub, p.parts[Len(p.parts)])
    <3> DEFINE r == fat16_open(p.m, root, sub, p.parts, call.mode)
    <3>1. \/ r.m.wild \/ r.item = NULL
          \/ r.item.slot = SlotNamed(IF Len(p.parts) = 1 THEN root ELSE sub, p.parts[Len(p.parts)])
        BY <2>1, <2>5, <2>7, <2>8, OpenNamed
    <3>2. r = open
        BY <1>3
    <3> HIDE DEF r
    <3> QED  BY <3>1, <3>2
  <2>10. open \in Opening(p.m)
      BY <1>3, <2>1, <2>5, <2>7, Opened
  <2>11. open.m \in MemType /\ (p.m.short => open.m.short)
      BY <2>10 DEF Opening, SearchType
  <2>12. /\ n \in MemType /\ (open.m.free = 0 => n.short)
         /\ open.m.free # 0 => n.short = open.m.short
    <3>1. "descriptor" \in Kinds
        BY DEF Kinds
    <3> QED  BY <2>11, <3>1, KzallocFields
  <2>13. k \in 1 .. Len(a)
    <3>1. k # 0
      <4>1. Len(p.parts) = k /\ p.parts \in Seq(Seq(Nat))
          BY <2>6 DEF Parts, Strings
      <4> QED  BY <2>1, <4>1, EmptySeq
    <3>2. Len(a) \in Nat
        BY <2>5, AskedIs, LenProperties DEF Parts, Strings
    <3> QED  BY <3>1, <3>2
  <2>14. CASE OpenSucceeds(call.path, p, open)
    <3> DEFINE h == Holder(fd, call.path, n, FALSE)
               d == [path |-> p.parts, item |-> open.item, pos |-> 0]
    <3>1. /\ open.item # NULL /\ ~ open.m.wild /\ fd > 0 /\ open.m.free > 0
          /\ file_descriptors' = [file_descriptors EXCEPT ![fd] = d]
          /\ held' = held \cup {h} /\ root' = root /\ sub' = sub /\ (ranOut => ranOut')
        BY <2>14 DEF OpenSucceeds, HeapIs, OnDisk
    <3>2. fd \in Index /\ file_descriptors[fd] = NULL
        BY <3>1, NewDescriptor
    <3>3. /\ h.fd = fd /\ h.path = a /\ h.pos = 0 /\ h.short = n.short /\ h.lost = FALSE
          /\ h.disturbed = FALSE
        BY DEF Holder
    <3>4. d.path = p.parts /\ d.item = open.item /\ d.pos = 0
        OBVIOUS
    <3>5. file_descriptors'[fd] = d /\ \A i \in Index : i # fd => file_descriptors'[i] = file_descriptors[i]
      <4>1. TableInv
          BY DEF Inv
      <4> HIDE DEF d, fd
      <4> QED  BY <3>1, <3>2, <4>1 DEF TableInv
    <3> HIDE DEF h, d, fd, n, a
    <3>6. k # Len(a) => n.short
      <4>1. open.m.free # 0
          BY <2>11, <3>1, MemFields
      <4> QED  BY <2>6, <2>11, <2>12, <4>1
    <3>7. Leads(h, d, root, sub)
      <4>1. \E j \in 1 .. Len(h.path) : Parts(d.path, h.path, j) /\ (j # Len(h.path) => h.short)
          BY <2>6, <2>13, <3>3, <3>4, <3>6
      <4>2. d.item.slot = SlotNamed(IF Len(d.path) = 1 THEN root ELSE sub, d.path[Len(d.path)])
          BY <2>9, <3>1, <3>4
      <4> QED  BY <3>3, <3>4, <4>1, <4>2 DEF Leads
    <3>8. Kept(h, file_descriptors'[h.fd], root, sub, ranOut')
        BY <3>3, <3>5, <3>7 DEF Kept
    <3> QED  BY <3>1, <3>2, <3>5, <3>8, LeadNew
  <2>15. CASE OpenLosesDescriptor(call.path, p, open)
    <3> DEFINE h == Holder(fd, call.path, n, TRUE)
    <3>1. PICK o : o = Leak(n, "path", PathBlocks(p.parts))
        OBVIOUS
    <3>2. PICK q : q = Leak(o, "private", 1)
        OBVIOUS
    <3>3. PICK m : m = Leak(q, "item", ItemBlocks(open.item))
        OBVIOUS
    <3>4. /\ fd > 0 /\ open.m.free = 0 /\ file_descriptors' = file_descriptors
          /\ held' = held \cup {h} /\ root' = root /\ sub' = sub /\ HeapIs(m)
        BY <2>15, <3>1, <3>2, <3>3 DEF OpenLosesDescriptor, OnDisk
    <3>5. fd \in Index /\ file_descriptors[fd] = NULL
        BY <3>4, NewDescriptor
    <3>6. h.lost = TRUE
        BY DEF Holder
    <3>7. m.short = n.short
        BY <3>1, <3>2, <3>3 DEF Leak
    <3> HIDE DEF h, fd, n
    <3>8. ranOut'
        BY <2>12, <3>4, <3>7 DEF HeapIs
    <3>9. Kept(h, file_descriptors'[h.fd], root, sub, ranOut')
        BY <3>6, <3>8 DEF Kept
    <3> QED  BY <3>4, <3>5, <3>8, <3>9, LeadNew
  <2> QED  BY <1>3, <2>2, <2>3, <2>4, <2>14, <2>15
<1> QED  BY <1>1, <1>2, <1>3

\* A caller whose number leads to another's descriptor has lost its own.
LEMMA SharedAfterRanOut ==
    ASSUME Inv, LeadInv, NEW g \in held, NEW h \in held, Shares(g, h)
    PROVE  ranOut
<1>1. h.lost
    BY DEF Shares, Inv, HeldByOne
<1>2. Kept(h, file_descriptors[h.fd], root, sub, ranOut)
    BY DEF LeadInv
<1> QED  BY <1>1, <1>2 DEF Kept

\* fclose takes the descriptor from the caller behind whose number it is, whoever calls.
LEMMA FcloseLeads ==
    ASSUME Inv, LeadInv, NEW h \in held, fclose(h)
    PROVE  LeadInv'
<1> DEFINE left(g) == [g EXCEPT !.lost = g.lost \/ Shares(g, h)]
<1>1. /\ file_get_descriptor(h.fd) # NULL
      /\ file_descriptors' = [file_descriptors EXCEPT ![h.fd] = NULL]
      /\ held' = {left(g) : g \in held \ {h}} /\ root' = root /\ sub' = sub /\ ranOut' = ranOut
    BY DEF fclose, OnDisk
<1>2. TableInv /\ HeldInv
    BY DEF Inv
<1>3. ASSUME NEW g \in held, g # h
      PROVE  LET f == left(g) IN Kept(f, file_descriptors'[f.fd], root, sub, ranOut)
  <2> DEFINE P == {Asked(call.path) : call \in Calls}
             q == g.lost \/ Shares(g, h)
             f == [g EXCEPT !.lost = q]
  <2>1. HolderType = [id : Nat, fd : Index, path : P, pos : Nat, short : BOOLEAN, lost : BOOLEAN,
                      disturbed : BOOLEAN]
      BY DEF HolderType
  <2>2. g \in HolderType
      BY <1>2 DEF HeldInv
  <2>3. Kept(g, file_descriptors[g.fd], root, sub, ranOut)
      BY DEF LeadInv
  <2>4. q <=> g.lost \/ Shares(g, h)
      OBVIOUS
  <2>5. left(g) = f
      OBVIOUS
  <2> HIDE DEF P, q
  <2>6. /\ f.fd = g.fd /\ f.path = g.path /\ f.short = g.short /\ f.pos = g.pos /\ f.lost = q
        /\ f.disturbed = g.disturbed /\ g.fd \in Index
      BY <2>1, <2>2
  <2> HIDE DEF f, left
  <2>7. Kept(f, file_descriptors'[f.fd], root, sub, ranOut)
    <3>1. CASE q
      <4>1. ranOut
          BY <2>3, <2>4, <3>1, SharedAfterRanOut DEF Kept
      <4> QED  BY <2>6, <3>1, <4>1 DEF Kept
    <3>2. CASE ~ q
      <4>1. ~ g.lost /\ g.fd # h.fd
          BY <1>3, <2>4, <3>2 DEF Shares
      <4>2. file_descriptors'[g.fd] = file_descriptors[g.fd]
          BY <1>1, <1>2, <2>6, <4>1, HeldNumber DEF TableInv
      <4>3. Leads(g, file_descriptors'[g.fd], root, sub) /\ (g.disturbed => ranOut)
          BY <2>3, <4>1, <4>2 DEF Kept
      <4>4. Leads(f, file_descriptors'[g.fd], root, sub)
          BY <2>6, <4>3 DEF Leads
      <4> QED  BY <2>6, <3>2, <4>3, <4>4 DEF Kept
    <3> QED  BY <3>1, <3>2
  <2> QED  BY <2>5, <2>7
<1> HIDE DEF left
<1>4. ASSUME NEW f \in held'
      PROVE  Kept(f, file_descriptors'[f.fd], root, sub, ranOut)
  <2>1. PICK g \in held : g # h /\ f = left(g)
      BY <1>1
  <2> QED  BY <1>3, <2>1
<1> QED  BY <1>1, <1>4 DEF LeadInv

\* fread and fseek move the descriptor and what its own caller expects alike; another
\* caller's position is disturbed.
LEMMA MoveLeads ==
    ASSUME Inv, LeadInv, NEW h \in held, file_get_descriptor(h.fd) # NULL,
           NEW offset \in Nat, NEW whence, Move(h, offset, whence)
    PROVE  LeadInv'
<1> DEFINE fd == h.fd
           from(pos) == offset + IF whence = "SEEK_CUR" THEN pos ELSE 0
           own(g) == g = h /\ ~ g.lost /\ ~ g.disturbed
           moved(g) == [g EXCEPT !.pos = IF own(g) THEN from(g.pos) ELSE g.pos,
                                 !.disturbed = g.disturbed \/ Shares(g, h)]
           t == file_descriptors
           d == [t[fd] EXCEPT !.pos = from(t[fd].pos)]
<1>1. TableInv /\ HeldInv
    BY DEF Inv
<1>2. fd \in Index /\ t[fd] \in DescriptorType
    BY <1>1, HeldNumber, GetDescriptor
<1>3. /\ file_descriptors' = [t EXCEPT ![fd] = d]
      /\ held' = {moved(g) : g \in held} /\ root' = root /\ sub' = sub /\ ranOut' = ranOut
    BY DEF Move, OnDisk, Errors
<1> HIDE DEF from
<1>4. d.pos = from(t[fd].pos) /\ d.path = t[fd].path /\ d.item = t[fd].item
  <2> DEFINE e == t[fd]
             E == Seq(Seq(Nat))
  <2>1. e \in [path : E, item : ItemType, pos : Nat]
      BY <1>2 DEF DescriptorType
  <2> HIDE DEF e, E, t
  <2>2. LET c == [e EXCEPT !.pos = from(e.pos)]
        IN  c.pos = from(e.pos) /\ c.path = e.path /\ c.item = e.item
      BY <2>1
  <2> QED  BY <2>2 DEF e
<1> HIDE DEF d
<1>5. file_descriptors'[fd] = d /\ \A i \in Index : i # fd => file_descriptors'[i] = t[i]
    BY <1>1, <1>2, <1>3 DEF TableInv
<1>6. ASSUME NEW g \in held
      PROVE  LET f == moved(g) IN Kept(f, file_descriptors'[f.fd], root, sub, ranOut)
  <2> DEFINE P == {Asked(call.path) : call \in Calls}
             p == IF own(g) THEN from(g.pos) ELSE g.pos
             q == g.disturbed \/ Shares(g, h)
             f == [g EXCEPT !.pos = p, !.disturbed = q]
  <2>1. HolderType = [id : Nat, fd : Index, path : P, pos : Nat, short : BOOLEAN, lost : BOOLEAN,
                      disturbed : BOOLEAN]
      BY DEF HolderType
  <2>2. g \in HolderType
      BY <1>1 DEF HeldInv
  <2>3. q <=> g.disturbed \/ Shares(g, h)
      OBVIOUS
  <2>4. moved(g) = f
      OBVIOUS
  <2> HIDE DEF P, p, q
  <2>5. /\ f.fd = g.fd /\ f.path = g.path /\ f.short = g.short /\ f.lost = g.lost /\ f.pos = p
        /\ f.disturbed = q /\ g.fd \in Index
      BY <2>1, <2>2
  <2>6. Kept(g, t[g.fd], root, sub, ranOut)
      BY DEF LeadInv
  <2> HIDE DEF f, moved
  <2>7. ASSUME ~ g.lost
        PROVE  Leads(f, file_descriptors'[g.fd], root, sub) /\ (q => ranOut)
    <3>1. /\ t[g.fd].pos = g.pos \/ g.disturbed
          /\ \E k \in 1 .. Len(g.path) : Parts(t[g.fd].path, g.path, k) /\ (k # Len(g.path) => g.short)
          /\ t[g.fd].item.slot = SlotNamed(IF Len(t[g.fd].path) = 1 THEN root ELSE sub,
                                           t[g.fd].path[Len(t[g.fd].path)])
          /\ g.disturbed => ranOut
        BY <2>6, <2>7 DEF Kept, Leads
    <3>2. q => ranOut
        BY <2>3, <3>1, SharedAfterRanOut
    <3>3. CASE g.fd = fd
      <4>1. file_descriptors'[g.fd] = d /\ d.path = t[g.fd].path /\ d.item = t[g.fd].item
          BY <1>4, <1>5, <3>3
      <4>2. d.pos = f.pos \/ f.disturbed
        <5>1. CASE q
            BY <2>5, <5>1
        <5>2. CASE ~ q
          <6>1. ~ g.disturbed /\ g = h
              BY <2>3, <2>7, <3>3, <5>2 DEF Shares
          <6>2. p = from(g.pos)
              BY <2>7, <6>1 DEF p
          <6> QED  BY <1>4, <2>5, <3>1, <3>3, <6>1, <6>2
        <5> QED  BY <5>1, <5>2
      <4> HIDE DEF t
      <4>3. Leads(f, file_descriptors'[g.fd], root, sub)
          BY <2>5, <3>1, <4>1, <4>2 DEF Leads
      <4> QED  BY <3>2, <4>3
    <3>4. CASE g.fd # fd
      <4>1. file_descriptors'[g.fd] = t[g.fd] /\ p = g.pos /\ (g.disturbed => f.disturbed)
        <5>1. g # h
            BY <3>4
        <5> QED  BY <1>5, <2>3, <2>5, <3>4, <5>1 DEF p
      <4> HIDE DEF t
      <4>2. Leads(f, file_descriptors'[g.fd], root, sub)
          BY <2>5, <3>1, <4>1 DEF Leads
      <4> QED  BY <3>2, <4>2
    <3> QED  BY <3>3, <3>4
  <2>8. Kept(f, file_descriptors'[f.fd], root, sub, ranOut)
      BY <2>5, <2>6, <2>7 DEF Kept
  <2> QED  BY <2>4, <2>8
<1> HIDE DEF moved
<1>7. ASSUME NEW f \in held'
      PROVE  Kept(f, file_descriptors'[f.fd], root, sub, ranOut)
  <2>1. PICK g \in held : f = moved(g)
      BY <1>3
  <2> QED  BY <1>6, <2>1
<1> QED  BY <1>3, <1>7 DEF LeadInv

\* Every step keeps LeadInv.
LEMMA NextLeads ==
    ASSUME WellFormedNames, Inv, LeadInv, [Next \/ Lost]_vars
    PROVE  LeadInv'
<1>1. CASE UNCHANGED vars
    BY <1>1, LeadSame DEF vars
<1>2. CASE Lost
    BY <1>2, LeadSame DEF Lost, vars
<1>3. CASE disk_search_and_init
    BY <1>3, LeadSame DEF disk_search_and_init, OnDisk, Errors
<1>4. CASE CallRefused
    BY <1>4, LeadSame DEF CallRefused, vars
<1>5. ASSUME NEW call \in Calls, NEW free \in Rooms, fopen(call.path, call.mode, free)
      PROVE  LeadInv'
    BY <1>5, FopenLeads
<1>6. ASSUME NEW h \in held, fclose(h)
      PROVE  LeadInv'
    BY <1>6, FcloseLeads
<1>7. ASSUME NEW h \in held, fread(h)
      PROVE  LeadInv'
  <2>1. CASE Move(h, 1, "SEEK_CUR")
    <3>1. 1 \in Nat /\ file_get_descriptor(h.fd) # NULL
        BY <1>7 DEF fread
    <3> QED  BY <2>1, <3>1, MoveLeads
  <2>2. CASE UNCHANGED vars
      BY <2>2, LeadSame DEF vars
  <2> QED  BY <1>7, <2>1, <2>2 DEF fread
<1>8. ASSUME NEW h \in held, NEW offset \in 0 .. FileSize,
             NEW whence \in {"SEEK_SET", "SEEK_CUR"}, fseek(h, offset, whence)
      PROVE  LeadInv'
  <2>1. offset \in Nat
      BY FilesAssumption
  <2> QED  BY <1>8, <2>1, MoveLeads DEF fseek
<1> QED  BY <1>1, <1>2, <1>3, <1>4, <1>5, <1>6, <1>7, <1>8 DEF Next

-----------------------------------------------------------------------------
(* What deleted slots hide *)

\* istrncmp calls strings equal that are equal in all but case.
LEMMA NoDifference ==
    ASSUME NEW s \in Seq(Nat), NEW t \in Seq(Nat), NEW n \in Nat, Len(s) = Len(t),
           \A i \in 1 .. Len(s) : tolower(s[i]) = tolower(t[i])
    PROVE  istrncmp(s, t, n) = 0
<1> DEFINE u == Append(s, 0)
           v == Append(t, 0)
           k == Min({n, Len(u), Len(v)})
           D == {j \in 1 .. k : tolower(u[j]) # tolower(v[j])}
<1>1. /\ Len(u) = Len(s) + 1 /\ Len(v) = Len(s) + 1 /\ Len(s) \in Nat
      /\ \A i \in 1 .. Len(s) : u[i] = s[i] /\ v[i] = t[i]
      /\ u[Len(s) + 1] = 0 /\ v[Len(s) + 1] = 0
    BY LenProperties, AppendProperties
<1>2. istrncmp(s, t, n) = IF D = {} THEN 0 ELSE u[Min(D)] - v[Min(D)]
    BY DEF istrncmp
<1> HIDE DEF u, v
<1>3. k \in Nat /\ k <= Len(s) + 1
  <2> DEFINE M == {n, Len(u), Len(v)}
  <2>1. M \in SUBSET Nat /\ M # {} /\ Len(u) \in M /\ k = Min(M)
      BY <1>1
  <2> HIDE DEF M, k
  <2>2. Min(M) \in M /\ \A y \in M : Min(M) <= y
      BY <2>1, LeastIs
  <2> QED  BY <1>1, <2>1, <2>2
<1> HIDE DEF k
<1>4. ASSUME NEW j \in 1 .. k
      PROVE  tolower(u[j]) = tolower(v[j])
  <2>1. j \in 1 .. Len(s) \/ j = Len(s) + 1
      BY <1>1, <1>3
  <2> QED  BY <1>1, <2>1
<1> QED  BY <1>2, <1>4

\* A capital is a letter in another case, and neither a space nor a dot unless it was one.
LEMMA CapitalKeeps ==
    ASSUME NEW c \in Nat
    PROVE  /\ tolower(Capital(c)) = tolower(c)
           /\ \A d \in {32, Dot, 229} : Capital(c) = d <=> c = d
BY DEF Capital, tolower, Dot

\* The slot with the bytes of an 8.3 name spells it, in capitals.
LEMMA ShortNameIsSpelled ==
    ASSUME NEW slot \in SlotType, Len(slot.bytes) = NameSize + ExtSize,
           NEW f \in Seq(Nat), NEW l, NEW x, Spelled(f, slot.bytes, l, x),
           NEW name, Asks(name), EightThree(name), slot.bytes = ShortName(name)
    PROVE  Len(f) = Len(name) /\ \A i \in 1 .. Len(f) : tolower(f[i]) = tolower(name[i])
<1> DEFINE b == slot.bytes
           k == Len(name)
           dots == {i \in DOMAIN name : name[i] = Dot}
           base == Min(dots \cup {k + 1}) - 1
           char(i) == IF i \in DOMAIN name THEN Capital(name[i]) ELSE 32
           N == NameSize
           E == ExtSize
<1>1. N \in Nat \ {0} /\ E \in Nat \ {0}
    BY FatOpenAssumption
<1>2. /\ l \in 0 .. N /\ x \in 0 .. E
      /\ Len(f) = IF x = 0 THEN l ELSE l + 1 + x
      /\ \A i \in 1 .. l : f[i] = b[i] /\ b[i] # 32
      /\ \A i \in l + 1 .. N : b[i] = 32
      /\ x # 0 => f[l + 1] = Dot
      /\ \A i \in 1 .. x : f[l + 1 + i] = b[N + i] /\ b[N + i] # 32
      /\ \A i \in x + 1 .. E : b[N + i] = 32
    BY DEF Spelled
<1>3. b = [i \in 1 .. N + E |-> IF i > N THEN char(base + 1 + i - N)
                                ELSE IF i <= base THEN char(i) ELSE 32]
    BY DEF ShortName, Capital
<1>4. k \in Nat /\ DOMAIN name = 1 .. k /\ \A i \in 1 .. k : name[i] \in Nat
    BY LenProperties, ElementOfSeq DEF Asks
<1>5. /\ base <= N /\ k - base \in {0} \cup 2 .. E + 1
      /\ \A i \in 1 .. k : name[i] # 32
    BY <1>4 DEF EightThree
<1> HIDE DEF b, k, N, E
<1>6. base \in 0 .. k /\ (base < k => name[base + 1] = Dot)
  <2> DEFINE M == dots \cup {k + 1}
  <2>1. M \in SUBSET Nat /\ k + 1 \in M /\ base = Min(M) - 1
      BY <1>4
  <2>2. \A j \in M : j >= 1 /\ (j # k + 1 => name[j] = Dot)
      BY <1>4
  <2> HIDE DEF M, base
  <2>3. Min(M) \in M /\ Min(M) <= k + 1
      BY <2>1, LeastIs
  <2>4. Min(M) \in Nat /\ Min(M) >= 1
    <3> DEFINE least == Min(M)
    <3>1. least \in M
        BY <2>3
    <3> HIDE DEF least
    <3>2. least \in Nat /\ least >= 1
        BY <2>1, <2>2, <3>1
    <3> QED  BY <3>2 DEF least
  <2>5. base \in Nat /\ base + 1 = Min(M)
      BY <2>1, <2>4
  <2> QED  BY <1>4, <2>1, <2>2, <2>3, <2>4, <2>5
<1> HIDE DEF base
<1>7. \A j \in 1 .. k : char(j) = Capital(name[j]) /\ char(j) # 32 /\ tolower(char(j)) = tolower(name[j])
    BY <1>4, <1>5, CapitalKeeps
<1>8. \A j \in Nat : j > k => char(j) = 32
    BY <1>4
<1> HIDE DEF char
<1>9. base \in Nat /\ base <= k /\ base <= N /\ l \in Nat /\ x \in Nat /\ l <= N /\ x <= E
    BY <1>1, <1>2, <1>4, <1>5, <1>6
<1>10. ASSUME NEW i \in 1 .. N
       PROVE  b[i] = IF i <= base THEN char(i) ELSE 32
  <2>1. i \in 1 .. N + E /\ ~ (i > N)
      BY <1>1
  <2> QED  BY <1>3, <2>1
<1>11. ASSUME NEW j \in 1 .. E
       PROVE  b[N + j] = char(base + 1 + j)
  <2>1. N + j \in 1 .. N + E /\ N + j > N /\ base + 1 + (N + j) - N = base + 1 + j
      BY <1>1, <1>9
  <2> QED  BY <1>3, <2>1
<1>12. l = base
  <2>1. CASE l < base
    <3>1. l + 1 \in l + 1 .. N /\ l + 1 \in 1 .. N /\ l + 1 <= base /\ l + 1 \in 1 .. k
        BY <1>1, <1>4, <1>9, <2>1
    <3> QED  BY <1>2, <1>7, <1>10, <3>1
  <2>2. CASE base < l
    <3>1. base + 1 \in 1 .. l /\ base + 1 \in 1 .. N /\ ~ (base + 1 <= base)
        BY <1>1, <1>9, <2>2
    <3> QED  BY <1>2, <1>10, <3>1
  <2> QED  BY <1>9, <2>1, <2>2
<1> DEFINE y == IF k = base THEN 0 ELSE k - base - 1
<1>13. /\ y \in 0 .. E /\ (y = 0 <=> k = base) /\ k = IF y = 0 THEN base ELSE base + 1 + y
    BY <1>1, <1>4, <1>5, <1>9
<1> HIDE DEF y
<1>14. ASSUME NEW j \in 1 .. E, j <= y
       PROVE  b[N + j] # 32
  <2>1. base + 1 + j \in 1 .. k
      BY <1>1, <1>9, <1>13, <1>14
  <2> QED  BY <1>7, <1>11, <2>1
<1>15. ASSUME NEW j \in 1 .. E, j > y
       PROVE  b[N + j] = 32
  <2>1. base + 1 + j > k /\ base + 1 + j \in Nat
      BY <1>1, <1>4, <1>9, <1>13, <1>15
  <2> QED  BY <1>8, <1>11, <2>1
<1>16. x = y
  <2>1. CASE x < y
    <3>1. x + 1 \in x + 1 .. E /\ x + 1 \in 1 .. E /\ x + 1 <= y
        BY <1>1, <1>9, <1>13, <2>1
    <3> QED  BY <1>2, <1>14, <3>1
  <2>2. CASE y < x
    <3>1. y + 1 \in 1 .. x /\ y + 1 \in 1 .. E /\ y + 1 > y
        BY <1>1, <1>9, <1>13, <2>2
    <3> QED  BY <1>2, <1>15, <3>1
  <2> QED  BY <1>9, <1>13, <2>1, <2>2
<1>17. Len(f) = k
    BY <1>2, <1>12, <1>13, <1>16
<1>18. ASSUME NEW i \in 1 .. k
       PROVE  tolower(f[i]) = tolower(name[i])
  <2>1. CASE i <= l
    <3>1. i \in 1 .. l /\ i \in 1 .. N /\ i <= base
        BY <1>1, <1>9, <1>12, <2>1
    <3> QED  BY <1>2, <1>7, <1>10, <3>1
  <2>2. CASE i = l + 1
    <3>1. base < k /\ x # 0
        BY <1>4, <1>9, <1>12, <1>13, <1>16, <2>2
    <3> QED  BY <1>2, <1>6, <1>12, <2>2, <3>1
  <2>3. CASE i > l + 1
    <3> DEFINE j == i - l - 1
    <3>1. j \in 1 .. x /\ j \in 1 .. E /\ l + 1 + j = i
        BY <1>1, <1>4, <1>9, <1>12, <1>13, <1>16, <2>3
    <3> HIDE DEF j
    <3>2. f[i] = char(i)
        BY <1>2, <1>11, <1>12, <3>1
    <3> QED  BY <1>7, <3>2
  <2>4. i <= l \/ i = l + 1 \/ i > l + 1
      BY <1>4, <1>9
  <2> QED  BY <2>1, <2>2, <2>3, <2>4
<1> QED  BY <1>17, <1>18 DEF k

\* What the search takes for the slot of an 8.3 name is the slot with its bytes, and
\* that is not deleted.
LEMMA NameIsMatch ==
    ASSUME NEW slot \in SlotType, Fits(slot), NEW name, Asks(name), EightThree(name),
           slot.bytes = ShortName(name)
    PROVE  Matches(slot, name) /\ ~ Deleted(slot)
<1> DEFINE k == Len(name)
           dots == {i \in DOMAIN name : name[i] = Dot}
           base == Min(dots \cup {k + 1}) - 1
           char(i) == IF i \in DOMAIN name THEN Capital(name[i]) ELSE 32
<1>1. name \in Seq(Nat) /\ k \in Nat \ {0} /\ DOMAIN name = 1 .. k /\ name[1] \in Nat /\ name[1] # Dot
    BY LenProperties, ElementOfSeq, EmptySeq DEF Asks
<1>2. slot.bytes = [i \in 1 .. NameSize + ExtSize |->
                        IF i > NameSize THEN char(base + 1 + i - NameSize)
                        ELSE IF i <= base THEN char(i) ELSE 32]
    BY DEF ShortName, Capital
<1>3. NameSize \in Nat \ {0} /\ ExtSize \in Nat \ {0} /\ MaxPath \in Nat
    BY FatOpenAssumption
<1>4. 1 <= base
  <2> DEFINE M == dots \cup {k + 1}
  <2>1. M \in SUBSET Nat /\ M # {} /\ base = Min(M) - 1 /\ \A j \in M : j >= 2
      BY <1>1
  <2> DEFINE least == Min(M)
  <2> HIDE DEF M, base
  <2>2. least \in M
      BY <2>1, LeastIs
  <2> HIDE DEF least
  <2>3. least \in Nat /\ least >= 2
      BY <2>1, <2>2
  <2>4. base = least - 1
      BY <2>1 DEF least
  <2> QED  BY <2>3, <2>4
<1> HIDE DEF base
<1>5. slot.bytes[1] = Capital(name[1])
  <2>1. 1 \in 1 .. NameSize + ExtSize /\ ~ (1 > NameSize) /\ 1 \in DOMAIN name
      BY <1>1, <1>3
  <2> QED  BY <1>2, <1>4, <2>1
<1>6. slot.bytes[1] # Dot /\ slot.bytes[1] # 229
  <2>1. name[1] # 229
      BY DEF EightThree
  <2> QED  BY <1>1, <1>5, <2>1, CapitalKeeps
<1>7. Len(slot.bytes) = NameSize + ExtSize /\ ShortNamed(slot)
    BY <1>6 DEF Fits
<1> DEFINE f == fat16_get_full_relative_filename(slot)
<1>8. f \in Seq(Nat) /\ \E l, x : Spelled(f, slot.bytes, l, x)
    BY <1>7, FullName
<1> HIDE DEF f
<1>9. Len(f) = Len(name) /\ \A i \in 1 .. Len(f) : tolower(f[i]) = tolower(name[i])
  <2>1. PICK l, x : Spelled(f, slot.bytes, l, x)
      BY <1>8
  <2> QED  BY <1>7, <1>8, <2>1, ShortNameIsSpelled
<1>10. istrncmp(f, name, MaxPath) = 0
    BY <1>1, <1>3, <1>8, <1>9, NoDifference
<1> QED  BY <1>6, <1>10 DEF f, Matches, Deleted

\* With a block free there is an item.
LEMMA SomeItem ==
    ASSUME NEW m \in MemType, m.free > 0, NEW slot \in SlotType
    PROVE  fat16_new_fat_item_for_directory_item(m, slot).item # NULL
<1>1. m.free \in Nat
    BY MemFields
<1>2. \A b \in {"whole", "null", "freed"} : Item(slot, b) # NULL
    BY ItemFields
<1> HIDE DEF SlotType, MemType
<1>3. CASE m.free = 1
    BY <1>2, <1>3 DEF fat16_new_fat_item_for_directory_item
<1>4. CASE m.free > 1 /\ TypeOf(slot) = "file"
    BY <1>1, <1>2, <1>4 DEF fat16_new_fat_item_for_directory_item
<1>5. CASE m.free = 2 /\ TypeOf(slot) = "directory"
    BY <1>2, <1>5 DEF fat16_new_fat_item_for_directory_item
<1>6. CASE m.free > 2 /\ TypeOf(slot) # "file"
    BY <1>1, <1>2, <1>6 DEF fat16_new_fat_item_for_directory_item
<1> QED  BY <1>1, <1>3, <1>4, <1>5, <1>6 DEF TypeOf

\* The search finds the only slot of a name, unless it is behind as many slots as
\* there are items.
LEMMA FoundIfWithin ==
    ASSUME NEW m \in MemType, m.free > 0, NEW slots, Fitting(slots), NEW name, Asks(name),
           EightThree(name), NEW i \in 1 .. Len(slots), slots[i].bytes = ShortName(name),
           \A j \in 1 .. Len(slots) : j # i => slots[j].bytes # slots[i].bytes
    PROVE  fat16_find_item_in_directory(m, slots, name).item = NULL
                <=> i > fat16_get_total_items_for_directory(slots)
<1> DEFINE n == fat16_get_total_items_for_directory(slots)
<1>1. /\ slots \in Seq(SlotType) /\ Len(slots) \in Nat
      /\ \A j \in 1 .. Len(slots) : slots[j] \in SlotType /\ Fits(slots[j])
  <2> HIDE DEF SlotType
  <2> QED  BY LenProperties, ElementOfSeq DEF Fitting
<1>2. n \in Nat /\ n <= Len(slots)
    BY <1>1, FoundLoop
<1>3. PICK h : /\ h[0] = [m |-> m, item |-> NULL]
               /\ \A j \in 1 .. n : h[j] = LookAt(h[j - 1], slots[j], name)
               /\ fat16_find_item_in_directory(m, slots, name) = h[n]
  <2> HIDE DEF SlotType
  <2> QED  BY <1>1, FoundLoop
<1> DEFINE P == {j \in 0 .. n : IF j < i THEN h[j] = [m |-> m, item |-> NULL] ELSE h[j].item # NULL}
<1> HIDE DEF n, SlotType
<1>4. Matches(slots[i], name)
    BY <1>1, NameIsMatch
<1>5. \A j \in 1 .. n : j # i => ~ Matches(slots[j], name)
  <2>1. \A j \in 1 .. n : j \in 1 .. Len(slots)
      BY <1>1, <1>2
  <2> QED  BY <1>1, <2>1, MatchIsName
<1>6. 0 \in P
    BY <1>2, <1>3
<1>7. ASSUME NEW j \in 1 .. n, j - 1 \in P
      PROVE  j \in P
  <2>1. j \in 0 .. n /\ j \in Nat /\ h[j] = LookAt(h[j - 1], slots[j], name)
      BY <1>2, <1>3
  <2>2. CASE j = i
    <3>1. h[j - 1] = [m |-> m, item |-> NULL]
        BY <1>7, <2>2
    <3>2. h[j] = fat16_new_fat_item_for_directory_item(m, slots[i])
        BY <1>4, <2>1, <2>2, <3>1 DEF LookAt, Matches
    <3>3. h[j].item # NULL
        BY <1>1, <3>2, SomeItem
    <3> QED  BY <2>1, <2>2, <3>3
  <2>3. CASE j # i
    <3>1. h[j] = h[j - 1]
        BY <1>5, <2>1, <2>3 DEF LookAt, Matches
    <3>2. j < i <=> j - 1 < i
        BY <2>3
    <3> QED  BY <1>7, <2>1, <3>1, <3>2
  <2> QED  BY <2>2, <2>3
<1>8. n \in P
  <2> HIDE DEF P
  <2>1. 0 .. n \subseteq P
      BY <1>2, <1>6, <1>7, UpTo
  <2> QED  BY <1>2, <2>1
<1> QED  BY <1>2, <1>3, <1>8 DEF n

\* A slot in use is behind as many slots as there are items exactly if more deleted
\* slots come before it than items after it.
LEMMA HiddenCount ==
    ASSUME NEW slots \in Seq(SlotType), NEW i \in 1 .. Len(slots), ~ Deleted(slots[i])
    PROVE  i > fat16_get_total_items_for_directory(slots)
                <=> Cardinality({j \in 1 .. i - 1 : Deleted(slots[j])})
                        > Cardinality({j \in i + 1 .. Len(slots) : ~ Deleted(slots[j])})
<1> DEFINE k == Len(slots)
           gone == {j \in 1 .. i - 1 : Deleted(slots[j])}
           before == {j \in 1 .. i - 1 : ~ Deleted(slots[j])}
           after == {j \in i + 1 .. k : ~ Deleted(slots[j])}
           items == {j \in 1 .. k : ~ Deleted(slots[j])}
<1>1. k \in Nat /\ DOMAIN slots = 1 .. k /\ i \in 1 .. k /\ ~ Deleted(slots[i])
  <2> HIDE DEF SlotType
  <2> QED  BY LenProperties
<1>2. fat16_get_total_items_for_directory(slots) = Cardinality(items)
    BY <1>1 DEF fat16_get_total_items_for_directory
<1> HIDE DEF k
<1>3. IsFiniteSet(1 .. i - 1) /\ Cardinality(1 .. i - 1) = i - 1 /\ IsFiniteSet(i + 1 .. k)
  <2>1. 1 \in Int /\ i - 1 \in Int /\ i + 1 \in Int /\ k \in Int
      BY <1>1
  <2>2. Cardinality(1 .. i - 1) = IF 1 > i - 1 THEN 0 ELSE (i - 1) - 1 + 1
      BY <2>1, FS_Interval
  <2>3. Cardinality(1 .. i - 1) = i - 1
      BY <1>1, <2>2
  <2> QED  BY <2>1, <2>3, FS_Interval
<1>4. IsFiniteSet(gone) /\ IsFiniteSet(before) /\ IsFiniteSet(after)
  <2>1. gone \in SUBSET (1 .. i - 1) /\ before \in SUBSET (1 .. i - 1) /\ after \in SUBSET (i + 1 .. k)
      OBVIOUS
  <2> HIDE DEF gone, before, after
  <2> QED  BY <1>3, <2>1, FS_Subset
<1>5. /\ gone \cup before = 1 .. i - 1 /\ gone \cap before = {}
      /\ i \notin before /\ (before \cup {i}) \cap after = {} /\ (before \cup {i}) \cup after = items
    BY <1>1
<1> HIDE DEF gone, before, after, items
<1>6. /\ Cardinality(gone) \in Nat /\ Cardinality(before) \in Nat /\ Cardinality(after) \in Nat
      /\ Cardinality({}) = 0
    BY <1>4, FS_CardinalityType, FS_EmptySet
<1>7. i - 1 = Cardinality(gone) + Cardinality(before)
  <2>1. Cardinality(gone \cup before)
            = Cardinality(gone) + Cardinality(before) - Cardinality(gone \cap before)
      BY <1>4, FS_Union
  <2>2. /\ Cardinality(gone \cup before) = Cardinality(1 .. i - 1)
        /\ Cardinality(gone \cap before) = Cardinality({})
      BY <1>5, Zenon
  <2> QED  BY <1>3, <1>6, <2>1, <2>2
<1>8. Cardinality(items) = Cardinality(before) + 1 + Cardinality(after)
  <2> DEFINE upto == before \cup {i}
  <2>1. IsFiniteSet(upto) /\ Cardinality(upto) = Cardinality(before) + 1
      BY <1>4, <1>5, FS_AddElement
  <2>2. upto \cap after = {} /\ upto \cup after = items
      BY <1>5
  <2> HIDE DEF upto
  <2>3. Cardinality(upto \cup after) = Cardinality(upto) + Cardinality(after) - Cardinality(upto \cap after)
      BY <1>4, <2>1, FS_Union
  <2>4. Cardinality(upto \cup after) = Cardinality(items) /\ Cardinality(upto \cap after) = Cardinality({})
      BY <2>2, Zenon
  <2> QED  BY <1>6, <2>1, <2>3, <2>4
<1> QED  BY <1>1, <1>2, <1>6, <1>7, <1>8 DEF gone, after, k

\* fat16_open of a path of one part, with memory for it, is a search of the root.
LEMMA OpenInRoot ==
    ASSUME NEW m \in MemType, ~ m.wild, m.free > 1, NEW rt \in Seq(SlotType), NEW sb \in Seq(SlotType),
           NEW parts \in Strings, Len(parts) = 1
    PROVE  LET descriptor == kzalloc(m, "private")
           IN  /\ descriptor \in MemType /\ descriptor.free > 0
               /\ fat16_open(m, rt, sb, parts, "r").item = NULL
                    <=> fat16_find_item_in_directory(descriptor, rt, parts[1]).item = NULL
<1> DEFINE descriptor == kzalloc(m, "private")
           found == fat16_get_directory_entry(descriptor, rt, sb, parts)
           r == fat16_open(m, rt, sb, parts, "r")
<1>1. /\ m.free \in Nat /\ descriptor \in MemType /\ ~ descriptor.wild /\ descriptor.free > 0
  <2>1. "private" \in Kinds
      BY DEF Kinds
  <2> QED  BY <2>1, MemFields, KzallocFields
<1>2. /\ found \in SearchType
      /\ found = fat16_find_item_in_directory(descriptor, rt, parts[1])
  <2> HIDE DEF descriptor, SlotType
  <2>1. parts # <<>> /\ Len(parts) - 1 = 0
    <3>1. Len(<<>>) = 0 /\ Len(parts) = 1 /\ 0 # 1
        OBVIOUS
    <3>2. parts # <<>>
        BY <3>1, Zenon
    <3> QED  BY <3>1, <3>2
  <2>2. found \in Entering(descriptor)
      BY <1>1, <2>1, Entered
  <2>3. PICK h : /\ h[0] = fat16_find_item_in_directory(descriptor, rt, parts[1])
                 /\ fat16_get_directory_entry(descriptor, rt, sb, parts) = h[Len(parts) - 1]
      BY <1>1, <2>1, EnteredLoop
  <2> QED  BY <2>1, <2>2, <2>3 DEF Entering
<1>3. r.item = NULL <=> found.item = NULL
  <2>1. CASE found.item = NULL
    <3>1. r = [found EXCEPT !.m = kfree(found.m, "private", 1)]
        BY <1>1, <2>1 DEF fat16_open
    <3> HIDE DEF r, found
    <3> QED  BY <1>2, <2>1, <3>1 DEF SearchType
  <2>2. CASE found.item # NULL
      BY <1>1, <2>2 DEF fat16_open
  <2> QED  BY <2>1, <2>2
<1> QED  BY <1>1, <1>2, <1>3

-----------------------------------------------------------------------------
(* The theorems *)

\* The invariant holds in every state.
LEMMA Invariance ==
    Spec => []Inv
<1>1. Init => Inv
    BY InitInv
<1>2. Inv /\ [Next \/ Lost]_vars => Inv'
    BY NextInv
<1> QED  BY <1>1, <1>2, PTL DEF Spec

\* disk.c:41.  Whatever is on the disk, a mounted disk has its private data.
THEOREM MountedDisk == Spec => []MountedIsWhole
<1>1. Inv => MountedIsWhole
    BY DEF Inv
<1> QED  BY <1>1, Invariance, PTL

\* file.c:55-72.  However files are opened, closed and run out of memory, a number
\* of the table belongs to one caller, unless its descriptor was lost.
THEOREM OneHolder == Spec => []HeldByOne
<1>1. Inv => HeldByOne
    BY DEF Inv
<1> QED  BY <1>1, Invariance, PTL

\* file.c:136-251, fat16.c:488-630, pparser.c:32-87.  For every disk, every path and
\* every number of free blocks: the blocks of the file layer are those of the
\* open files and those that it lost.
THEOREM FileBlocks == Spec => []BlocksAccounted
<1>1. Inv => BlocksAccounted
    BY DEF Inv
<1> QED  BY <1>1, Invariance, PTL

\* heap.c:166, fat16.c:517-556.  Nothing below the block table is freed, and no
\* descriptor leads to half an item, before an allocation has failed.
THEOREM WholeItems == Spec => []WholeWhileMemoryLasts
<1>1. Inv => WholeWhileMemoryLasts
    BY DEF Inv
<1> QED  BY <1>1, Invariance, PTL

\* file.c:55-87, pparser.c:32-74, fat16.c:301-330, 581-630, 696-757.  On a disk with
\* well-formed names, of any size, a descriptor leads to the slot its caller asked for
\* and is where the caller's own calls moved it, whatever the others open, move and
\* close; only once an allocation has failed can another's call take or move it.
THEOREM DescriptorsLead == WellFormedNames => (Spec => []HeldDescriptorsLead)
<1> SUFFICES ASSUME WellFormedNames
             PROVE  Spec => []HeldDescriptorsLead
    OBVIOUS
<1>1. Init => LeadInv
    BY DEF Init, LeadInv
<1>2. Inv /\ LeadInv /\ [Next \/ Lost]_vars => LeadInv'
    BY NextLeads
<1>3. Inv /\ LeadInv => HeldDescriptorsLead
    BY LeadInvLeads
<1> QED  BY <1>1, <1>2, <1>3, Invariance, PTL DEF Spec

\* fat16.c:158-203, 301-330, 581-596.  On a disk with well-formed names, of any size,
\* an item is found by its 8.3 name exactly if no more deleted slots come before it
\* than items after it.
THEOREM DeletedSlotsHide == WellFormedNames /\ PlainNames => (Spec => []HiddenByDeletedSlots)
<1> SUFFICES ASSUME WellFormedNames, PlainNames
             PROVE  Spec => []HiddenByDeletedSlots
    OBVIOUS
<1>1. Init => LeadInv
    BY DEF Init, LeadInv
<1>2. LeadInv => HiddenByDeletedSlots
  <2> SUFFICES ASSUME LeadInv
               PROVE  HiddenByDeletedSlots
      OBVIOUS
  <2>1. root \in Roots /\ sub \in Subs
      BY DEF LeadInv
  <2> DEFINE m == Memory(Max(Rooms), NoBlocks)
  <2> SUFFICES ASSUME NEW i \in DOMAIN root, NEW call \in Calls,
                      Len(Asked(call.path)) = 1, ShortName(Asked(call.path)[1]) = root[i].bytes,
                      \A j \in DOMAIN root : j # i => root[j].bytes # root[i].bytes
               PROVE  fat16_open(m, root, sub, Asked(call.path), "r").item = NULL
                        <=> Cardinality({j \in 1 .. i - 1 : Deleted(root[j])})
                                > Cardinality({j \in i + 1 .. Len(root) : ~ Deleted(root[j])})
      BY DEF HiddenByDeletedSlots
  <2> DEFINE parts == Asked(call.path)
             name == parts[1]
  <2>2. Fitting(root) /\ Fitting(sub)
      BY <2>1, FittingDirectories
  <2>3. /\ root \in Seq(SlotType) /\ sub \in Seq(SlotType) /\ DOMAIN root = 1 .. Len(root)
        /\ \A j \in 1 .. Len(root) : root[j] \in SlotType /\ Fits(root[j])
    <3> HIDE DEF SlotType
    <3> QED  BY <2>2, LenProperties, ElementOfSeq DEF Fitting
  <2>4. m \in MemType /\ ~ m.wild /\ m.free > 1
    <3>1. Max(Rooms) \in Nat /\ Max(Rooms) >= 2
      <4>1. PICK free \in Rooms : free >= 2 /\ \A other \in Rooms : free >= other
          BY DEF PlainNames
      <4>2. Max(Rooms) \in Rooms /\ \A other \in Rooms : Max(Rooms) >= other
          BY <4>1 DEF Max
      <4>3. free \in Nat /\ Max(Rooms) \in Nat /\ Max(Rooms) >= free
          BY <4>1, <4>2, FilesAssumption
      <4> QED  BY <4>1, <4>3
    <3>2. NoBlocks \in Counts
        BY DEF NoBlocks, Counts
    <3> QED  BY <3>1, <3>2 DEF Memory, MemType
  <2>5. parts \in Strings /\ Len(parts) = 1 /\ DOMAIN parts = 1 .. 1 /\ Asks(name)
    <3>1. call.path \in Seq(Nat)
        BY FilesAssumption
    <3>2. PICK e \in Nat : Parts(parts, PathParts(call.path), e)
        BY <3>1, AskedIs
    <3>3. Parts(parts, parts, 1) /\ 1 \in 0 .. Len(parts)
        BY <3>2 DEF Parts
    <3>4. \A j \in 1 .. Len(parts) : Asks(parts[j])
        BY <3>3, PartsAsked
    <3> QED  BY <3>2, <3>4, LenProperties DEF Parts, Strings
  <2>6. EightThree(name)
      BY <2>5 DEF PlainNames
  <2> HIDE DEF m, parts, SlotType
  <2> DEFINE descriptor == kzalloc(m, "private")
  <2>7. /\ descriptor \in MemType /\ descriptor.free > 0
        /\ fat16_open(m, root, sub, parts, "r").item = NULL
              <=> fat16_find_item_in_directory(descriptor, root, name).item = NULL
      BY <2>3, <2>4, <2>5, OpenInRoot
  <2> HIDE DEF descriptor
  <2>8. fat16_find_item_in_directory(descriptor, root, name).item = NULL
            <=> i > fat16_get_total_items_for_directory(root)
    <3>1. root[i].bytes = ShortName(name)
        BY DEF parts
    <3> HIDE DEF name
    <3> QED  BY <2>2, <2>3, <2>5, <2>6, <2>7, <3>1, FoundIfWithin
  <2>9. ~ Deleted(root[i])
    <3>1. root[i].bytes = ShortName(name)
        BY DEF parts
    <3> HIDE DEF name
    <3> QED  BY <2>3, <2>5, <2>6, <3>1, NameIsMatch
  <2> QED  BY <2>3, <2>7, <2>8, <2>9, HiddenCount DEF parts
<1>3. Inv /\ LeadInv /\ [Next \/ Lost]_vars => LeadInv'
    BY NextLeads
<1> QED  BY <1>1, <1>2, <1>3, Invariance, PTL DEF Spec
=============================================================================
