---------------------------- MODULE LoaderProofs ----------------------------
(***************************************************************************)
(* A load leaves every other program and file alone, and what it returns   *)
(* is whole, for every pool, table size and program.  The allocations of a *)
(* load are followed one by one: the blocks that each takes were free, and *)
(* stay apart from all that is taken before and after it.                  *)
(***************************************************************************)
EXTENDS Loader, FiniteSetTheorems, WellFoundedInduction, TLAPS

(* Arithmetic *)

\* A product of sizes is a size.
LEMMA Positive ==
    ASSUME NEW a \in Nat \ {0}, NEW b \in Nat \ {0}
    PROVE  a * b \in Nat \ {0} /\ a * b = b * a
  OBVIOUS

\* Products keep the order.
LEMMA AtLeast ==
    ASSUME NEW a \in Nat, NEW b \in Int, NEW c \in Int, b <= c
    PROVE  a * b <= a * c /\ a * b \in Int /\ a * c \in Int
  OBVIOUS

\* Quotient and remainder are the only numbers of their kind.
LEMMA DivMod ==
    ASSUME NEW b \in Nat \ {0}, NEW q \in Int, NEW r \in 0 .. b - 1, NEW a \in Int,
           a = b * q + r
    PROVE  a \div b = q /\ a % b = r
<1> DEFINE q1 == a \div b
           r1 == a % b
<1>1. q1 \in Int /\ r1 \in 0 .. b - 1 /\ a = b * q1 + r1
    OBVIOUS
<1> HIDE DEF q1, r1
<1>2. CASE q < q1
  <2>1. b * (q + 1) <= b * q1
      BY <1>1, <1>2, AtLeast
  <2>2. b * (q + 1) = b * q + b
      OBVIOUS
  <2> QED  BY <1>1, <2>1, <2>2
<1>3. CASE q1 < q
  <2>1. b * (q1 + 1) <= b * q
      BY <1>1, <1>3, AtLeast
  <2>2. b * (q1 + 1) = b * q1 + b
      BY <1>1
  <2> QED  BY <1>1, <2>1, <2>2
<1>4. CASE q = q1
    BY <1>1, <1>4 DEF q1, r1
<1> QED  BY <1>1, <1>2, <1>3, <1>4

\* The sizes of paging.h as numbers.
LEMMA SpaceSizes ==
    /\ N \in Nat \ {0} /\ PageSize \in Nat \ {0}
    /\ N * N \in Nat \ {0} /\ N * PageSize \in Nat \ {0}
    /\ Space \in Nat \ {0} /\ Space = (N * N) * PageSize
    /\ Page = 0 .. N * N - 1 /\ Index = 0 .. N - 1
<1>1. N \in Nat \ {0} /\ PageSize \in Nat \ {0}
    BY PageTablesAssumption
<1>2. N * N \in Nat \ {0} /\ N * PageSize \in Nat \ {0}
    BY <1>1, Positive
<1>3. (N * N) * PageSize \in Nat \ {0}
    BY <1>1, <1>2, Positive
<1>4. N * N * PageSize = (N * N) * PageSize
    OBVIOUS
<1> QED  BY <1>1, <1>2, <1>3, <1>4 DEF Space, Page, Index

\* A page is a table and a place in it.
LEMMA PageParts ==
    ASSUME NEW p \in Page
    PROVE  p \div N \in Index /\ p % N \in Index /\ p = N * (p \div N) + (p % N)
<1>1. N \in Nat \ {0} /\ p \in Nat /\ p < N * N /\ N * N \in Nat
    BY SpaceSizes
<1> DEFINE q == p \div N
           r == p % N
<1>2. q \in Int /\ r \in 0 .. N - 1 /\ p = N * q + r
    BY <1>1
<1> HIDE DEF q, r
<1>3. q < N
  <2> SUFFICES ASSUME N <= q PROVE FALSE
      BY <1>1, <1>2
  <2>1. N * N <= N * q
      BY <1>1, <1>2, AtLeast
  <2> QED  BY <1>1, <1>2, <2>1
<1>4. q >= 0
  <2> SUFFICES ASSUME q <= -1 PROVE FALSE
      BY <1>2
  <2>1. N * q <= N * (-1) /\ N * q \in Int
      BY <1>1, <1>2, AtLeast
  <2>2. N * (-1) = -N
      BY <1>1
  <2> QED  BY <1>1, <1>2, <2>1, <2>2
<1> QED  BY <1>1, <1>2, <1>3, <1>4, SpaceSizes DEF q, r

\* The index computation on the address of a page.
LEMMA PageIndexes ==
    ASSUME NEW p \in Page
    PROVE  /\ paging_get_indexes(p * PageSize).directory = p \div N
           /\ paging_get_indexes(p * PageSize).table = p % N
<1> DEFINE q == p \div N
           r == p % N
           a == p * PageSize
           B == N * PageSize
<1>1. /\ N \in Nat \ {0} /\ PageSize \in Nat \ {0} /\ B \in Nat \ {0} /\ p \in Nat
    BY SpaceSizes
<1>2. q \in 0 .. N - 1 /\ r \in 0 .. N - 1 /\ p = N * q + r
    BY PageParts, SpaceSizes
<1> HIDE DEF q, r
<1>3. a \in Int /\ r * PageSize \in Int
    BY <1>1, <1>2
<1>4. (N * q + r) * PageSize = (N * PageSize) * q + r * PageSize
    BY <1>1, <1>2
<1>5. a = B * q + r * PageSize
    BY <1>2, <1>4
<1>6. 0 <= r * PageSize
    BY <1>1, <1>2
<1>7. r * PageSize < B
  <2>1. PageSize * (r + 1) <= PageSize * N
      BY <1>1, <1>2, AtLeast
  <2>2. PageSize * (r + 1) = r * PageSize + PageSize
      BY <1>1, <1>2
  <2>3. PageSize * N = B
      BY <1>1
  <2> QED  BY <1>1, <1>3, <2>1, <2>2, <2>3
<1>8. r * PageSize \in 0 .. B - 1
    BY <1>1, <1>3, <1>6, <1>7
<1> HIDE DEF a, B
<1>9. a \div B = q /\ a % B = r * PageSize
  <2> DEFINE t == r * PageSize
  <2>1. B \in Nat \ {0} /\ q \in Int /\ t \in 0 .. B - 1 /\ a \in Int /\ a = B * q + t
      BY <1>1, <1>2, <1>3, <1>5, <1>8
  <2> HIDE DEF t
  <2>2. a \div B = q /\ a % B = t
      BY <2>1, DivMod
  <2> QED  BY <2>2 DEF t
<1>10. (r * PageSize) \div PageSize = r
  <2>1. r * PageSize = PageSize * r + 0 /\ 0 \in 0 .. PageSize - 1
      BY <1>1, <1>2
  <2> QED  BY <1>1, <1>2, <1>3, <2>1, DivMod
<1> QED  BY <1>9, <1>10 DEF paging_get_indexes, a, B, q, r

\* Addresses wrap as pages do.
LEMMA WrapPage ==
    ASSUME NEW v \in Page, NEW i \in Nat
    PROVE  /\ (v * PageSize + i * PageSize) % Space = ((v + i) % (N * N)) * PageSize
           /\ (v + i) % (N * N) \in Page
<1> DEFINE M == N * N
           q == (v + i) \div M
           r == (v + i) % M
           t == r * PageSize
           a == v * PageSize + i * PageSize
<1>1. M \in Nat \ {0} /\ PageSize \in Nat \ {0} /\ Space \in Nat \ {0} /\ Space = M * PageSize
      /\ v \in Nat /\ Page = 0 .. M - 1
    BY SpaceSizes
<1> HIDE DEF M
<1>2. q \in Int /\ r \in 0 .. M - 1 /\ v + i = M * q + r
    BY <1>1
<1> HIDE DEF q, r
<1>3. a \in Int /\ a = (v + i) * PageSize
    BY <1>1
<1>4. (M * q + r) * PageSize = (M * PageSize) * q + r * PageSize
    BY <1>1, <1>2
<1>5. t \in Int /\ 0 <= t
    BY <1>1, <1>2
<1>6. t < Space
  <2>1. PageSize * (r + 1) <= PageSize * M
      BY <1>1, <1>2, AtLeast
  <2>2. PageSize * (r + 1) = r * PageSize + PageSize /\ PageSize * M = M * PageSize
      BY <1>1, <1>2
  <2> QED  BY <1>1, <1>5, <2>1, <2>2
<1>7. a = Space * q + t
    BY <1>1, <1>2, <1>3, <1>4
<1> HIDE DEF a, t
<1>8. t \in 0 .. Space - 1
    BY <1>1, <1>5, <1>6
<1>9. a % Space = t
  <2>1. Space \in Nat \ {0} /\ q \in Int /\ a \in Int
      BY <1>1, <1>2, <1>3
  <2> QED  BY ONLY <1>7, <1>8, <2>1, DivMod
<1> QED  BY <1>1, <1>2, <1>9 DEF a, t, r, M

\* The i-th page of a range that starts at v is p exactly if p is i pages behind v.
LEMMA PageBehind ==
    ASSUME NEW M \in Nat \ {0}, NEW v \in 0 .. M - 1, NEW p \in 0 .. M - 1, NEW i \in 0 .. M - 1
    PROVE  /\ (v + i) % M = p <=> (p - v) % M = i
           /\ (p - v) % M \in 0 .. M - 1
<1>1. (v + i) % M = IF v + i < M THEN v + i ELSE v + i - M
  <2>1. CASE v + i < M
      BY <2>1
  <2>2. CASE ~ (v + i < M)
    <3>1. v + i = M * 1 + (v + i - M) /\ v + i - M \in 0 .. M - 1
        BY <2>2
    <3> QED  BY <2>2, <3>1, DivMod
  <2> QED  BY <2>1, <2>2
<1>2. (p - v) % M = IF p - v >= 0 THEN p - v ELSE p - v + M
  <2>1. CASE p - v >= 0
      BY <2>1
  <2>2. CASE ~ (p - v >= 0)
    <3>1. p - v = M * (-1) + (p - v + M) /\ p - v + M \in 0 .. M - 1
        BY <2>2
    <3> QED  BY <2>2, <3>1, DivMod
  <2> QED  BY <2>1, <2>2
<1> QED  BY <1>1, <1>2

\* A set of numbers has a least one.
LEMMA LeastNumber ==
    ASSUME NEW S, S \subseteq Nat, S # {}
    PROVE  \E x \in S : \A y \in S : x <= y
<1> DEFINE R == OpToRel(<, Nat)
<1>1. IsWellFoundedOn(R, Nat)
    BY NatLessThanWellFounded
<1>2. PICK x \in S : \A y \in S : ~ (<<y, x>> \in R)
  <2> HIDE DEF R
  <2> QED  BY <1>1, WFMin
<1>3. \A y \in S : x <= y
  <2>1. SUFFICES ASSUME NEW y \in S, y < x PROVE FALSE
      OBVIOUS
  <2>2. <<y, x>> \in R
      BY <2>1 DEF OpToRel
  <2> QED  BY <1>2, <2>2
<1> QED  BY <1>3

\* Induction up to n, on a set instead of a predicate.
LEMMA UpTo ==
    ASSUME NEW n \in Nat, NEW P, 0 \in P, \A i \in 1 .. n : i - 1 \in P => i \in P
    PROVE  0 .. n \subseteq P
<1> DEFINE S == {i \in 0 .. n : i \notin P}
<1>1. ASSUME S # {}
      PROVE  FALSE
  <2>1. S \subseteq Nat
      OBVIOUS
  <2>2. PICK x \in S : \A y \in S : x <= y
    <3> HIDE DEF S
    <3> QED  BY <1>1, <2>1, LeastNumber
  <2>3. x \in 1 .. n /\ x - 1 \in 0 .. n /\ ~ (x <= x - 1)
      OBVIOUS
  <2>4. x - 1 \in P
      BY <2>2, <2>3
  <2> QED  BY <2>3, <2>4
<1> QED  BY <1>1

-----------------------------------------------------------------------------
(* Mapping a range of pages *)

FlagSets == {{}, UserPage, UserData}
Words == [base : Int, flags : FlagSets]
Cells == Block \cup {NULL}
MemType == [Cells -> [Index -> Words]]

\* d is a directory with tables of its own in m.
Directory(m, d) ==
    /\ d \in Cells
    /\ \A i \in Index : m[d][i].base \in Cells /\ m[d][i].base # d
    /\ \A i, j \in Index : m[d][i].base = m[d][j].base => i = j

\* paging_set changes the word of its page and no other.
LEMMA SetPage ==
    ASSUME NEW m \in MemType, NEW d, Directory(m, d), NEW p0 \in Page, NEW val \in Words
    PROVE  LET n == paging_set(m, d, p0 * PageSize, val)
           IN  /\ n \in MemType
               /\ \A x \in Cells : (\A j \in Index : x # m[d][j].base) => n[x] = m[x]
               /\ \A p \in Page : paging_get(n, d, p * PageSize)
                        = IF p = p0 THEN val ELSE paging_get(m, d, p * PageSize)
<1> DEFINE n == paging_set(m, d, p0 * PageSize, val)
           t0 == m[d][p0 \div N].base
<1>1. p0 \div N \in Index /\ p0 % N \in Index /\ p0 = N * (p0 \div N) + (p0 % N)
    BY PageParts
<1>2. /\ paging_get_indexes(p0 * PageSize).directory = p0 \div N
      /\ paging_get_indexes(p0 * PageSize).table = p0 % N
    BY PageIndexes
<1>3. n = [m EXCEPT ![t0][p0 % N] = val]
    BY <1>2 DEF paging_set
<1>4. d \in Cells /\ t0 \in Cells /\ t0 # d
    BY <1>1 DEF Directory
<1> HIDE DEF n, t0
<1>5. /\ n \in MemType
      /\ \A x \in Cells : x # t0 => n[x] = m[x]
      /\ \A j \in Index : n[t0][j] = IF j = p0 % N THEN val ELSE m[t0][j]
    BY <1>1, <1>3, <1>4 DEF MemType
<1>6. \A x \in Cells : (\A j \in Index : x # m[d][j].base) => n[x] = m[x]
    BY <1>1, <1>5 DEF t0
<1>7. ASSUME NEW p \in Page
      PROVE  paging_get(n, d, p * PageSize)
                = IF p = p0 THEN val ELSE paging_get(m, d, p * PageSize)
  <2> DEFINE t == m[d][p \div N].base
  <2>1. p \div N \in Index /\ p % N \in Index /\ p = N * (p \div N) + (p % N)
      BY PageParts
  <2>2. /\ paging_get_indexes(p * PageSize).directory = p \div N
        /\ paging_get_indexes(p * PageSize).table = p % N
      BY PageIndexes
  <2>3. paging_get(m, d, p * PageSize) = m[t][p % N]
      BY <2>2 DEF paging_get
  <2>4. paging_get(n, d, p * PageSize) = n[n[d][p \div N].base][p % N]
      BY <2>2 DEF paging_get
  <2>5. n[d] = m[d]
      BY <1>4, <1>5
  <2>6. paging_get(n, d, p * PageSize) = n[t][p % N]
      BY <2>4, <2>5
  <2>7. t \in Cells
      BY <2>1 DEF Directory
  <2>8. CASE p = p0
      BY <1>5, <2>1, <2>6, <2>8 DEF t0
  <2>9. CASE p # p0
    <3>1. p \div N # p0 \div N \/ p % N # p0 % N
        BY <1>1, <2>1, <2>9
    <3>2. CASE p \div N # p0 \div N
      <4>1. t # t0
          BY <1>1, <2>1, <3>2 DEF Directory, t0
      <4> QED  BY <1>5, <2>3, <2>6, <2>7, <2>9, <4>1
    <3>3. CASE p \div N = p0 \div N /\ p % N # p0 % N
      <4>1. t = t0
          BY <3>3 DEF t0
      <4> HIDE DEF t
      <4> QED  BY <1>5, <2>1, <2>3, <2>6, <2>9, <3>3, <4>1
    <3> QED  BY <3>1, <3>2, <3>3
  <2> QED  BY <2>8, <2>9
<1> QED  BY <1>5, <1>6, <1>7 DEF n

\* n is m with i pages mapped, the first one v, to the frames behind f.
Mapped(m, n, d, v, f, i, flags) ==
    /\ n \in MemType
    /\ \A x \in Cells : (\A j \in Index : x # m[d][j].base) => n[x] = m[x]
    /\ \A p \in Page : paging_get(n, d, p * PageSize)
            = IF (p - v) % (N * N) < i THEN Entry((f + ((p - v) % (N * N))) * PageSize, flags)
              ELSE paging_get(m, d, p * PageSize)

\* One turn of the loop of paging_map_range.
MapOne(n, d, v, f, i, flags) ==
    paging_set(n, d, (v * PageSize + i * PageSize) % Space,
               Entry((f * PageSize + i * PageSize) % Space, flags))

\* One iteration of paging_map_to maps one page more.
LEMMA MapOneMore ==
    ASSUME NEW m \in MemType, NEW n, NEW d, Directory(m, d),
           NEW v \in Page, NEW f \in Page, NEW i \in Nat, f + i < N * N,
           NEW flags \in FlagSets, Mapped(m, n, d, v, f, i, flags)
    PROVE  Mapped(m, MapOne(n, d, v, f, i, flags), d, v, f, i + 1, flags)
<1> DEFINE M == N * N
           p0 == (v + i) % M
           val == Entry((f + i) * PageSize, flags)
           k == MapOne(n, d, v, f, i, flags)
<1>1. M \in Nat \ {0} /\ Page = 0 .. M - 1 /\ PageSize \in Nat \ {0} /\ f + i < M
    BY SpaceSizes
<1>2. (v * PageSize + i * PageSize) % Space = p0 * PageSize /\ p0 \in Page
    BY WrapPage
<1>3. (f * PageSize + i * PageSize) % Space = ((f + i) % M) * PageSize
    BY WrapPage
<1> HIDE DEF M
<1>4. f + i \in Nat /\ (f + i) % M = f + i
    BY <1>1
<1>5. val \in Words
  <2>1. (f + i) * PageSize \in Nat
      BY <1>1, <1>4
  <2> QED  BY <2>1 DEF Entry, Words
<1>6. k = paging_set(n, d, p0 * PageSize, val)
    BY <1>2, <1>3, <1>4 DEF MapOne
<1> HIDE DEF p0, val, k
<1>7. /\ n \in MemType
      /\ \A x \in Cells : (\A j \in Index : x # m[d][j].base) => n[x] = m[x]
    BY DEF Mapped
<1>8. n[d] = m[d]
    BY <1>7 DEF Directory
<1>9. Directory(n, d)
    BY <1>8 DEF Directory
<1>10. /\ k \in MemType
       /\ \A x \in Cells : (\A j \in Index : x # n[d][j].base) => k[x] = n[x]
       /\ \A p \in Page : paging_get(k, d, p * PageSize)
                = IF p = p0 THEN val ELSE paging_get(n, d, p * PageSize)
    BY <1>2, <1>5, <1>6, <1>7, <1>9, SetPage
<1>11. \A x \in Cells : (\A j \in Index : x # m[d][j].base) => k[x] = m[x]
    BY <1>7, <1>8, <1>10
<1>12. ASSUME NEW p \in Page
       PROVE  paging_get(k, d, p * PageSize)
                = IF (p - v) % (N * N) < i + 1
                  THEN Entry((f + ((p - v) % (N * N))) * PageSize, flags)
                  ELSE paging_get(m, d, p * PageSize)
  <2>1. i \in 0 .. M - 1
      BY <1>1
  <2>2. (p0 = p <=> (p - v) % M = i) /\ (p - v) % M \in 0 .. M - 1
      BY <1>1, <2>1, PageBehind DEF p0
  <2>3. paging_get(n, d, p * PageSize)
                = IF (p - v) % M < i THEN Entry((f + ((p - v) % M)) * PageSize, flags)
                  ELSE paging_get(m, d, p * PageSize)
      BY DEF Mapped, M
  <2> DEFINE b == (p - v) % M
  <2>4. b \in Nat /\ (p0 = p <=> b = i)
      BY <1>1, <2>2
  <2>5. b < i + 1 <=> b < i \/ b = i
    <3> HIDE DEF b
    <3> QED  BY <2>4
  <2>6. paging_get(k, d, p * PageSize) = IF p = p0 THEN val ELSE paging_get(n, d, p * PageSize)
      BY <1>10
  <2>7. b = i => val = Entry((f + b) * PageSize, flags)
      BY DEF val
  <2>8. paging_get(k, d, p * PageSize)
                = IF b < i + 1 THEN Entry((f + b) * PageSize, flags)
                  ELSE paging_get(m, d, p * PageSize)
    <3>1. paging_get(n, d, p * PageSize)
                = IF b < i THEN Entry((f + b) * PageSize, flags)
                  ELSE paging_get(m, d, p * PageSize)
        BY <2>3
    <3> HIDE DEF b
    <3> QED  BY <2>4, <2>5, <2>6, <2>7, <3>1
  <2> QED  BY <2>8 DEF M
<1> QED  BY <1>10, <1>11, <1>12 DEF Mapped, k

\* The function that paging_map_range defines by recursion exists: a least number
\* of pages without one would be 0, or have one page fewer before it.
LEMMA LoopExists ==
    ASSUME NEW m, NEW d, NEW v, NEW f, NEW flags, NEW count \in Nat
    PROVE  \E h : h = [i \in 0 .. count |->
                    IF i = 0 THEN m ELSE MapOne(h[i - 1], d, v, f, i - 1, flags)]
<1> DEFINE Loop(h, c) == h = [i \in 0 .. c |->
                    IF i = 0 THEN m ELSE MapOne(h[i - 1], d, v, f, i - 1, flags)]
           S == {c \in Nat : ~ \E h : Loop(h, c)}
<1>1. ASSUME S # {}
      PROVE  FALSE
  <2>1. PICK c \in S : \A e \in S : c <= e
    <3>1. S \subseteq Nat
        OBVIOUS
    <3> HIDE DEF S
    <3> QED  BY <1>1, <3>1, LeastNumber
  <2>2. c \in Nat /\ ~ \E h : Loop(h, c)
      OBVIOUS
  <2>3. c # 0
    <3> DEFINE h == [i \in 0 .. 0 |-> m]
    <3>1. Loop(h, 0)
        OBVIOUS
    <3> QED  BY <2>2, <3>1
  <2>4. c - 1 \in Nat /\ c - 1 \notin S
    <3>1. c \in Nat
        BY <2>2
    <3> HIDE DEF S
    <3> QED  BY <2>1, <2>3, <3>1
  <2>5. PICK g : Loop(g, c - 1)
      BY <2>4
  <2> DEFINE h == [i \in 0 .. c |-> IF i = c THEN MapOne(g[c - 1], d, v, f, c - 1, flags) ELSE g[i]]
  <2>6. \A i \in 0 .. c - 1 : h[i] = g[i]
      BY <2>2
  <2>7. \A i \in 0 .. c : h[i] = IF i = 0 THEN m ELSE MapOne(h[i - 1], d, v, f, i - 1, flags)
    <3> SUFFICES ASSUME NEW i \in 0 .. c
                 PROVE  h[i] = IF i = 0 THEN m ELSE MapOne(h[i - 1], d, v, f, i - 1, flags)
        OBVIOUS
    <3>1. CASE i = c
      <4>1. h[i] = MapOne(g[c - 1], d, v, f, c - 1, flags)
          BY <3>1
      <4>2. h[c - 1] = g[c - 1]
          BY <2>4, <2>6
      <4> QED  BY <2>3, <3>1, <4>1, <4>2
    <3>2. CASE i # c
      <4>1. i \in 0 .. c - 1 /\ (i # 0 => i - 1 \in 0 .. c - 1)
          BY <2>2, <3>2
      <4>2. g[i] = IF i = 0 THEN m ELSE MapOne(g[i - 1], d, v, f, i - 1, flags)
          BY <2>5, <4>1
      <4> QED  BY <2>6, <4>1, <4>2
    <3> QED  BY <3>1, <3>2
  <2>8. Loop(h, c)
    <3>1. h = [i \in 0 .. c |-> h[i]]
        OBVIOUS
    <3> HIDE DEF h
    <3> QED  BY <2>7, <3>1
  <2> QED  BY <2>2, <2>8
<1>2. \E h : Loop(h, count)
    BY <1>1
<1> QED  BY <1>2

\* What the loop of paging_map_to has done when it ends.
LEMMA MapRange ==
    ASSUME NEW m \in MemType, NEW d, Directory(m, d),
           NEW v \in Page, NEW f \in Page, NEW count \in Nat, f + count <= N * N,
           NEW flags \in FlagSets
    PROVE  Mapped(m, paging_map_range(m, d, v * PageSize, f * PageSize, count, flags),
                  d, v, f, count, flags)
<1> DEFINE Loop(h) == h = [i \in 0 .. count |->
                    IF i = 0 THEN m ELSE MapOne(h[i - 1], d, v, f, i - 1, flags)]
           mapped == CHOOSE h : Loop(h)
<1>1. paging_map_range(m, d, v * PageSize, f * PageSize, count, flags) = mapped[count]
    BY DEF paging_map_range, MapOne
<1>2. Loop(mapped)
    BY LoopExists
<1> HIDE DEF mapped
<1>3. mapped[0] = m /\ \A i \in 1 .. count :
            mapped[i] = MapOne(mapped[i - 1], d, v, f, i - 1, flags)
    BY <1>2
<1>4. \A p \in Page : (p - v) % (N * N) \in Nat
  <2>1. N * N \in Nat \ {0} /\ Page = 0 .. N * N - 1
      BY SpaceSizes
  <2> QED  BY <2>1
<1>5. Mapped(m, m, d, v, f, 0, flags)
  <2>1. \A p \in Page : ~ ((p - v) % (N * N) < 0)
      BY <1>4
  <2> QED  BY <2>1 DEF Mapped
<1> DEFINE S == {i \in 0 .. count : ~ Mapped(m, mapped[i], d, v, f, i, flags)}
<1>6. ASSUME S # {}
      PROVE  FALSE
  <2>1. PICK i \in S : \A e \in S : i <= e
    <3>1. S \subseteq Nat
        OBVIOUS
    <3> HIDE DEF S
    <3> QED  BY <1>6, <3>1, LeastNumber
  <2>2. i \in 0 .. count /\ ~ Mapped(m, mapped[i], d, v, f, i, flags)
      OBVIOUS
  <2>3. i # 0
      BY <1>3, <1>5, <2>2
  <2>4. i - 1 \in 0 .. count /\ i - 1 \notin S
      BY <2>1, <2>2, <2>3
  <2>5. Mapped(m, mapped[i - 1], d, v, f, i - 1, flags)
      BY <2>4
  <2>6. i - 1 \in Nat /\ f + (i - 1) < N * N /\ (i - 1) + 1 = i
      BY <2>2, <2>3, SpaceSizes
  <2>7. Mapped(m, MapOne(mapped[i - 1], d, v, f, i - 1, flags), d, v, f, (i - 1) + 1, flags)
      BY <2>5, <2>6, MapOneMore
  <2> QED  BY <1>3, <2>2, <2>3, <2>6, <2>7
<1> QED  BY <1>1, <1>6

-----------------------------------------------------------------------------
(* The block table *)

\* The least element that the searches of heap.c return exists.
LEMMA LeastOfProperty ==
    ASSUME NEW S, S \subseteq Nat, S # {}
    PROVE  LeastOf(S) \in S /\ \A y \in S : LeastOf(S) <= y
  BY LeastNumber DEF LeastOf

\* What heap_get_start_block returns: -ENOMEM, or a block from which the
\* blocks asked for are free as far as the table goes; if it goes less far
\* than that, the last block of the table is one of them.
LEMMA StartBlock ==
    ASSUME NEW table \in Table, NEW n \in Nat \ {0},
           NEW s, s = heap_get_start_block(table, n), ~ (s < 0)
    PROVE  /\ s \in Block
           /\ \A i \in Block : i \in s .. s + n - 1 => IsFree(table, i)
           /\ s + n > Total => IsFree(table, Total - 1)
<1> DEFINE F == FittingStarts(table, n)
           T == TrailingStarts(table)
<1>0. Total \in Nat \ {0} /\ Block \subseteq Nat
    BY TableAssumption DEF Block
<1>1. CASE F # {}
  <2>1. s \in F
    <3>1. F \subseteq Nat
        BY <1>0 DEF FittingStarts
    <3>2. s = LeastOf(F)
        BY <1>1 DEF heap_get_start_block
    <3> QED  BY <1>1, <3>1, <3>2, LeastOfProperty
  <2>2. s \in Block /\ IsFreeRun(table, s, n)
      BY <2>1 DEF FittingStarts
  <2> QED
      BY <1>0, <2>2 DEF IsFreeRun, Block
<1>2. CASE F = {} /\ T # {}
  <2>1. s \in T
    <3>1. T \subseteq Nat
        BY <1>0 DEF TrailingStarts
    <3>2. s = LeastOf(T)
        BY <1>2 DEF heap_get_start_block
    <3> QED  BY <1>2, <3>1, <3>2, LeastOfProperty
  <2>2. s \in Block /\ IsFreeRun(table, s, Total - s)
      BY <2>1 DEF TrailingStarts
  <2>3. \A i \in s .. Total - 1 : IsFree(table, i)
      BY <1>0, <2>2 DEF IsFreeRun, Block
  <2> QED
      BY <1>0, <2>2, <2>3 DEF Block
<1>3. CASE F = {} /\ T = {}
    BY <1>3 DEF heap_get_start_block, ENOMEM
<1> QED
    BY <1>1, <1>2, <1>3

-----------------------------------------------------------------------------
(* Who has which block *)

Ext(s, n) == s .. s + n - 1

\* The blocks S are what the table says is taken.  An allocation that goes on
\* behind the table has its last block.
Holds(h, S) ==
    /\ h = [table |-> h.table, mem |-> h.mem, leaked |-> h.leaked]
    /\ h.table \in Table
    /\ S \subseteq Nat
    /\ \A b \in Block : IF b \in S THEN "TAKEN" \in h.table[b] ELSE h.table[b] = FREE
    /\ S \subseteq Block \/ Total - 1 \in S

\* What can be given back: if it ends the table, all that lies behind it is its own.
Freeable(S, F) == F \subseteq S /\ (Total - 1 \in F => S \ F \subseteq Block)

\* n blocks from s on are an allocation, which kfree finds the end of.
Allocation(h, S, s, n) ==
    /\ s \in Block /\ n \in Nat \ {0}
    /\ Freeable(S, Ext(s, n))
    /\ \A b \in Ext(s, n) \cap Block : "HAS_NEXT" \in h.table[b] <=> b # s + n - 1

\* Between h, which has S, and g, the blocks A have been allocated.
Grows(h, S, g, A) ==
    /\ A \subseteq Nat /\ A \cap S = {}
    /\ Holds(g, S \cup A)
    /\ \A b \in S \cap Block : g.table[b] = h.table[b]
    /\ Total - 1 \in S => A \subseteq Block

\* d is a directory in m with tables of its own, c another block.
Whole(m, d, c) ==
    /\ d \in Block /\ c \in Block /\ c # d
    /\ \A i \in Index : m[d][i].base \in Block \ {c, d}
    /\ \A i, j \in Index : m[d][i].base = m[d][j].base => i = j

\* Between h, which has S, and g, the blocks F have been given back.
Shrinks(h, S, g, F) ==
    /\ Holds(g, S \ F)
    /\ \A b \in (S \ F) \cap Block : g.table[b] = h.table[b]

TablesIn(m, p) == {m[p.directory][i].base : i \in Index} \cup {p.directory, p.chunk}
OwnIn(m, p) ==
    BlocksAt(p.struct, ProcessSize) \cup Image(p) \cup Stack(p) \cup {p.task} \cup TablesIn(m, p)

MappedIn(m, p) ==
    \A page \in Page :
        LET i == page - PageOf(ProgramAddr)
            j == page - PageOf(StackEnd)
        IN  paging_get(m, p.directory, page * PageSize) =
                IF p.filetype = "BINARY" /\ i \in 0 .. Cardinality(Image(p)) - 1
                THEN Entry(heap_block_to_address(p.ptr + i), UserData)
                ELSE IF j \in 0 .. Cardinality(Stack(p)) - 1
                THEN Entry(heap_block_to_address(p.stack + j), UserData)
                ELSE Entry(page * PageSize, UserPage)

\* d has an image, or none.
ImageFields(d) ==
    \/ d.filetype = "BINARY" /\ d.ptr \in Block /\ Fits(d.size) /\ d.size > 0
    \/ d.filetype = "ELF" /\ d.ptr = NULL /\ d.size = 0

Fields(p) == p.struct \in Block /\ p.stack \in Block /\ p.task \in Block /\ ImageFields(p)

\* A process with all it needs, its image and stack apart from the rest.
Sound(m, p) ==
    /\ Fields(p)
    /\ Whole(m, p.directory, p.chunk)
    /\ (Image(p) \cup Stack(p)) \cap
            (BlocksAt(p.struct, ProcessSize) \cup {p.task} \cup TablesIn(m, p)) = {}
    /\ MappedIn(m, p)

ElfSound(f) ==
    /\ f.struct \in Block /\ f.memory \in Block /\ Fits(f.size) /\ f.size > 0
    /\ f.struct \notin BlocksAt(f.memory, f.size)
    /\ f.header.phoff # 0 /\ BoundsExact(f.header, f.bounds)

\* The blocks of a state: h is the heap, E the processes, F the ELF files, O the
\* blocks that were taken before.
OthersIn(h, E, O) == (O \cup h.leaked \cup UNION {OwnIn(h.mem, p) : p \in E}) \ {NULL}
AllIn(h, E, F, O) == OthersIn(h, E, O) \cup UNION {ElfBlocks(f) : f \in F}

\* No block has two owners.
Apart(h, E, F, O) ==
    /\ \A p, q \in E : p # q => OwnIn(h.mem, p) \cap OwnIn(h.mem, q) = {}
    /\ \A f, g \in F : f # g => ElfBlocks(f) \cap ElfBlocks(g) = {}
    /\ \A f \in F : ElfBlocks(f) \cap OthersIn(h, E, O) = {}

\* Every process and every file is as it was loaded.
Kept(h, E, F, O) ==
    /\ h.mem \in MemType
    /\ \A p \in E : Sound(h.mem, p)
    /\ \A f \in F : ElfSound(f)
    /\ Apart(h, E, F, O)

\* The table has these blocks, and the files can be freed.
InTable(h, E, F, O) ==
    /\ Holds(h, AllIn(h, E, F, O))
    /\ \A f \in F :
        /\ Allocation(h, AllIn(h, E, F, O), f.struct, 1)
        /\ Allocation(h, AllIn(h, E, F, O), f.memory, total_blocks(f.size))

Inv ==
    /\ DOMAIN processes = Slot
    /\ Kept(heap, Ever, elf_files, occupied)
    /\ mode = "running" => InTable(heap, Ever, elf_files, occupied)

-----------------------------------------------------------------------------
(* Allocating and freeing *)

\* The blocks of the table as numbers.
LEMMA BlockFacts ==
    /\ Total \in Nat \ {0} /\ Block = 0 .. Total - 1 /\ Block \subseteq Nat /\ NULL \notin Block
    /\ Total - 1 \in Block
  BY TableAssumption DEF Block, NULL

\* A size in blocks, and in pages, which are as long.
LEMMA RoundUp ==
    ASSUME NEW size, Fits(size)
    PROVE  /\ size \in Nat /\ total_blocks(size) \in Nat
           /\ total_blocks(size) * PageSize = paging_align_address(size)
           /\ size > 0 => total_blocks(size) > 0
           /\ size = 0 => total_blocks(size) = 0
           /\ size = 1 \/ size = BlockSize => total_blocks(size) = 1
<1> DEFINE B == BlockSize
           r == size % B
           q == size \div B
<1>1. /\ B \in Nat \ {0} /\ Word \in Nat \ {0} /\ size \in Nat /\ size <= Word - B
      /\ PageSize = B
    BY TableAssumption, LoaderAssumption DEF Fits
<1>2. q \in Nat /\ r \in 0 .. B - 1 /\ size = B * q + r
    BY <1>1
<1>3. size = B => q = 1 /\ r = 0
  <2>1. B = B * 1 + 0 /\ 0 \in 0 .. B - 1
      BY <1>1
  <2>2. B \div B = 1 /\ B % B = 0
      BY <1>1, <2>1, DivMod
  <2> QED  BY <2>2
<1>4. paging_align_address(size) = IF r # 0 THEN (size + B) - r ELSE size
    BY <1>1 DEF paging_align_address
<1>5. heap_align_value_to_upper(size) = IF r = 0 THEN size ELSE ((size - r) + B) % Word
    BY DEF heap_align_value_to_upper
<1> HIDE DEF q, r
<1>6. q * B = B * q /\ q * B \in Nat /\ (q + 1) * B = B * (q + 1) /\ B * (q + 1) = B * q + B
      /\ (q > 0 => q * B >= B)
    BY <1>1, <1>2
<1>7. CASE r = 0
  <2>1. total_blocks(size) = q
      BY <1>5, <1>7 DEF total_blocks, q
  <2>2. size > 0 => q > 0
      BY <1>1, <1>2, <1>6, <1>7
  <2>3. size = 0 => q = 0
      BY <1>1, <1>2, <1>6, <1>7
  <2>4. size = 1 => q = 1
    <3>1. ASSUME size = 1, q > 1
          PROVE  FALSE
      <4>1. q * B >= q
          BY <1>1, <1>2
      <4> QED  BY <1>1, <1>2, <1>6, <1>7, <3>1, <4>1
    <3> QED  BY <1>1, <1>2, <2>2, <3>1
  <2> HIDE DEF B
  <2> QED  BY <1>1, <1>2, <1>3, <1>4, <1>6, <1>7, <2>1, <2>2, <2>3, <2>4 DEF B
<1>8. CASE r # 0
  <2>1. (size - r) + B = B * (q + 1) /\ (size - r) + B \in 0 .. Word - 1
      BY <1>1, <1>2, <1>6, <1>8
  <2>2. ((size - r) + B) % Word = (size - r) + B
      BY <1>1, <2>1
  <2>3. (B * (q + 1)) \div B = q + 1
    <3> DEFINE k == q + 1
               a == B * k
    <3>1. a \in Int /\ k \in Int /\ a = B * k + 0 /\ 0 \in 0 .. B - 1
        BY <1>1, <1>2
    <3> HIDE DEF a, k, B
    <3>2. a \div B = k
        BY <1>1, <3>1, DivMod
    <3> QED  BY <3>2 DEF a, k
  <2>4. total_blocks(size) = q + 1
      BY <1>5, <1>8, <2>1, <2>2, <2>3 DEF total_blocks
  <2>a. PICK x \in Nat : x = B * q
      BY <1>6
  <2>b. size = x + r /\ (q > 0 => x >= B) /\ (q + 1) * B = x + B
      BY <1>2, <1>6, <2>a
  <2>5. size = 1 => q = 0
    <3>1. ASSUME size = 1, q > 0
          PROVE  FALSE
        BY <1>1, <1>2, <1>8, <2>b, <3>1
    <3> QED  BY <1>2, <3>1
  <2>6. size # 0
      BY <1>2, <1>8, <2>b
  <2>7. (size + B) - r = (q + 1) * B
      BY <1>1, <1>2, <2>b
  <2> HIDE DEF B
  <2> QED  BY <1>1, <1>2, <1>3, <1>4, <1>8, <2>4, <2>5, <2>6, <2>7 DEF B
<1> QED  BY <1>7, <1>8

\* What kzalloc returns: NULL, or blocks that were free.
LEMMA Kzalloc ==
    ASSUME NEW h, NEW S, Holds(h, S), NEW size, Fits(size), size > 0
    PROVE  LET z == kzalloc(h, size)
               n == total_blocks(size)
           IN  /\ z.h.mem = h.mem /\ z.h.leaked = h.leaked
               /\ \/ z.ptr = NULL /\ z.h = h /\ (n = 1 => Block \subseteq S)
                  \/ /\ z.ptr \in Block
                     /\ Grows(h, S, z.h, Ext(z.ptr, n))
                     /\ Allocation(z.h, S \cup Ext(z.ptr, n), z.ptr, n)
<1> DEFINE z == kzalloc(h, size)
           n == total_blocks(size)
           s == heap_get_start_block(h.table, n)
           E == Ext(s, n)
           new == heap_mark_blocks_taken(h.table, s, n)
<1>0. n \in Nat \ {0}
    BY RoundUp
<1>1. h.table \in Table /\ S \subseteq Nat /\ h = [table |-> h.table, mem |-> h.mem, leaked |-> h.leaked]
    BY DEF Holds
<1>2. z = IF s < 0 THEN [h |-> h, ptr |-> NULL]
          ELSE [h |-> [h EXCEPT !.table = new], ptr |-> s]
    BY DEF kzalloc
<1>3. CASE s < 0
  <2>1. z.ptr = NULL /\ z.h = h
      BY <1>2, <1>3
  <2>2. ASSUME n = 1, NEW b \in Block, b \notin S
        PROVE  FALSE
    <3>1. IsFree(h.table, b)
        BY <2>2 DEF Holds, IsFree, FREE
    <3>2. b \in FittingStarts(h.table, n)
        BY <2>2, <3>1, BlockFacts DEF FittingStarts, IsFreeRun
    <3>3. FittingStarts(h.table, n) \subseteq Nat
        BY BlockFacts DEF FittingStarts
    <3>4. LeastOf(FittingStarts(h.table, n)) \in Nat
        BY <3>2, <3>3, LeastOfProperty
    <3>5. s \in Nat
        BY <3>2, <3>4 DEF heap_get_start_block
    <3> QED  BY <1>3, <3>5
  <2> QED  BY <2>1, <2>2
<1>4. CASE ~ (s < 0)
  <2>1. /\ s \in Block
        /\ \A i \in Block : i \in s .. s + n - 1 => IsFree(h.table, i)
        /\ s + n > Total => IsFree(h.table, Total - 1)
      BY <1>0, <1>1, <1>4, StartBlock
  <2>2. z.ptr = s /\ z.h = [table |-> new, mem |-> h.mem, leaked |-> h.leaked]
      BY <1>1, <1>2, <1>4
  <2> HIDE DEF s, n, z
  <2>3. E \subseteq Nat /\ s \in E /\ (E \subseteq Block \/ (s + n > Total /\ Total - 1 \in E))
      BY <1>0, <2>1, BlockFacts DEF Ext
  <2>4. \A b \in Block : IsFree(h.table, b) => b \notin S
      BY DEF Holds, IsFree
  <2>5. Total - 1 \in S => E \subseteq Block
      BY <2>1, <2>3, <2>4, BlockFacts
  <2>6. E \cap S = {}
    <3>1. ASSUME NEW b \in E, b \in S
          PROVE  FALSE
      <4>1. CASE b \in Block
          BY <2>1, <2>4, <3>1, <4>1 DEF Ext
      <4>2. CASE b \notin Block
        <5>1. Total - 1 \in S
            BY <3>1, <4>2 DEF Holds
        <5> QED  BY <2>5, <3>1, <4>2, <5>1
      <4> QED  BY <4>1, <4>2
    <3> QED  BY <3>1
  <2>7. /\ new \in Table
        /\ \A b \in Block : b \notin E => new[b] = h.table[b]
        /\ \A b \in Block : b \in E =>
                "TAKEN" \in new[b] /\ ("HAS_NEXT" \in new[b] <=> b # s + n - 1)
    <3>1. new = [i \in Block |->
                    IF i \in s .. s + n - 1
                    THEN {"TAKEN"}
                         \cup (IF i = s THEN {"IS_FIRST"} ELSE {})
                         \cup (IF i # s + n - 1 THEN {"HAS_NEXT"} ELSE {})
                    ELSE h.table[i]]
        BY DEF heap_mark_blocks_taken
    <3> HIDE DEF new
    <3> QED  BY <1>1, <3>1 DEF Ext, Table, Flag
  <2> HIDE DEF new, E
  <2>8. Holds(z.h, S \cup E)
    <3>1. z.h.table = new /\ z.h = [table |-> z.h.table, mem |-> z.h.mem, leaked |-> z.h.leaked]
        BY <2>2
    <3>2. \A b \in Block : IF b \in S \cup E THEN "TAKEN" \in new[b] ELSE new[b] = FREE
        BY <2>7 DEF Holds
    <3>3. S \cup E \subseteq Block \/ Total - 1 \in S \cup E
        BY <2>3 DEF Holds
    <3> QED  BY <1>1, <2>3, <2>7, <3>1, <3>2, <3>3 DEF Holds
  <2>9. Grows(h, S, z.h, E)
    <3>1. z.h.table = new
        BY <2>2
    <3> QED  BY <2>3, <2>5, <2>6, <2>7, <2>8, <3>1 DEF Grows
  <2>10. Freeable(S \cup E, E)
    <3>1. Total - 1 \in E => S \subseteq Block
        BY <2>6 DEF Holds
    <3> QED  BY <3>1 DEF Freeable
  <2>11. Allocation(z.h, S \cup E, s, n)
    <3>1. z.h.table = new
        BY <2>2
    <3> QED  BY <1>0, <2>1, <2>7, <2>10, <3>1 DEF Allocation, E
  <2> QED  BY <2>1, <2>2, <2>9, <2>11 DEF z, n, E
<1> QED  BY <1>3, <1>4

\* An allocation of one block fails only if all are taken.
LEMMA KzallocOne ==
    ASSUME NEW h, NEW S, Holds(h, S), NEW size, size = 1 \/ size = BlockSize
    PROVE  LET z == kzalloc(h, size)
           IN  /\ z.h.mem = h.mem /\ z.h.leaked = h.leaked
               /\ \/ z.ptr = NULL /\ z.h = h /\ Block \subseteq S
                  \/ /\ z.ptr \in Block \ S
                     /\ Grows(h, S, z.h, {z.ptr})
                     /\ Allocation(z.h, S \cup {z.ptr}, z.ptr, 1)
<1> DEFINE z == kzalloc(h, size)
<1>1. Fits(size) /\ size > 0
    BY LoaderAssumption, TableAssumption
<1>2. total_blocks(size) = 1
    BY <1>1, RoundUp
<1>3. /\ z.h.mem = h.mem /\ z.h.leaked = h.leaked
      /\ \/ z.ptr = NULL /\ z.h = h /\ (1 = 1 => Block \subseteq S)
         \/ /\ z.ptr \in Block
            /\ Grows(h, S, z.h, Ext(z.ptr, 1))
            /\ Allocation(z.h, S \cup Ext(z.ptr, 1), z.ptr, 1)
    BY <1>1, <1>2, Kzalloc
<1> HIDE DEF z
<1>4. ASSUME z.ptr \in Block
      PROVE  Ext(z.ptr, 1) = {z.ptr}
    BY <1>4, BlockFacts DEF Ext
<1>5. ASSUME z.ptr \in Block, Grows(h, S, z.h, {z.ptr})
      PROVE  z.ptr \notin S
    BY <1>5 DEF Grows
<1> QED  BY <1>3, <1>4, <1>5 DEF z

\* A request for no blocks takes none, and may return a free one all the same.
LEMMA KzallocNothing ==
    ASSUME NEW h, NEW S, Holds(h, S), Fits(0)
    PROVE  /\ kzalloc(h, 0).h = h
           /\ kzalloc(h, 0).ptr = NULL \/ kzalloc(h, 0).ptr \in Block \ S
<1> DEFINE z == kzalloc(h, 0)
           s == heap_get_start_block(h.table, 0)
           new == heap_mark_blocks_taken(h.table, s, 0)
<1>1. total_blocks(0) = 0
    BY RoundUp
<1>2. h.table \in Table /\ h = [table |-> h.table, mem |-> h.mem, leaked |-> h.leaked]
    BY DEF Holds
<1>3. z = IF s < 0 THEN [h |-> h, ptr |-> NULL]
          ELSE [h |-> [h EXCEPT !.table = new], ptr |-> s]
    BY <1>1 DEF kzalloc
<1>4. CASE s < 0
    BY <1>3, <1>4
<1>5. CASE ~ (s < 0)
  <2> DEFINE T == TrailingStarts(h.table)
  <2>1. FittingStarts(h.table, 0) = {}
      BY DEF FittingStarts
  <2>2. T # {} /\ s = LeastOf(T)
      BY <1>5, <2>1 DEF heap_get_start_block, ENOMEM
  <2>3. T \subseteq Nat
      BY BlockFacts DEF TrailingStarts
  <2>4. s \in T
    <3> HIDE DEF T, s
    <3> QED  BY <2>2, <2>3, LeastOfProperty
  <2>5. s \in Block /\ IsFree(h.table, s)
    <3>1. s \in Block /\ \A i \in s .. s + (Total - s) - 1 : IsFree(h.table, i)
        BY <2>4 DEF TrailingStarts, IsFreeRun
    <3>2. s \in s .. s + (Total - s) - 1
        BY <3>1, BlockFacts
    <3> QED  BY <3>1, <3>2
  <2>6. s \notin S
      BY <2>5 DEF Holds, IsFree
  <2> HIDE DEF s
  <2>7. new = h.table
    <3>1. \A i \in Block : i \notin s .. s + 0 - 1
        BY <2>5, BlockFacts
    <3> QED  BY <1>2, <3>1 DEF heap_mark_blocks_taken, Table
  <2>8. [h EXCEPT !.table = new] = h
      BY <1>2, <2>7
  <2> QED  BY <1>3, <1>5, <2>5, <2>6, <2>8
<1> QED  BY <1>4, <1>5

\* A heap that does not change has nothing allocated.
LEMMA GrowsNothing ==
    ASSUME NEW h, NEW S, Holds(h, S)
    PROVE  Grows(h, S, h, {})
<1>1. S \cup {} = S
    OBVIOUS
<1> QED  BY <1>1 DEF Grows

\* Allocations after one another add up.
LEMMA GrowsMore ==
    ASSUME NEW h, NEW S, NEW g, NEW A, NEW k, NEW B,
           Grows(h, S, g, A), Grows(g, S \cup A, k, B)
    PROVE  Grows(h, S, k, A \cup B)
<1>1. S \cup (A \cup B) = (S \cup A) \cup B
    OBVIOUS
<1>2. Holds(k, S \cup (A \cup B))
    BY <1>1 DEF Grows
<1> QED  BY <1>2 DEF Grows

\* What was allocated can be given back, and later allocations do not change that.
LEMMA GrownFreeable ==
    ASSUME NEW h, NEW S, NEW g, NEW A, Holds(h, S), Grows(h, S, g, A)
    PROVE  Freeable(S \cup A, A)
<1>1. Total - 1 \in A => S \subseteq Block
    BY DEF Holds, Grows
<1> QED  BY <1>1 DEF Freeable

\* What could be given back still can after an allocation...
LEMMA FreeableGrown ==
    ASSUME NEW h, NEW S, NEW g, NEW A, NEW F, Grows(h, S, g, A), Freeable(S, F)
    PROVE  Freeable(S \cup A, F)
  BY DEF Grows, Freeable

\* ...and an allocation is one, whatever is allocated after it,
LEMMA AllocationGrown ==
    ASSUME NEW h, NEW S, NEW g, NEW A, NEW s, NEW n, Grows(h, S, g, A), Allocation(h, S, s, n)
    PROVE  Allocation(g, S \cup A, s, n)
<1>1. Freeable(S \cup A, Ext(s, n))
    BY FreeableGrown DEF Allocation
<1>2. Ext(s, n) \subseteq S
    BY DEF Allocation, Freeable
<1>3. \A b \in S \cap Block : g.table[b] = h.table[b]
    BY DEF Grows
<1> QED  BY <1>1, <1>2, <1>3 DEF Allocation

\* or whatever else is given back.
LEMMA FreeableShrunk ==
    ASSUME NEW S, NEW F, NEW G, Freeable(S, G), F \cap G = {}
    PROVE  Freeable(S \ F, G)
  BY DEF Freeable

\* kfree of another allocation leaves this one its chain of flags.
LEMMA AllocationShrunk ==
    ASSUME NEW h, NEW S, NEW g, NEW F, NEW s, NEW n,
           Shrinks(h, S, g, F), Allocation(h, S, s, n), F \cap Ext(s, n) = {}
    PROVE  Allocation(g, S \ F, s, n)
<1>1. Freeable(S \ F, Ext(s, n))
    BY FreeableShrunk DEF Allocation
<1>2. Ext(s, n) \subseteq S \ F
    BY DEF Allocation, Freeable
<1>3. \A b \in (S \ F) \cap Block : g.table[b] = h.table[b]
    BY DEF Shrinks
<1> QED  BY <1>1, <1>2, <1>3 DEF Allocation

\* What a call has allocated and given back is as if it had not been allocated.
LEMMA GrowsShrunk ==
    ASSUME NEW h, NEW S, NEW g, NEW A, NEW k, NEW F,
           Grows(h, S, g, A), Shrinks(g, S \cup A, k, F), F \subseteq A
    PROVE  Grows(h, S, k, A \ F)
<1>1. S \cup (A \ F) = (S \cup A) \ F
    BY DEF Grows
<1>2. Holds(k, S \cup (A \ F))
    BY <1>1 DEF Shrinks
<1>3. \A b \in S \cap Block : b \in ((S \cup A) \ F) \cap Block
    BY DEF Grows
<1>4. \A b \in S \cap Block : k.table[b] = h.table[b]
    BY <1>3 DEF Grows, Shrinks
<1> QED  BY <1>2, <1>4 DEF Grows

\* A table in which the blocks F of S have been cleared.
LEMMA Cleared ==
    ASSUME NEW h, NEW S, NEW F, Holds(h, S), Freeable(S, F), NEW table, NEW g,
           g = [h EXCEPT !.table = table],
           table = [b \in Block |-> IF b \in F THEN FREE ELSE h.table[b]]
    PROVE  g.mem = h.mem /\ g.leaked = h.leaked /\ Shrinks(h, S, g, F)
<1>1. h.table \in Table /\ h = [table |-> h.table, mem |-> h.mem, leaked |-> h.leaked]
    BY DEF Holds
<1>2. g = [table |-> table, mem |-> h.mem, leaked |-> h.leaked]
    BY <1>1
<1>3. /\ g.table = table /\ g.mem = h.mem /\ g.leaked = h.leaked
      /\ g = [table |-> g.table, mem |-> g.mem, leaked |-> g.leaked]
    BY <1>2
<1>4. table \in Table
    BY <1>1 DEF Table, FREE
<1>5. \A b \in Block : table[b] = IF b \in F THEN FREE ELSE h.table[b]
    OBVIOUS
<1>6. \A b \in Block : IF b \in S \ F THEN "TAKEN" \in table[b] ELSE table[b] = FREE
    BY <1>5 DEF Holds
<1>7. S \ F \subseteq Block \/ Total - 1 \in S \ F
    BY DEF Holds, Freeable
<1>8. S \ F \subseteq Nat
    BY DEF Holds
<1>9. Holds(g, S \ F)
    BY <1>3, <1>4, <1>6, <1>7, <1>8 DEF Holds
<1> QED  BY <1>3, <1>5, <1>9 DEF Shrinks

\* kfree clears the allocation and stops at its end.
LEMMA Kfree ==
    ASSUME NEW h, NEW S, Holds(h, S), NEW s, NEW n, Allocation(h, S, s, n)
    PROVE  /\ kfree(h, s).mem = h.mem /\ kfree(h, s).leaked = h.leaked
           /\ Shrinks(h, S, kfree(h, s), Ext(s, n))
<1>1. s \in Block /\ n \in Nat \ {0} /\ Freeable(S, Ext(s, n))
    BY DEF Allocation
<1>2. \A b \in Ext(s, n) \cap Block : "HAS_NEXT" \in h.table[b] <=> b # s + n - 1
    BY DEF Allocation
<1>3. ASSUME NEW i \in Block
      PROVE  i \in Chain(h.table, s) <=> i \in Ext(s, n)
  <2>1. ASSUME i \in Chain(h.table, s), i \notin Ext(s, n)
        PROVE  FALSE
    <3>1. i >= s /\ \A j \in s .. i - 1 : "HAS_NEXT" \in h.table[j]
        BY <2>1 DEF Chain
    <3>2. s + n - 1 \in s .. i - 1 /\ s + n - 1 \in Block /\ s + n - 1 \in Ext(s, n)
        BY <1>1, <2>1, <3>1, BlockFacts DEF Ext
    <3> QED  BY <1>2, <3>1, <3>2
  <2>2. ASSUME i \in Ext(s, n)
        PROVE  i \in Chain(h.table, s)
    <3>1. ASSUME NEW j \in s .. i - 1
          PROVE  "HAS_NEXT" \in h.table[j]
      <4>1. j \in Ext(s, n) /\ j \in Block /\ j # s + n - 1
          BY <1>1, <2>2, BlockFacts DEF Ext
      <4> QED  BY <1>2, <4>1
    <3>2. i >= s
        BY <1>1, <2>2, BlockFacts DEF Ext
    <3> QED  BY <3>1, <3>2 DEF Chain
  <2> QED  BY <2>1, <2>2
<1> DEFINE table == heap_mark_blocks_free(h.table, s)
<1>4. table = [b \in Block |-> IF b \in Ext(s, n) THEN FREE ELSE h.table[b]]
    BY <1>3 DEF heap_mark_blocks_free
<1>5. kfree(h, s) = [h EXCEPT !.table = table]
    BY DEF kfree
<1> HIDE DEF table
<1> QED  BY <1>1, <1>4, <1>5, Cleared

\* Freeing a block that is free changes nothing.
LEMMA KfreeNothing ==
    ASSUME NEW h, NEW S, Holds(h, S), NEW s \in Block \ S
    PROVE  kfree(h, s) = h
<1>1. h.table \in Table /\ h = [table |-> h.table, mem |-> h.mem, leaked |-> h.leaked]
    BY DEF Holds
<1>2. h.table[s] = FREE
    BY DEF Holds
<1>3. ASSUME NEW i \in Block, i \in Chain(h.table, s)
      PROVE  i = s
  <2>1. i >= s /\ \A j \in s .. i - 1 : "HAS_NEXT" \in h.table[j]
      BY <1>3 DEF Chain
  <2>2. ASSUME i # s
        PROVE  FALSE
    <3>1. s \in s .. i - 1
        BY <2>1, <2>2, BlockFacts
    <3> QED  BY <1>2, <2>1, <3>1 DEF FREE
  <2> QED  BY <2>2
<1>4. heap_mark_blocks_free(h.table, s) = h.table
  <2>1. \A i \in Block : i \in Chain(h.table, s) => h.table[i] = FREE
      BY <1>2, <1>3
  <2> QED  BY <1>1, <2>1 DEF heap_mark_blocks_free, Table
<1> QED  BY <1>1, <1>4 DEF kfree

\* fclose gives back blocks one by one.
LEMMA Fclose ==
    ASSUME NEW h, NEW S, Holds(h, S), NEW file, Freeable(S, file \cap Block)
    PROVE  /\ fclose(h, file).mem = h.mem /\ fclose(h, file).leaked = h.leaked
           /\ Shrinks(h, S, fclose(h, file), file \cap Block)
<1> DEFINE table == [b \in Block |-> IF b \in file \cap Block THEN FREE ELSE h.table[b]]
<1>1. h = [table |-> h.table, mem |-> h.mem, leaked |-> h.leaked]
    BY DEF Holds
<1>2. fclose(h, file) = [h EXCEPT !.table = table]
    BY <1>1 DEF fclose
<1> QED  BY <1>2, Cleared

-----------------------------------------------------------------------------
(* The loops over kzalloc *)

\* One more block.
TakeOne(a) == [h |-> kzalloc(a.h, 1).h, got |-> a.got \cup {kzalloc(a.h, 1).ptr}]
NoneTaken(h) == [h |-> h, got |-> {}]

\* The function that Take defines exists.
LEMMA TakeLoop ==
    ASSUME NEW h, NEW count \in Nat
    PROVE  \E t : t = [i \in 0 .. count |-> IF i = 0 THEN NoneTaken(h) ELSE TakeOne(t[i - 1])]
<1> DEFINE Loop(t, c) == t = [i \in 0 .. c |-> IF i = 0 THEN NoneTaken(h) ELSE TakeOne(t[i - 1])]
           S == {c \in Nat : ~ \E t : Loop(t, c)}
<1>1. ASSUME S # {}
      PROVE  FALSE
  <2>1. PICK c \in S : \A e \in S : c <= e
    <3>1. S \subseteq Nat
        OBVIOUS
    <3> HIDE DEF S
    <3> QED  BY <1>1, <3>1, LeastNumber
  <2>2. c \in Nat /\ ~ \E t : Loop(t, c)
      OBVIOUS
  <2>3. c # 0
    <3> DEFINE t == [i \in 0 .. 0 |-> NoneTaken(h)]
    <3>1. Loop(t, 0)
        OBVIOUS
    <3> QED  BY <2>2, <3>1
  <2>4. c - 1 \in Nat /\ c - 1 \notin S
    <3>1. c \in Nat
        BY <2>2
    <3> HIDE DEF S
    <3> QED  BY <2>1, <2>3, <3>1
  <2>5. PICK g : Loop(g, c - 1)
      BY <2>4
  <2> DEFINE t == [i \in 0 .. c |-> IF i = c THEN TakeOne(g[c - 1]) ELSE g[i]]
  <2>6. \A i \in 0 .. c - 1 : t[i] = g[i]
      BY <2>2
  <2>7. \A i \in 0 .. c : t[i] = IF i = 0 THEN NoneTaken(h) ELSE TakeOne(t[i - 1])
    <3> SUFFICES ASSUME NEW i \in 0 .. c
                 PROVE  t[i] = IF i = 0 THEN NoneTaken(h) ELSE TakeOne(t[i - 1])
        OBVIOUS
    <3>1. CASE i = c
      <4>1. t[i] = TakeOne(g[c - 1])
          BY <3>1
      <4>2. t[c - 1] = g[c - 1]
          BY <2>4, <2>6
      <4> QED  BY <2>3, <3>1, <4>1, <4>2
    <3>2. CASE i # c
      <4>1. i \in 0 .. c - 1 /\ (i # 0 => i - 1 \in 0 .. c - 1)
          BY <2>2, <3>2
      <4>2. g[i] = IF i = 0 THEN NoneTaken(h) ELSE TakeOne(g[i - 1])
          BY <2>5, <4>1
      <4> QED  BY <2>6, <4>1, <4>2
    <3> QED  BY <3>1, <3>2
  <2>8. Loop(t, c)
    <3>1. t = [i \in 0 .. c |-> t[i]]
        OBVIOUS
    <3> HIDE DEF t
    <3> QED  BY <2>7, <3>1
  <2> QED  BY <2>2, <2>8
<1>2. \E t : Loop(t, count)
    BY <1>1
<1> QED  BY <1>2

\* Blocks taken one by one; NULL is among them if there were too few.
Taken(h, S, a) ==
    /\ a.h.mem = h.mem /\ a.h.leaked = h.leaked
    /\ a.got \subseteq Cells
    /\ Grows(h, S, a.h, a.got \cap Block)

\* One more allocation of a block.
LEMMA TakeOneMore ==
    ASSUME NEW h, NEW S, NEW a, Taken(h, S, a)
    PROVE  Taken(h, S, TakeOne(a))
<1> DEFINE z == kzalloc(a.h, 1)
           G == a.got \cap Block
<1>2. Holds(a.h, S \cup G)
    BY DEF Taken, Grows
<1>3. /\ z.h.mem = a.h.mem /\ z.h.leaked = a.h.leaked
      /\ \/ z.ptr = NULL /\ z.h = a.h
         \/ z.ptr \in Block /\ Grows(a.h, S \cup G, z.h, {z.ptr})
  <2> HIDE DEF G
  <2> QED  BY <1>2, KzallocOne
<1>4. TakeOne(a).h = z.h /\ TakeOne(a).got = a.got \cup {z.ptr}
    BY DEF TakeOne
<1> HIDE DEF z
<1>5. CASE z.ptr = NULL /\ z.h = a.h
  <2>1. TakeOne(a).got \cap Block = G
      BY <1>4, <1>5, BlockFacts
  <2> HIDE DEF G
  <2> QED  BY <1>4, <1>5, <2>1 DEF Taken, Cells, G
<1>6. CASE z.ptr \in Block /\ Grows(a.h, S \cup G, z.h, {z.ptr})
  <2>2. TakeOne(a).got \cap Block = G \cup {z.ptr}
      BY <1>4, <1>6
  <2>3. Grows(h, S, z.h, G \cup {z.ptr})
    <3>1. Grows(h, S, a.h, G)
        BY DEF Taken
    <3> HIDE DEF G
    <3> QED  BY <1>6, <3>1, GrowsMore
  <2> QED  BY <1>3, <1>4, <1>6, <2>2, <2>3 DEF Taken, Cells
<1> QED  BY <1>3, <1>5, <1>6

\* All the allocations of Take, found or not.
LEMMA TakeIs ==
    ASSUME NEW h, NEW S, Holds(h, S), NEW count \in Nat
    PROVE  Taken(h, S, Take(h, count))
<1> DEFINE Loop(t) == t = [i \in 0 .. count |-> IF i = 0 THEN NoneTaken(h) ELSE TakeOne(t[i - 1])]
           taken == CHOOSE t : Loop(t)
<1>1. Take(h, count) = taken[count]
    BY DEF Take, TakeOne, NoneTaken
<1>2. Loop(taken)
    BY TakeLoop
<1> HIDE DEF taken
<1>3. taken[0] = NoneTaken(h) /\ \A i \in 1 .. count : taken[i] = TakeOne(taken[i - 1])
    BY <1>2
<1> DEFINE P == {i \in 0 .. count : Taken(h, S, taken[i])}
<1>4. 0 \in P
  <2>1. {} \cap Block = {} /\ Grows(h, S, h, {})
      BY GrowsNothing
  <2> QED  BY <1>3, <2>1 DEF Taken, NoneTaken
<1>5. \A i \in 1 .. count : i - 1 \in P => i \in P
    BY <1>3, TakeOneMore
<1> HIDE DEF P
<1>6. 0 .. count \subseteq P
    BY <1>4, <1>5, UpTo
<1>7. Taken(h, S, taken[count])
    BY <1>6 DEF P
<1> QED  BY <1>1, <1>7

\* One more table of a directory.
FillOne(a, d, i) == SetTable(kzalloc(a, BlockSize), d, i, UserPage)

\* The function that AllTables defines exists.
LEMMA FillLoop ==
    ASSUME NEW h, NEW d, NEW count \in Nat
    PROVE  \E t : t = [i \in 0 .. count |-> IF i = 0 THEN h ELSE FillOne(t[i - 1], d, i - 1)]
<1> DEFINE Loop(t, c) == t = [i \in 0 .. c |-> IF i = 0 THEN h ELSE FillOne(t[i - 1], d, i - 1)]
           S == {c \in Nat : ~ \E t : Loop(t, c)}
<1>1. ASSUME S # {}
      PROVE  FALSE
  <2>1. PICK c \in S : \A e \in S : c <= e
    <3>1. S \subseteq Nat
        OBVIOUS
    <3> HIDE DEF S
    <3> QED  BY <1>1, <3>1, LeastNumber
  <2>2. c \in Nat /\ ~ \E t : Loop(t, c)
      OBVIOUS
  <2>3. c # 0
    <3> DEFINE t == [i \in 0 .. 0 |-> h]
    <3>1. Loop(t, 0)
        OBVIOUS
    <3> QED  BY <2>2, <3>1
  <2>4. c - 1 \in Nat /\ c - 1 \notin S
    <3>1. c \in Nat
        BY <2>2
    <3> HIDE DEF S
    <3> QED  BY <2>1, <2>3, <3>1
  <2>5. PICK g : Loop(g, c - 1)
      BY <2>4
  <2> DEFINE t == [i \in 0 .. c |-> IF i = c THEN FillOne(g[c - 1], d, c - 1) ELSE g[i]]
  <2>6. \A i \in 0 .. c - 1 : t[i] = g[i]
      BY <2>2
  <2>7. \A i \in 0 .. c : t[i] = IF i = 0 THEN h ELSE FillOne(t[i - 1], d, i - 1)
    <3> SUFFICES ASSUME NEW i \in 0 .. c
                 PROVE  t[i] = IF i = 0 THEN h ELSE FillOne(t[i - 1], d, i - 1)
        OBVIOUS
    <3>1. CASE i = c
      <4>1. t[i] = FillOne(g[c - 1], d, c - 1)
          BY <3>1
      <4>2. t[c - 1] = g[c - 1]
          BY <2>4, <2>6
      <4> QED  BY <2>3, <3>1, <4>1, <4>2
    <3>2. CASE i # c
      <4>1. i \in 0 .. c - 1 /\ (i # 0 => i - 1 \in 0 .. c - 1)
          BY <2>2, <3>2
      <4>2. g[i] = IF i = 0 THEN h ELSE FillOne(g[i - 1], d, i - 1)
          BY <2>5, <4>1
      <4> QED  BY <2>6, <4>1, <4>2
    <3> QED  BY <3>1, <3>2
  <2>8. Loop(t, c)
    <3>1. t = [i \in 0 .. c |-> t[i]]
        OBVIOUS
    <3> HIDE DEF t
    <3> QED  BY <2>7, <3>1
  <2> QED  BY <2>2, <2>8
<1>2. \E t : Loop(t, count)
    BY <1>1
<1> QED  BY <1>2

\* Table i of a directory translates its pages to themselves.
TableOf(i) == [b \in Index |-> Entry((i * N + b) * PageSize, UserPage)]

\* The first i entries of the directory d lead to tables of their own, and T are
\* the blocks of these tables.
Linked(a, d, i, T) ==
    /\ T = {a.mem[d][j].base : j \in 0 .. i - 1}
    /\ \A j \in 0 .. i - 1 : a.mem[a.mem[d][j].base] = TableOf(j)
    /\ \A j, k \in 0 .. i - 1 : a.mem[d][j].base = a.mem[d][k].base => j = k

\* i tables have been allocated and filled, or no block is left.
Filled(h, S, d, a, i) ==
    \E T \in SUBSET Block :
        /\ a.leaked = h.leaked /\ a.mem \in MemType
        /\ Grows(h, S, a, T)
        /\ \A x \in Block \ (T \cup {d}) : a.mem[x] = h.mem[x]
        /\ Block \subseteq S \cup T \/ (d \in S \cap Block /\ Linked(a, d, i, T))

\* The table that paging_new_4gb writes is a table of words.
LEMMA TableOfType == \A i \in Index : TableOf(i) \in [Index -> Words]
<1>1. \A i \in Index, b \in Index : (i * N + b) * PageSize \in Int
    BY SpaceSizes
<1> QED  BY <1>1 DEF TableOf, Entry, Words, FlagSets

\* What FillOne leaves in memory.
LEMMA FillOneIs ==
    ASSUME NEW a, NEW T, Holds(a, T), a.mem \in MemType, NEW d \in Cells, NEW i \in Index
    PROVE  LET z == kzalloc(a, BlockSize)
               g == FillOne(a, d, i)
           IN  /\ g = [table |-> z.h.table, mem |-> g.mem, leaked |-> a.leaked]
               /\ z.ptr \in Cells /\ g.mem \in MemType
               /\ \A x \in Cells \ {z.ptr, d} : g.mem[x] = a.mem[x]
               /\ z.ptr # d =>
                    /\ g.mem[z.ptr] = TableOf(i)
                    /\ g.mem[d] = [a.mem[d] EXCEPT ![i] = Entry(z.ptr, UserData)]
<1> DEFINE z == kzalloc(a, BlockSize)
           g == FillOne(a, d, i)
           e == Entry(z.ptr, UserData)
           m == a.mem
           n == [m EXCEPT ![z.ptr] = TableOf(i), ![d][i] = e]
<1>1. /\ z.h.mem = a.mem /\ z.h.leaked = a.leaked
      /\ \/ z.ptr = NULL /\ z.h = a
         \/ z.ptr \in Block /\ Grows(a, T, z.h, {z.ptr})
    BY KzallocOne
<1>2. z.ptr \in Cells
    BY <1>1 DEF Cells
<1>3. z.h = [table |-> z.h.table, mem |-> z.h.mem, leaked |-> z.h.leaked]
    BY <1>1 DEF Grows, Holds
<1>4. UserPage \cup {PAGING_IS_WRITEABLE} = UserData
    BY DEF UserPage, UserData
<1>5. g = [z.h EXCEPT !.mem[z.ptr] = TableOf(i), !.mem[d][i] = e]
    BY <1>4 DEF FillOne, SetTable, TableOf
<1>6. e \in Words
  <2>1. z.ptr \in Int
      BY <1>2, BlockFacts DEF Cells, NULL
  <2> QED  BY <2>1 DEF Entry, Words, FlagSets
<1> HIDE DEF z, e, g
<1>7. g = [table |-> z.h.table, mem |-> n, leaked |-> a.leaked]
  <2>1. DOMAIN z.h = {"table", "mem", "leaked"}
      BY <1>3
  <2> QED  BY <1>1, <1>3, <1>5, <2>1
<1>8. g.mem = n
    BY <1>7
<1> DEFINE t == TableOf(i)
<1>9. t \in [Index -> Words]
    BY TableOfType
<1> HIDE DEF t
<1>10. n = [[m EXCEPT ![z.ptr] = t] EXCEPT ![d][i] = e]
    BY DEF t
<1>11. m \in [Cells -> [Index -> Words]]
    BY DEF MemType
<1> HIDE DEF m, n
<1> DEFINE k == [m EXCEPT ![z.ptr] = t]
<1>12. /\ k \in [Cells -> [Index -> Words]]
       /\ k[z.ptr] = t /\ \A x \in Cells \ {z.ptr} : k[x] = m[x]
    BY <1>2, <1>9, <1>11
<1>13. n = [k EXCEPT ![d] = [k[d] EXCEPT ![i] = e]]
    BY <1>10
<1> HIDE DEF k
<1>14. [k[d] EXCEPT ![i] = e] \in [Index -> Words]
  <2>1. k[d] \in [Index -> Words]
      BY <1>12
  <2> QED  BY <1>6, <2>1
<1>15. /\ n \in [Cells -> [Index -> Words]]
       /\ n[d] = [k[d] EXCEPT ![i] = e] /\ \A x \in Cells \ {d} : n[x] = k[x]
    BY <1>12, <1>13, <1>14
<1>16. n \in MemType
    BY <1>15 DEF MemType
<1>17. \A x \in Cells \ {z.ptr, d} : n[x] = m[x]
    BY <1>12, <1>15
<1>18. z.ptr # d => n[z.ptr] = t /\ n[d] = [m[d] EXCEPT ![i] = e]
    BY <1>2, <1>12, <1>15
<1> QED  BY <1>2, <1>7, <1>8, <1>16, <1>17, <1>18 DEF z, g, m, t, e

\* One iteration of paging_new_4gb allocates and fills one table.
LEMMA FillOneMore ==
    ASSUME NEW h, NEW S, NEW d \in Cells, d = NULL => Block \subseteq S, NEW i \in Index,
           NEW a, Filled(h, S, d, a, i)
    PROVE  Filled(h, S, d, FillOne(a, d, i), i + 1)
<1> DEFINE z == kzalloc(a, BlockSize)
           g == FillOne(a, d, i)
<1>0. i \in Nat /\ i + 1 - 1 = i
    BY SpaceSizes
<1>1. PICK T \in SUBSET Block :
        /\ a.leaked = h.leaked /\ a.mem \in MemType
        /\ Grows(h, S, a, T)
        /\ \A x \in Block \ (T \cup {d}) : a.mem[x] = h.mem[x]
        /\ Block \subseteq S \cup T \/ (d \in S \cap Block /\ Linked(a, d, i, T))
    BY DEF Filled
<1>2. Holds(a, S \cup T) /\ T \cap S = {}
    BY <1>1 DEF Grows
<1>3. /\ z.h.mem = a.mem /\ z.h.leaked = a.leaked
      /\ \/ z.ptr = NULL /\ z.h = a /\ Block \subseteq S \cup T
         \/ /\ z.ptr \in Block \ (S \cup T)
            /\ Grows(a, S \cup T, z.h, {z.ptr})
    BY <1>2, KzallocOne
<1>4. /\ g = [table |-> z.h.table, mem |-> g.mem, leaked |-> a.leaked]
      /\ z.ptr \in Cells /\ g.mem \in MemType
      /\ \A x \in Cells \ {z.ptr, d} : g.mem[x] = a.mem[x]
      /\ z.ptr # d =>
            /\ g.mem[z.ptr] = TableOf(i)
            /\ g.mem[d] = [a.mem[d] EXCEPT ![i] = Entry(z.ptr, UserData)]
    BY <1>1, <1>2, FillOneIs
<1> HIDE DEF z, g
<1>5. /\ g.table = z.h.table /\ g.leaked = h.leaked
      /\ g = [table |-> g.table, mem |-> g.mem, leaked |-> g.leaked]
    BY <1>1, <1>4
<1>6. \A A : Grows(h, S, z.h, A) => Grows(h, S, g, A)
  <2>1. \A A : Holds(z.h, A) => Holds(g, A)
      BY <1>5 DEF Holds
  <2> QED  BY <1>5, <2>1 DEF Grows
<1>7. CASE z.ptr = NULL /\ z.h = a /\ Block \subseteq S \cup T
  <2>1. Grows(h, S, g, T)
      BY <1>1, <1>6, <1>7
  <2>2. \A x \in Block \ (T \cup {d}) : g.mem[x] = h.mem[x]
      BY <1>1, <1>4, <1>7, BlockFacts DEF Cells
  <2> QED  BY <1>4, <1>5, <1>7, <2>1, <2>2 DEF Filled, g
<1>8. CASE z.ptr \in Block \ (S \cup T) /\ Grows(a, S \cup T, z.h, {z.ptr})
  <2> DEFINE t == z.ptr
             U == T \cup {t}
  <2>1. d \in S \cap Block /\ Linked(a, d, i, T)
      BY <1>1, <1>8
  <2>2. Grows(h, S, g, U)
      BY <1>1, <1>6, <1>8, GrowsMore
  <2>3. \A x \in Block \ (U \cup {d}) : g.mem[x] = h.mem[x]
      BY <1>1, <1>4 DEF Cells
  <2>4. t # d /\ t \notin T /\ d \notin T
      BY <1>2, <1>8, <2>1
  <2>5. \A x \in T : g.mem[x] = a.mem[x]
      BY <1>4, <2>4 DEF Cells
  <2>6. /\ g.mem[t] = TableOf(i)
        /\ g.mem[d] = [a.mem[d] EXCEPT ![i] = Entry(t, UserData)]
      BY <1>4, <2>4
  <2>7. a.mem[d] \in [Index -> Words]
      BY <1>1, <2>1 DEF MemType, Cells
  <2> HIDE DEF t
  <2>8. /\ g.mem[d][i] = Entry(t, UserData)
        /\ \A j \in Index \ {i} : g.mem[d][j] = a.mem[d][j]
      BY <2>6, <2>7
  <2>9. g.mem[d][i].base = t /\ \A j \in 0 .. i - 1 : g.mem[d][j].base = a.mem[d][j].base
    <3>1. \A j \in 0 .. i - 1 : j \in Index \ {i}
        BY SpaceSizes
    <3> QED  BY <2>8, <3>1 DEF Entry
  <2>10. T = {a.mem[d][j].base : j \in 0 .. i - 1}
      BY <2>1 DEF Linked
  <2>11. \A j \in 0 .. i - 1 : g.mem[d][j].base \in T
      BY <2>9, <2>10
  <2>12. \A j \in 0 .. i : j = i \/ j \in 0 .. i - 1
      BY <1>0
  <2>13. U = {g.mem[d][j].base : j \in 0 .. i}
    <3>1. i \in 0 .. i /\ 0 .. i - 1 \subseteq 0 .. i
        BY <1>0
    <3> QED  BY <2>9, <2>10, <2>12, <3>1
  <2>14. \A j \in 0 .. i : g.mem[g.mem[d][j].base] = TableOf(j)
    <3>1. ASSUME NEW j \in 0 .. i - 1
          PROVE  g.mem[g.mem[d][j].base] = TableOf(j)
        BY <2>1, <2>5, <2>9, <2>11 DEF Linked
    <3> QED  BY <2>6, <2>9, <2>12, <3>1
  <2>15. \A j, k \in 0 .. i : g.mem[d][j].base = g.mem[d][k].base => j = k
    <3>1. ASSUME NEW j \in 0 .. i - 1, NEW k \in 0 .. i - 1, g.mem[d][j].base = g.mem[d][k].base
          PROVE  j = k
        BY <2>1, <2>9, <3>1 DEF Linked
    <3>2. \A j \in 0 .. i - 1 : g.mem[d][j].base # g.mem[d][i].base
        BY <2>4, <2>9, <2>11
    <3> QED  BY <2>12, <3>1, <3>2
  <2>16. Linked(g, d, i + 1, U)
      BY <1>0, <2>13, <2>14, <2>15 DEF Linked
  <2>17. U \in SUBSET Block
      BY <1>8 DEF t
  <2> HIDE DEF U
  <2> QED  BY <1>4, <1>5, <2>1, <2>2, <2>3, <2>16, <2>17 DEF Filled, g
<1> QED  BY <1>3, <1>7, <1>8

\* paging_new_4gb after its loop, also with a directory at address 0.
LEMMA AllTablesIs ==
    ASSUME NEW h, NEW S, Holds(h, S), h.mem \in MemType,
           NEW d \in Cells, d = NULL => Block \subseteq S, d # NULL => d \in S
    PROVE  Filled(h, S, d, AllTables(h, d, UserPage), N)
<1> DEFINE Loop(t) == t = [i \in 0 .. N |-> IF i = 0 THEN h ELSE FillOne(t[i - 1], d, i - 1)]
           filled == CHOOSE t : Loop(t)
<1>0. N \in Nat
    BY SpaceSizes
<1>1. AllTables(h, d, UserPage) = filled[N]
    BY DEF AllTables, FillOne
<1>2. Loop(filled)
    BY <1>0, FillLoop
<1> HIDE DEF filled
<1>3. filled[0] = h /\ \A i \in 1 .. N : filled[i] = FillOne(filled[i - 1], d, i - 1)
    BY <1>0, <1>2
<1> DEFINE P == {i \in 0 .. N : Filled(h, S, d, filled[i], i)}
<1>4. 0 \in P
  <2>1. Grows(h, S, h, {})
      BY GrowsNothing
  <2>2. Linked(h, d, 0, {})
      BY DEF Linked
  <2>3. Block \subseteq S \cup {} \/ (d \in S \cap Block /\ Linked(h, d, 0, {}))
      BY <2>2 DEF Cells
  <2>4. Filled(h, S, d, h, 0)
      BY <2>1, <2>3 DEF Filled
  <2> QED  BY <1>0, <1>3, <2>4
<1>5. ASSUME NEW i \in 1 .. N, i - 1 \in P
      PROVE  i \in P
  <2>1. Filled(h, S, d, filled[i - 1], i - 1) /\ i - 1 \in Index /\ (i - 1) + 1 = i
      BY <1>0, <1>5, SpaceSizes
  <2>2. Filled(h, S, d, FillOne(filled[i - 1], d, i - 1), (i - 1) + 1)
      BY <2>1, FillOneMore
  <2>3. Filled(h, S, d, filled[i], i)
      BY <1>3, <2>1, <2>2
  <2> QED  BY <1>0, <2>3
<1> HIDE DEF P
<1>6. 0 .. N \subseteq P
    BY <1>0, <1>4, <1>5, UpTo
<1>7. Filled(h, S, d, filled[N], N)
    BY <1>0, <1>6 DEF P
<1> QED  BY <1>1, <1>7

-----------------------------------------------------------------------------
(* A new directory, and a task with it *)

Identity(m, d) ==
    \A page \in Page : paging_get(m, d, page * PageSize) = Entry(page * PageSize, UserPage)

DirectoryBlocks(m, d, c) == {m[d][i].base : i \in Index} \cup {d, c}

\* A directory that leads to the tables translates every page to itself.
LEMMA LinkedIsIdentity ==
    ASSUME NEW a, NEW d, NEW T, Linked(a, d, N, T)
    PROVE  Identity(a.mem, d)
<1> SUFFICES ASSUME NEW p \in Page
             PROVE  paging_get(a.mem, d, p * PageSize) = Entry(p * PageSize, UserPage)
    BY DEF Identity
<1> DEFINE q == p \div N
           r == p % N
<1>1. q \in Index /\ r \in Index /\ p = N * q + r
    BY PageParts
<1>2. /\ paging_get_indexes(p * PageSize).directory = q
      /\ paging_get_indexes(p * PageSize).table = r
    BY PageIndexes
<1> HIDE DEF q, r
<1>3. paging_get(a.mem, d, p * PageSize) = a.mem[a.mem[d][q].base][r]
    BY <1>2 DEF paging_get
<1>4. a.mem[a.mem[d][q].base] = TableOf(q)
    BY <1>1, SpaceSizes DEF Linked
<1>5. TableOf(q)[r] = Entry((q * N + r) * PageSize, UserPage)
    BY <1>1 DEF TableOf
<1>6. q * N + r = p
    BY <1>1, SpaceSizes
<1> QED  BY <1>3, <1>4, <1>5, <1>6

\* A heap with other memory has the same blocks.
LEMMA SameTable ==
    ASSUME NEW h, NEW S, NEW g, NEW A, NEW k, Grows(h, S, g, A), k.table = g.table,
           k = [table |-> k.table, mem |-> k.mem, leaked |-> k.leaked]
    PROVE  Grows(h, S, k, A)
<1>1. Holds(k, S \cup A)
    BY DEF Grows, Holds
<1> QED  BY <1>1 DEF Grows

\* paging_new_4gb leaves what is in use alone.  If it returns a chunk, the
\* directory is whole: the chunk is the last block it allocates.
LEMMA New4gb ==
    ASSUME NEW h, NEW S, Holds(h, S), h.mem \in MemType
    PROVE  LET r == paging_new_4gb(h, UserPage)
           IN  /\ r.h = [table |-> r.h.table, mem |-> r.h.mem, leaked |-> r.h.leaked]
               /\ r.h.mem \in MemType /\ r.h.leaked = h.leaked
               /\ \A x \in S \cap Block : r.h.mem[x] = h.mem[x]
               /\ r.ptr # NULL =>
                    /\ Grows(h, S, r.h, DirectoryBlocks(r.h.mem, r.directory, r.ptr))
                    /\ Whole(r.h.mem, r.directory, r.ptr)
                    /\ Identity(r.h.mem, r.directory)
<1> DEFINE z == kzalloc(h, BlockSize)
           d == z.ptr
           a == AllTables(z.h, d, UserPage)
           c == kzalloc(a, 1)
           r == paging_new_4gb(h, UserPage)
<1>1. r = [h |-> c.h, ptr |-> c.ptr, directory |-> d]
    BY DEF paging_new_4gb
<1>2. /\ z.h.mem = h.mem /\ z.h.leaked = h.leaked
      /\ \/ d = NULL /\ z.h = h /\ Block \subseteq S
         \/ d \in Block \ S /\ Grows(h, S, z.h, {d})
    BY KzallocOne
<1> DEFINE D == IF d = NULL THEN {} ELSE {d}
           R == S \cup D
<1>3. d \in Cells /\ (d = NULL => Block \subseteq R) /\ (d # NULL => d \in R)
  <2>1. d = NULL \/ d \in Block
      BY <1>2
  <2>2. d = NULL => Block \subseteq S
      BY <1>2, BlockFacts
  <2> HIDE DEF d
  <2> QED  BY <2>1, <2>2 DEF Cells
<1>4. Grows(h, S, z.h, D) /\ Holds(z.h, R)
  <2>1. Grows(h, S, h, {})
      BY GrowsNothing
  <2>2. Grows(h, S, z.h, D)
      BY <1>2, <2>1, BlockFacts
  <2> QED  BY <2>2 DEF Grows
<1> HIDE DEF D
<1>5. Filled(z.h, R, d, a, N)
  <2>1. z.h.mem \in MemType
      BY <1>2
  <2> HIDE DEF R, z
  <2> QED  BY <1>3, <1>4, <2>1, AllTablesIs
<1>6. PICK T \in SUBSET Block :
        /\ a.leaked = h.leaked /\ a.mem \in MemType
        /\ Grows(z.h, R, a, T)
        /\ \A x \in Block \ (T \cup {d}) : a.mem[x] = h.mem[x]
        /\ Block \subseteq R \cup T \/ (d \in R \cap Block /\ Linked(a, d, N, T))
    BY <1>2, <1>5 DEF Filled
<1>7. Holds(a, R \cup T) /\ T \cap R = {}
    BY <1>6 DEF Grows
<1>8. /\ c.h.mem = a.mem /\ c.h.leaked = a.leaked
      /\ \/ c.ptr = NULL /\ c.h = a
         \/ c.ptr \in Block \ (R \cup T) /\ Grows(a, R \cup T, c.h, {c.ptr})
  <2> HIDE DEF R, a
  <2> QED  BY <1>7, KzallocOne
<1>9. r.h = c.h /\ r.ptr = c.ptr /\ r.directory = d
    BY <1>1
<1> HIDE DEF z, a, c, r
<1>10. \A x \in S \cap Block : r.h.mem[x] = h.mem[x]
  <2>1. ASSUME NEW x \in S \cap Block
        PROVE  x \in Block \ (T \cup {d})
      BY <1>2, <1>7, BlockFacts
  <2> QED  BY <1>6, <1>8, <1>9, <2>1
<1>11. ASSUME c.ptr # NULL
       PROVE  /\ Grows(h, S, r.h, DirectoryBlocks(r.h.mem, d, c.ptr))
              /\ Whole(r.h.mem, d, c.ptr)
              /\ Identity(r.h.mem, d)
  <2>1. c.ptr \in Block \ (R \cup T) /\ Grows(a, R \cup T, c.h, {c.ptr})
      BY <1>8, <1>11
  <2>2. d \in R \cap Block /\ Linked(a, d, N, T)
      BY <1>6, <2>1
  <2>3. D = {d}
      BY <2>2, BlockFacts DEF D
  <2>4. T = {a.mem[d][j].base : j \in Index}
      BY <2>2, SpaceSizes DEF Linked
  <2>5. Grows(h, S, a, D \cup T)
      BY <1>4, <1>6, GrowsMore
  <2>6. Grows(h, S, c.h, (D \cup T) \cup {c.ptr})
    <3>1. S \cup (D \cup T) = R \cup T
        OBVIOUS
    <3>2. Grows(a, S \cup (D \cup T), c.h, {c.ptr})
        BY <2>1, <3>1
    <3> QED  BY <2>5, <3>2, GrowsMore
  <2>7. (D \cup T) \cup {c.ptr} = DirectoryBlocks(r.h.mem, d, c.ptr)
      BY <1>8, <1>9, <2>3, <2>4 DEF DirectoryBlocks
  <2>8. Whole(a.mem, d, c.ptr)
    <3>1. \A i, j \in Index : a.mem[d][i].base = a.mem[d][j].base => i = j
        BY <2>2, SpaceSizes DEF Linked
    <3>2. \A i \in Index : a.mem[d][i].base \in T
        BY <2>4
    <3>3. d \notin T /\ c.ptr \notin T /\ c.ptr # d
        BY <1>7, <2>1, <2>2
    <3> QED  BY <2>1, <2>2, <3>1, <3>2, <3>3 DEF Whole
  <2>9. Identity(a.mem, d)
      BY <2>2, LinkedIsIdentity
  <2> QED  BY <1>8, <1>9, <2>6, <2>7, <2>8, <2>9
<1>12. r.h = [table |-> r.h.table, mem |-> r.h.mem, leaked |-> r.h.leaked]
  <2>1. Holds(c.h, R \cup T) \/ Holds(c.h, (R \cup T) \cup {c.ptr})
      BY <1>7, <1>8 DEF Grows
  <2> QED  BY <1>9, <2>1 DEF Holds
<1> QED  BY <1>6, <1>8, <1>9, <1>10, <1>11, <1>12 DEF r

\* task_new: the task's block, then the directory.
LEMMA TaskNew ==
    ASSUME NEW h, NEW S, Holds(h, S), h.mem \in MemType
    PROVE  LET t == task_new(h)
           IN  /\ t.h = [table |-> t.h.table, mem |-> t.h.mem, leaked |-> t.h.leaked]
               /\ t.h.mem \in MemType /\ t.h.leaked = h.leaked
               /\ \A x \in S \cap Block : t.h.mem[x] = h.mem[x]
               /\ t.failed \in BOOLEAN
               /\ ~ t.failed =>
                    /\ t.task \in Block
                    /\ t.task \notin DirectoryBlocks(t.h.mem, t.directory, t.chunk)
                    /\ Grows(h, S, t.h,
                             {t.task} \cup DirectoryBlocks(t.h.mem, t.directory, t.chunk))
                    /\ Whole(t.h.mem, t.directory, t.chunk)
                    /\ Identity(t.h.mem, t.directory)
<1> DEFINE z == kzalloc(h, 1)
           r == paging_new_4gb(z.h, UserPage)
           t == task_new(h)
<1>1. t = [h |-> r.h, task |-> z.ptr, chunk |-> r.ptr, directory |-> r.directory,
           failed |-> z.ptr = NULL \/ r.ptr = NULL]
    BY DEF task_new
<1>2. /\ z.h.mem = h.mem /\ z.h.leaked = h.leaked
      /\ \/ z.ptr = NULL /\ z.h = h
         \/ z.ptr \in Block \ S /\ Grows(h, S, z.h, {z.ptr})
    BY KzallocOne
<1> DEFINE D == IF z.ptr = NULL THEN {} ELSE {z.ptr}
           R == S \cup D
<1>3. Grows(h, S, z.h, D) /\ Holds(z.h, R)
  <2>1. Grows(h, S, h, {})
      BY GrowsNothing
  <2>2. Grows(h, S, z.h, D)
      BY <1>2, <2>1, BlockFacts
  <2> QED  BY <2>2 DEF Grows
<1> HIDE DEF D
<1>4. /\ r.h = [table |-> r.h.table, mem |-> r.h.mem, leaked |-> r.h.leaked]
      /\ r.h.mem \in MemType /\ r.h.leaked = h.leaked
      /\ \A x \in R \cap Block : r.h.mem[x] = h.mem[x]
      /\ r.ptr # NULL =>
            /\ Grows(z.h, R, r.h, DirectoryBlocks(r.h.mem, r.directory, r.ptr))
            /\ Whole(r.h.mem, r.directory, r.ptr)
            /\ Identity(r.h.mem, r.directory)
  <2>1. z.h.mem \in MemType
      BY <1>2
  <2> HIDE DEF R, z
  <2> QED  BY <1>2, <1>3, <2>1, New4gb
<1>5. /\ t.h = r.h /\ t.task = z.ptr /\ t.chunk = r.ptr /\ t.directory = r.directory
      /\ t.failed = (z.ptr = NULL \/ r.ptr = NULL)
    BY <1>1
<1>6. t.failed \in BOOLEAN
    BY <1>5
<1> HIDE DEF z, r, t
<1>7. ASSUME z.ptr # NULL, r.ptr # NULL
      PROVE  /\ z.ptr \in Block
             /\ z.ptr \notin DirectoryBlocks(r.h.mem, r.directory, r.ptr)
             /\ Grows(h, S, r.h, {z.ptr} \cup DirectoryBlocks(r.h.mem, r.directory, r.ptr))
  <2>1. z.ptr \in Block /\ D = {z.ptr}
      BY <1>2, <1>7 DEF D
  <2>2. Grows(z.h, R, r.h, DirectoryBlocks(r.h.mem, r.directory, r.ptr))
      BY <1>4, <1>7
  <2>3. z.ptr \notin DirectoryBlocks(r.h.mem, r.directory, r.ptr)
      BY <2>1, <2>2 DEF Grows
  <2> QED  BY <1>3, <2>1, <2>2, <2>3, GrowsMore
<1>8. ~ t.failed => z.ptr # NULL /\ r.ptr # NULL
    BY <1>5
<1> QED  BY <1>4, <1>5, <1>6, <1>7, <1>8 DEF t
-----------------------------------------------------------------------------
(* Loading the data *)

\* Blocks that are lost change no block.
LEMMA Leaked ==
    ASSUME NEW h, NEW S, Holds(h, S), NEW g, NEW A, Grows(h, S, g, A), NEW L
    PROVE  /\ Leak(g, L).mem = g.mem /\ Leak(g, L).leaked = g.leaked \cup L
           /\ Grows(h, S, Leak(g, L), A)
<1>1. g = [table |-> g.table, mem |-> g.mem, leaked |-> g.leaked]
    BY DEF Grows, Holds
<1>2. Leak(g, L) = [table |-> g.table, mem |-> g.mem, leaked |-> g.leaked \cup L]
    BY <1>1 DEF Leak
<1> HIDE DEF Leak
<1> QED  BY <1>2, SameTable

\* The blocks L of the path are lost, those of the open file can be given back.
Opened(h, S, open, L) ==
    LET F == open.file \cap Block
    IN  /\ open.h.mem = h.mem /\ open.h.leaked = h.leaked \cup L
        /\ L \cap F = {} /\ F \cap S = {}
        /\ Grows(h, S, open.h, (L \cap Block) \cup F)
        /\ Freeable(S \cup ((L \cap Block) \cup F), F)

\* fopen takes free blocks; those of the path are lost.
LEMMA Fopen ==
    ASSUME NEW h, NEW S, Holds(h, S)
    PROVE  \E L \in SUBSET Cells : Opened(h, S, fopen(h), L)
<1> DEFINE path == Take(h, PathBlocks)
           file == Take(path.h, OpenBlocks)
           open == fopen(h)
           P == path.got \cap Block
           F == file.got \cap Block
<1>1. open = [h |-> Leak(file.h, path.got), file |-> file.got]
    BY DEF fopen
<1>2. Taken(h, S, path)
    BY TakeIs, LoaderAssumption
<1>3. Holds(path.h, S \cup P) /\ Grows(h, S, path.h, P)
    BY <1>2 DEF Taken, Grows
<1>4. Taken(path.h, S \cup P, file)
  <2> HIDE DEF P, path
  <2> QED  BY <1>3, TakeIs, LoaderAssumption
<1>5. open.h = Leak(file.h, path.got) /\ open.file = file.got
    BY <1>1
<1>6. /\ path.h.mem = h.mem /\ path.h.leaked = h.leaked /\ path.got \subseteq Cells
      /\ file.h.mem = h.mem /\ file.h.leaked = h.leaked
      /\ Grows(path.h, S \cup P, file.h, F)
    BY <1>2, <1>4 DEF Taken
<1> HIDE DEF path, file, open
<1>7. Grows(h, S, file.h, P \cup F)
    BY <1>3, <1>6, GrowsMore
<1>8. Freeable(S \cup (P \cup F), F)
  <2>1. Freeable((S \cup P) \cup F, F)
    <3> HIDE DEF P, F
    <3> QED  BY <1>3, <1>6, GrownFreeable
  <2>2. (S \cup P) \cup F = S \cup (P \cup F)
      OBVIOUS
  <2> QED  BY <2>1, <2>2
<1>9. F \cap (S \cup P) = {}
    BY <1>6 DEF Grows
<1>10. /\ open.h.mem = h.mem /\ open.h.leaked = h.leaked \cup path.got
       /\ Grows(h, S, open.h, P \cup F)
  <2> HIDE DEF P, F
  <2> QED  BY <1>5, <1>6, <1>7, Leaked
<1>11. Opened(h, S, open, path.got)
    BY <1>5, <1>6, <1>8, <1>9, <1>10 DEF Opened
<1> QED  BY <1>6, <1>11 DEF open

\* fclose after other allocations have been made.
LEMMA FcloseLater ==
    ASSUME NEW h, NEW S, NEW g, NEW A, NEW file, NEW F, F = file \cap Block,
           Grows(h, S, g, A), Freeable(S \cup A, F), F \subseteq A
    PROVE  /\ fclose(g, file).mem = g.mem /\ fclose(g, file).leaked = g.leaked
           /\ Grows(h, S, fclose(g, file), A \ F)
<1>1. Holds(g, S \cup A)
    BY DEF Grows
<1>2. Freeable(S \cup A, file \cap Block)
    OBVIOUS
<1>3. /\ fclose(g, file).mem = g.mem /\ fclose(g, file).leaked = g.leaked
      /\ Shrinks(g, S \cup A, fclose(g, file), F)
    BY <1>1, <1>2, Fclose
<1> QED  BY <1>3, GrowsShrunk

\* What loading the data leaves: the image, if there is one, and the blocks of the
\* path, which are lost.
DataFrom(h, S, d) ==
    \E L \in SUBSET Cells :
        /\ d.h.mem = h.mem /\ d.h.leaked = h.leaked \cup L
        /\ L \cap BlocksAt(d.ptr, d.size) = {}
        /\ Grows(h, S, d.h, (L \cap Block) \cup BlocksAt(d.ptr, d.size))
        /\ d.res \in Int
        /\ ImageFields(d)

\* A failed read of a program has taken what it lost.
LEMMA NoDataFrom ==
    ASSUME NEW h, NEW S, NEW g, NEW L \in SUBSET Cells, g.mem = h.mem,
           g.leaked = h.leaked \cup L, Grows(h, S, g, L \cap Block), NEW res \in Int
    PROVE  DataFrom(h, S, NoData(g, res))
<1> DEFINE d == NoData(g, res)
<1>1. /\ d.h = g /\ d.res = res /\ d.filetype = "ELF" /\ d.ptr = NULL /\ d.size = 0
    BY DEF NoData, Data
<1>2. BlocksAt(d.ptr, d.size) = {}
    BY <1>1 DEF BlocksAt
<1>3. ImageFields(d)
    BY <1>1 DEF ImageFields
<1> HIDE DEF d
<1>4. DataFrom(h, S, d)
    BY <1>1, <1>2, <1>3 DEF DataFrom
<1> QED  BY <1>4 DEF d

\* A block that was allocated is at its place.
LEMMA BlocksAtIs ==
    ASSUME NEW ptr \in Block, NEW size
    PROVE  BlocksAt(ptr, size) = Ext(ptr, total_blocks(size))
BY BlockFacts DEF BlocksAt, Ext

\* process_load_binary returns an image in blocks that were free, or nothing.
LEMMA LoadBinary ==
    ASSUME NEW h, NEW S, Holds(h, S), NEW file, Fits(file.size)
    PROVE  DataFrom(h, S, process_load_binary(h, file))
<1> DEFINE open == fopen(h)
           F == open.file \cap Block
           image == kzalloc(open.h, file.size)
           close(a) == fclose(a, open.file)
           d == process_load_binary(h, file)
           fails == NoData(close(open.h), -ENOMEM)
           works == Data(close(image.h), 0, "BINARY", image.ptr, file.size)
           frees == NoData(close(kfree(image.h, image.ptr)), -EIO)
           isdir == NoData(close(open.h), -EINVAGR)
<1>0. -ENOMEM \in Int /\ -EIO \in Int /\ -EINVAGR \in Int /\ 0 \in Int
    BY DEF ENOMEM, EIO, EINVAGR
<1>1. d = IF file.kind = "refused" THEN NoData(h, -EIO)
          ELSE IF file.kind = "directory" THEN isdir
          ELSE IF image.ptr = NULL THEN fails
          ELSE IF file.readable /\ file.size > 0 THEN works ELSE frees
    BY DEF process_load_binary
<1>2. DataFrom(h, S, NoData(h, -EIO))
  <2>1. Grows(h, S, h, {} \cap Block)
      BY GrowsNothing
  <2> QED  BY <1>0, <2>1, NoDataFrom
<1>a. PICK L \in SUBSET Cells : Opened(h, S, open, L)
    BY Fopen
<1>3. /\ open.h.mem = h.mem /\ open.h.leaked = h.leaked \cup L
      /\ L \cap F = {} /\ F \cap S = {}
      /\ Grows(h, S, open.h, (L \cap Block) \cup F)
      /\ Freeable(S \cup ((L \cap Block) \cup F), F)
    BY <1>a DEF Opened
<1> DEFINE P == L \cap Block
           A == P \cup F
<1>4. A \ F = P
    BY <1>3
<1>5. /\ close(open.h).mem = h.mem /\ close(open.h).leaked = h.leaked \cup L
      /\ Grows(h, S, close(open.h), P)
  <2>1. Grows(h, S, open.h, A) /\ Freeable(S \cup A, F) /\ F \subseteq A
      BY <1>3
  <2>2. /\ close(open.h).mem = open.h.mem /\ close(open.h).leaked = open.h.leaked
        /\ Grows(h, S, close(open.h), A \ F)
    <3> DEFINE o == open.h  fl == open.file
    <3>1. F = fl \cap Block /\ Grows(h, S, o, A)
        BY <2>1
    <3> HIDE DEF o, fl, A, F, open
    <3>2. /\ fclose(o, fl).mem = o.mem /\ fclose(o, fl).leaked = o.leaked
          /\ Grows(h, S, fclose(o, fl), A \ F)
        BY <2>1, <3>1, FcloseLater
    <3> QED  BY <3>2 DEF o, fl
  <2> QED  BY <1>3, <1>4, <2>2
<1>6. DataFrom(h, S, fails) /\ DataFrom(h, S, isdir)
  <2> HIDE DEF close
  <2> QED  BY <1>0, <1>3, <1>5, NoDataFrom
<1>7. CASE file.size = 0
  <2>1. Holds(open.h, S \cup A) /\ Fits(0)
      BY <1>3, <1>7 DEF Grows
  <2>2. image.h = open.h /\ (image.ptr = NULL \/ image.ptr \in Block \ (S \cup A))
    <3>1. /\ kzalloc(open.h, 0).h = open.h
          /\ kzalloc(open.h, 0).ptr = NULL \/ kzalloc(open.h, 0).ptr \in Block \ (S \cup A)
      <4> HIDE DEF open, A
      <4> QED  BY <2>1, KzallocNothing
    <3> QED  BY <1>7, <3>1
  <2>3. image.ptr # NULL => kfree(image.h, image.ptr) = open.h
      BY <2>1, <2>2, KfreeNothing
  <2>4. image.ptr # NULL => DataFrom(h, S, frees)
    <3>1. DataFrom(h, S, NoData(close(open.h), -EIO))
      <4> HIDE DEF close
      <4> QED  BY <1>0, <1>3, <1>5, NoDataFrom
    <3> QED  BY <2>3, <3>1
  <2>5. ~ (file.size > 0)
      BY <1>7
  <2> HIDE DEF fails, works, frees, isdir, d, image
  <2> QED  BY <1>1, <1>2, <1>6, <2>4, <2>5 DEF d
<1>8. CASE file.size > 0
  <2> DEFINE n == total_blocks(file.size)
             I == Ext(image.ptr, n)
  <2>1. Holds(open.h, S \cup A)
      BY <1>3 DEF Grows
  <2>2. /\ image.h.mem = open.h.mem /\ image.h.leaked = open.h.leaked
        /\ \/ image.ptr = NULL
           \/ /\ image.ptr \in Block
              /\ Grows(open.h, S \cup A, image.h, I)
              /\ Allocation(image.h, (S \cup A) \cup I, image.ptr, n)
    <3> DEFINE o == open.h  sz == file.size
    <3>1. Holds(o, S \cup A) /\ Fits(sz) /\ sz > 0
        BY <1>8, <2>1
    <3> HIDE DEF o, sz, A, open
    <3>2. LET z == kzalloc(o, sz)
              k == total_blocks(sz)
          IN  /\ z.h.mem = o.mem /\ z.h.leaked = o.leaked
              /\ \/ z.ptr = NULL
                 \/ /\ z.ptr \in Block
                    /\ Grows(o, S \cup A, z.h, Ext(z.ptr, k))
                    /\ Allocation(z.h, (S \cup A) \cup Ext(z.ptr, k), z.ptr, k)
        BY <3>1, Kzalloc
    <3> QED  BY <3>2 DEF o, sz
  <2>3. ASSUME image.ptr # NULL
        PROVE  DataFrom(h, S, works) /\ DataFrom(h, S, frees)
    <3>1. /\ image.ptr \in Block
          /\ Grows(open.h, S \cup A, image.h, I)
          /\ Allocation(image.h, (S \cup A) \cup I, image.ptr, n)
        BY <2>2, <2>3
    <3>2. Grows(h, S, image.h, A \cup I)
      <4> HIDE DEF A, I, image, open
      <4> QED  BY <1>3, <3>1, GrowsMore DEF A
    <3>3. I \cap (S \cup A) = {} /\ (A \cup I) \ F = P \cup I /\ (A \cup I) \ I = A
      <4>1. I \cap (S \cup A) = {}
          BY <3>1 DEF Grows
      <4> HIDE DEF I
      <4> QED  BY <1>3, <4>1
    <3>4. (S \cup A) \cup I = S \cup (A \cup I)
        OBVIOUS
    <3>5. Freeable(S \cup (A \cup I), F)
      <4>1. Freeable(S \cup A, F)
          BY <1>3
      <4> HIDE DEF A, I, image, open, F
      <4> QED  BY <3>1, <3>4, <4>1, FreeableGrown
    <3>6. DataFrom(h, S, works)
      <4> DEFINE g == image.h  fl == open.file
      <4>1. /\ close(g).mem = g.mem /\ close(g).leaked = g.leaked
            /\ Grows(h, S, close(g), (A \cup I) \ F)
        <5>1. Grows(h, S, g, A \cup I) /\ Freeable(S \cup (A \cup I), F) /\ F \subseteq A \cup I
              /\ F = fl \cap Block
            BY <3>2, <3>5
        <5> HIDE DEF g, fl, A, I, F
        <5>2. /\ fclose(g, fl).mem = g.mem /\ fclose(g, fl).leaked = g.leaked
              /\ Grows(h, S, fclose(g, fl), (A \cup I) \ F)
            BY <5>1, FcloseLater
        <5> QED  BY <5>2 DEF fl
      <4>2. close(g).mem = h.mem /\ close(g).leaked = h.leaked \cup L
          BY <1>3, <2>2, <4>1
      <4>3. /\ works.h = close(g) /\ works.res = 0 /\ works.filetype = "BINARY"
            /\ works.ptr = image.ptr /\ works.size = file.size
          BY DEF Data
      <4> HIDE DEF close, works, image, n
      <4>4. BlocksAt(works.ptr, works.size) = I
          BY <3>1, <4>3, BlocksAtIs DEF n
      <4>5. ImageFields(works)
          BY <1>8, <3>1, <4>3 DEF ImageFields
      <4>6. L \cap I = {}
        <5>1. I \subseteq Nat /\ NULL \notin Nat /\ L \subseteq Cells
          <6>1. I \subseteq Nat
              BY <3>1 DEF Grows
          <6> QED  BY <1>3, <6>1 DEF NULL
        <5> HIDE DEF I
        <5> QED  BY <3>3, <5>1 DEF Cells
      <4>7. Grows(h, S, works.h, P \cup I)
          BY <3>3, <4>1, <4>3
      <4> HIDE DEF I
      <4> QED  BY <1>0, <4>2, <4>3, <4>4, <4>5, <4>6, <4>7 DEF DataFrom
    <3>7. DataFrom(h, S, frees)
      <4> DEFINE k == kfree(image.h, image.ptr)  g == image.h  ip == image.ptr
      <4>1. /\ k.mem = g.mem /\ k.leaked = g.leaked
            /\ Shrinks(g, S \cup (A \cup I), k, I)
        <5>1. Holds(g, S \cup (A \cup I)) /\ Allocation(g, S \cup (A \cup I), ip, n)
            BY <3>1, <3>2, <3>4 DEF Grows
        <5> HIDE DEF g, A, n, image, open
        <5>2. /\ kfree(g, ip).mem = g.mem /\ kfree(g, ip).leaked = g.leaked
              /\ Shrinks(g, S \cup (A \cup I), kfree(g, ip), Ext(ip, n))
            BY <5>1, Kfree
        <5> QED  BY <5>2 DEF g
      <4>2. Grows(h, S, k, A)
        <5>1. Grows(h, S, g, A \cup I) /\ I \subseteq A \cup I
            BY <3>2
        <5>2. Grows(h, S, k, (A \cup I) \ I)
          <6> HIDE DEF k, A, I, g
          <6> QED  BY <4>1, <5>1, GrowsShrunk
        <5> QED  BY <3>3, <5>2
      <4>3. /\ close(k).mem = k.mem /\ close(k).leaked = k.leaked
            /\ Grows(h, S, close(k), A \ F)
        <5> DEFINE fl == open.file
        <5>1. Freeable(S \cup A, F) /\ F \subseteq A /\ F = fl \cap Block
            BY <1>3
        <5> HIDE DEF k, fl, A, F
        <5>2. /\ fclose(k, fl).mem = k.mem /\ fclose(k, fl).leaked = k.leaked
              /\ Grows(h, S, fclose(k, fl), A \ F)
            BY <4>2, <5>1, FcloseLater
        <5> QED  BY <5>2 DEF fl
      <4>4. close(k).mem = h.mem /\ close(k).leaked = h.leaked \cup L
            /\ Grows(h, S, close(k), P)
          BY <1>3, <1>4, <2>2, <4>1, <4>3
      <4> HIDE DEF close, k
      <4>5. DataFrom(h, S, NoData(close(k), -EIO))
          BY <1>0, <1>3, <4>4, NoDataFrom
      <4> QED  BY <4>5 DEF k
    <3> QED  BY <3>6, <3>7
  <2> HIDE DEF fails, works, frees, isdir, d, image
  <2> QED  BY <1>1, <1>2, <1>6, <2>3 DEF d
<1>9. file.size \in Nat
    BY DEF Fits
<1> QED  BY <1>7, <1>8, <1>9

\* So does process_load_data, whichever loader it ends in.
LEMMA LoadData ==
    ASSUME NEW h, NEW S, Holds(h, S), NEW file \in Programs
    PROVE  DataFrom(h, S, process_load_data(h, file))
<1>1. file.elf \in Int /\ Fits(file.size)
    BY LoaderAssumption
<1>2. DataFrom(h, S, process_load_binary(h, file))
    BY <1>1, LoadBinary
<1>3. DataFrom(h, S, NoData(h, file.elf))
  <2>1. Grows(h, S, h, {} \cap Block)
      BY GrowsNothing
  <2> QED  BY <1>1, <2>1, NoDataFrom
<1> QED  BY <1>2, <1>3 DEF process_load_data
-----------------------------------------------------------------------------
(* Mapping the image and the stack *)

HeapPage == PageOf(HeapAddr)

\* The blocks are pages, one after the other.
LEMMA BlockPages ==
    /\ HeapPage \in Nat
    /\ \A b \in Nat : heap_block_to_address(b) = (HeapPage + b) * PageSize
                        /\ BlockPage(b) = HeapPage + b
<1>1. PageSize \in Nat \ {0} /\ BlockSize = PageSize /\ HeapAddr \in Nat
      /\ HeapAddr % PageSize = 0
    BY SpaceSizes, TableAssumption, LoaderAssumption
<1>2. HeapPage \in Nat /\ HeapAddr = PageSize * HeapPage
    BY <1>1 DEF HeapPage, PageOf
<1>3. ASSUME NEW b \in Nat
      PROVE  heap_block_to_address(b) = (HeapPage + b) * PageSize
             /\ BlockPage(b) = HeapPage + b
  <2>1. heap_block_to_address(b) = HeapAddr + b * PageSize
      BY <1>1 DEF heap_block_to_address
  <2>2. heap_block_to_address(b) = (HeapPage + b) * PageSize
    <3> HIDE DEF HeapPage
    <3>1. (HeapPage + b) * PageSize = PageSize * HeapPage + b * PageSize
        BY <1>1, <1>2
    <3> QED  BY <1>2, <2>1, <3>1
  <2>3. heap_block_to_address(b) = PageSize * (HeapPage + b) + 0 /\ HeapPage + b \in Int
        /\ 0 \in 0 .. PageSize - 1 /\ heap_block_to_address(b) \in Int
    <3> DEFINE k == HeapPage + b
    <3>1. k \in Nat
        BY <1>2
    <3> HIDE DEF k
    <3>2. k * PageSize = PageSize * k + 0 /\ k * PageSize \in Int
        BY <1>1, <3>1
    <3> QED  BY <1>1, <2>2, <3>1, <3>2 DEF k
  <2>4. heap_block_to_address(b) \div PageSize = HeapPage + b
    <3> DEFINE a == heap_block_to_address(b)
               k == HeapPage + b
    <3>1. a = PageSize * k + 0 /\ k \in Int /\ a \in Int /\ 0 \in 0 .. PageSize - 1
        BY <2>3
    <3> HIDE DEF a, k
    <3>2. a \div PageSize = k
        BY <1>1, <3>1, DivMod
    <3> QED  BY <3>2 DEF a, k
  <2> QED  BY <2>2, <2>4 DEF BlockPage, PageOf
<1> QED  BY <1>2, <1>3

\* An allocation lies below the end of the address space, also behind the table.
LEMMA Frames ==
    ASSUME NEW ptr \in Block, NEW size, Fits(size), size > 0
    PROVE  /\ (HeapPage + ptr) + total_blocks(size) <= N * N
           /\ HeapPage + ptr \in Page
<1> DEFINE n == total_blocks(size)
           k == HeapPage + (Total - 1)
           M == N * N
<1>1. n \in Nat \ {0} /\ n * PageSize = paging_align_address(size)
    BY RoundUp
<1>2. Total - 1 \in Nat /\ ptr \in Nat /\ ptr <= Total - 1
    BY BlockFacts
<1>3. k \in Nat /\ HeapPage \in Nat /\ M \in Nat /\ PageSize \in Nat \ {0}
  <2>1. HeapPage \in Nat
      BY BlockPages
  <2>2. M \in Nat /\ PageSize \in Nat \ {0}
      BY SpaceSizes
  <2> QED  BY <1>2, <2>1, <2>2
<1>4. heap_block_to_address(Total - 1) + paging_align_address(size) <= Space
    BY DEF Fits
<1>5. k * PageSize + n * PageSize <= M * PageSize
    BY <1>1, <1>2, <1>4, BlockPages, SpaceSizes
<1>6. Page = 0 .. M - 1
    BY SpaceSizes
<1> HIDE DEF n, M
<1>7. k + n <= M
  <2>1. ASSUME k + n >= M + 1
        PROVE  FALSE
    <3> HIDE DEF k
    <3>1. PageSize * (M + 1) <= PageSize * (k + n)
        BY <1>1, <1>3, <2>1, AtLeast
    <3>2. PageSize * (M + 1) = M * PageSize + PageSize
          /\ PageSize * (k + n) = k * PageSize + n * PageSize
        BY <1>1, <1>3
    <3>3. k * PageSize \in Int /\ n * PageSize \in Int /\ M * PageSize \in Int
        BY <1>1, <1>3
    <3> QED  BY <1>3, <1>5, <3>1, <3>2, <3>3
  <2> QED  BY <1>1, <1>3, <2>1
<1> QED  BY <1>1, <1>2, <1>3, <1>6, <1>7 DEF n, M

\* The end of an allocation, rounded up as the callers of paging_map_to do.
LEMMA AlignedEnd ==
    ASSUME NEW ptr \in Block, NEW size, Fits(size)
    PROVE  paging_align_address(heap_block_to_address(ptr) + size)
                = heap_block_to_address(ptr) + total_blocks(size) * PageSize
<1> DEFINE a == heap_block_to_address(ptr)
           k == HeapPage + ptr
           q == size \div PageSize
           r == size % PageSize
<1>1. size \in Nat /\ total_blocks(size) * PageSize = paging_align_address(size)
    BY RoundUp
<1>2. PageSize \in Nat \ {0} /\ k \in Nat /\ a = k * PageSize /\ a \in Nat
  <2>1. PageSize \in Nat \ {0} /\ ptr \in Nat
      BY SpaceSizes, BlockFacts
  <2>2. k \in Nat /\ a = k * PageSize
      BY <2>1, BlockPages
  <2> HIDE DEF k
  <2> QED  BY <2>1, <2>2
<1>3. q \in Int /\ r \in 0 .. PageSize - 1 /\ size = PageSize * q + r
    BY <1>1, <1>2
<1>4. (a + size) % PageSize = r
  <2> HIDE DEF a, k, q, r
  <2>1. PageSize * (k + q) = k * PageSize + PageSize * q
      BY <1>2, <1>3
  <2>2. a + size = PageSize * (k + q) + r /\ k + q \in Int /\ a + size \in Int
      BY <1>1, <1>2, <1>3, <2>1
  <2> QED  BY <1>2, <1>3, <2>2, DivMod
<1> HIDE DEF a
<1> QED  BY <1>1, <1>2, <1>3, <1>4 DEF paging_align_address, a

\* paging_map_to over an allocation.
LEMMA MapTo ==
    ASSUME NEW h, h = [table |-> h.table, mem |-> h.mem, leaked |-> h.leaked],
           h.mem \in MemType, NEW d, Directory(h.mem, d), NEW v \in Page,
           NEW ptr \in Block, NEW size, Fits(size), size > 0
    PROVE  LET g == paging_map_to(h, d, v * PageSize, heap_block_to_address(ptr),
                        paging_align_address(heap_block_to_address(ptr) + size), UserData)
           IN  /\ g = [table |-> h.table, mem |-> g.mem, leaked |-> h.leaked]
               /\ Mapped(h.mem, g.mem, d, v, HeapPage + ptr, total_blocks(size), UserData)
<1> DEFINE n == total_blocks(size)
           f == HeapPage + ptr
           phys == heap_block_to_address(ptr)
           end == paging_align_address(phys + size)
           g == paging_map_to(h, d, v * PageSize, phys, end, UserData)
<1>1. n \in Nat /\ PageSize \in Nat \ {0} /\ f \in Page /\ f + n <= N * N /\ f \in Nat /\ v \in Nat
    BY RoundUp, Frames, SpaceSizes
<1>2. phys = f * PageSize /\ end = phys + n * PageSize
    BY BlockPages, BlockFacts, AlignedEnd
<1> HIDE DEF n, f, phys, end
<1>3. phys \in Nat /\ end = PageSize * (f + n) + 0 /\ end \in Nat /\ phys <= end
      /\ end - phys = PageSize * n + 0 /\ phys = PageSize * f + 0
      /\ v * PageSize = PageSize * v + 0 /\ v * PageSize \in Int
    BY <1>1, <1>2
<1>4. /\ (v * PageSize) % PageSize = 0 /\ phys % PageSize = 0 /\ end % PageSize = 0
      /\ (end - phys) \div PageSize = n
  <2>1. 0 \in 0 .. PageSize - 1 /\ f + n \in Int /\ end - phys \in Int
      BY <1>1, <1>3
  <2> QED  BY <1>1, <1>3, <2>1, DivMod
<1>5. Mappable(v * PageSize, phys, end)
    BY <1>3, <1>4 DEF Mappable, paging_is_aligned
<1> DEFINE m == paging_map_range(h.mem, d, v * PageSize, f * PageSize, n, UserData)
<1>6. g = [h EXCEPT !.mem = paging_map_range(h.mem, d, v * PageSize, phys, n, UserData)]
    BY <1>4, <1>5 DEF paging_map_to
<1>7. g = [table |-> h.table, mem |-> m, leaked |-> h.leaked]
    BY <1>2, <1>6
<1>8. Mapped(h.mem, m, d, v, f, n, UserData)
  <2>1. UserData \in FlagSets
      BY DEF FlagSets
  <2> QED  BY <1>1, <2>1, MapRange
<1> HIDE DEF m, g
<1> QED  BY <1>7, <1>8 DEF g, phys, end, n, f

\* A range that does not wrap.
MappedPage(m, n, d, v, f, count, flags, page) ==
    paging_get(n, d, page * PageSize)
        = IF page - v \in 0 .. count - 1 THEN Entry((f + (page - v)) * PageSize, flags)
          ELSE paging_get(m, d, page * PageSize)

\* What a mapping of count pages says of one page.
LEMMA MappedPages ==
    ASSUME NEW m, NEW n, NEW d, NEW v \in Page, NEW f \in Nat, NEW count \in Nat,
           v + count <= N * N, NEW flags, Mapped(m, n, d, v, f, count, flags), NEW page \in Page
    PROVE  MappedPage(m, n, d, v, f, count, flags, page)
<1> SUFFICES paging_get(n, d, page * PageSize)
                = IF page - v \in 0 .. count - 1 THEN Entry((f + (page - v)) * PageSize, flags)
                  ELSE paging_get(m, d, page * PageSize)
    BY DEF MappedPage
<1> DEFINE M == N * N
           r == (page - v) % M
<1>1. M \in Nat \ {0} /\ v \in 0 .. M - 1 /\ page \in 0 .. M - 1
    BY SpaceSizes
<1>2. paging_get(n, d, page * PageSize)
        = IF r < count THEN Entry((f + r) * PageSize, flags)
          ELSE paging_get(m, d, page * PageSize)
    BY DEF Mapped
<1>3. page >= v => r = page - v
  <2>1. page >= v => page - v = M * 0 + (page - v) /\ page - v \in 0 .. M - 1
    <3> HIDE DEF M
    <3> QED  BY <1>1
  <2> HIDE DEF M
  <2>2. ASSUME page >= v
        PROVE  r = page - v
    <3> DEFINE x == page - v
    <3>1. x = M * 0 + x /\ x \in 0 .. M - 1 /\ x \in Int
        BY <1>1, <2>1, <2>2
    <3> HIDE DEF x
    <3>2. x % M = x
        BY <1>1, <3>1, DivMod
    <3> QED  BY <3>2 DEF x
  <2> QED  BY <2>2
<1>4. page < v => r = (page - v) + M
  <2>1. page < v => page - v = M * (-1) + ((page - v) + M) /\ (page - v) + M \in 0 .. M - 1
    <3> HIDE DEF M
    <3> QED  BY <1>1
  <2>2. page - v \in Int /\ -1 \in Int
      BY <1>1
  <2> HIDE DEF M
  <2>3. ASSUME page < v
        PROVE  r = (page - v) + M
    <3> DEFINE x == (page - v) + M
    <3>1. page - v = M * (-1) + x /\ x \in 0 .. M - 1
        BY <2>1, <2>3
    <3> HIDE DEF x
    <3>2. (page - v) % M = x
        BY <1>1, <2>2, <3>1, DivMod
    <3> QED  BY <3>2 DEF x
  <2> QED  BY <2>3
<1>5. v + count <= M
    OBVIOUS
<1> HIDE DEF M, r
<1>6. CASE page >= v
  <2>1. r = page - v
      BY <1>3, <1>6
  <2>2. r < count <=> page - v \in 0 .. count - 1
      BY <1>1, <1>6, <2>1
  <2> QED  BY <1>2, <2>1, <2>2
<1>7. CASE page < v
  <2>1. ~ (r < count) /\ ~ (page - v \in 0 .. count - 1)
      BY <1>1, <1>4, <1>5, <1>7
  <2> QED  BY <1>2, <2>1
<1> QED  BY <1>1, <1>6, <1>7

\* Where the image and the stack are: the stack below the image, and either
\* before the end of the address space.
LEMMA Places ==
    LET v == PageOf(ProgramAddr)
        w == PageOf(StackEnd)
    IN  /\ v \in Page /\ ProgramAddr = v * PageSize /\ v <= HeapPage
        /\ w \in Page /\ StackEnd = w * PageSize
        /\ w + total_blocks(StackSize) <= v
<1> DEFINE v == PageOf(ProgramAddr)
           w == PageOf(StackEnd)
           n == total_blocks(StackSize)
           B == PageSize
<1>1. /\ B \in Nat \ {0} /\ ProgramAddr \in Nat /\ StackEnd \in Nat /\ HeapAddr \in Nat
      /\ ProgramAddr % B = 0 /\ StackEnd % B = 0 /\ HeapAddr % B = 0
      /\ StackSize \in Nat \ {0} /\ StackEnd + StackSize <= ProgramAddr
      /\ ProgramAddr < HeapAddr
    BY SpaceSizes, TableAssumption, LoaderAssumption
<1>2. /\ v \in Nat /\ w \in Nat /\ HeapPage \in Nat
      /\ ProgramAddr = B * v /\ StackEnd = B * w /\ HeapAddr = B * HeapPage
    BY <1>1 DEF PageOf, HeapPage
<1>3. n \in Nat \ {0} /\ n * B = paging_align_address(StackSize)
    BY RoundUp, LoaderAssumption
<1>4. n * B < StackSize + B /\ n * B \in Nat
  <2>1. StackSize % B \in 0 .. B - 1
      BY <1>1
  <2>2. n * B = IF StackSize % B # 0 THEN StackSize + B - (StackSize % B) ELSE StackSize
      BY <1>3 DEF paging_align_address
  <2>3. n * B \in Nat
      BY <1>1, <1>3
  <2> HIDE DEF B, n
  <2> QED  BY <1>1, <2>1, <2>2, <2>3
<1> HIDE DEF v, w, n, B, HeapPage
<1>5. w + n <= v
  <2>1. ASSUME v + 1 <= w + n
        PROVE  FALSE
    <3>1. B * (v + 1) <= B * (w + n)
        BY <1>1, <1>2, <1>3, <2>1, AtLeast
    <3>2. B * (v + 1) = B * v + B /\ B * (w + n) = B * w + n * B /\ B * v \in Int /\ B * w \in Int
        BY <1>1, <1>2, <1>3
    <3> QED  BY <1>1, <1>2, <1>3, <1>4, <3>1, <3>2
  <2> QED  BY <1>2, <1>3, <2>1
<1>6. v <= HeapPage
  <2>1. ASSUME HeapPage <= v
        PROVE  B * HeapPage <= B * v
      BY <1>1, <1>2, <2>1, AtLeast
  <2> QED  BY <1>1, <1>2, <2>1
<1>7. HeapPage \in Page
  <2>1. 0 \in Block /\ Fits(1) /\ HeapPage + 0 = HeapPage
      BY <1>2, BlockFacts, LoaderAssumption
  <2> QED  BY <2>1, Frames
<1>8. v \in Page /\ w \in Page
  <2>1. \A x \in Nat : x <= HeapPage => x \in Page
    <3>1. Page = 0 .. N * N - 1 /\ N * N \in Nat
        BY SpaceSizes
    <3> QED  BY <1>2, <1>7, <3>1
  <2> QED  BY <1>2, <1>3, <1>5, <1>6, <2>1
<1>9. B * v = v * B /\ B * w = w * B
    BY <1>1, <1>2
<1> QED  BY <1>2, <1>5, <1>6, <1>8, <1>9 DEF v, w, n, B

\* The blocks of an allocation are as many as its size needs.
LEMMA BlocksCounted ==
    ASSUME NEW ptr \in Block, NEW size, Fits(size)
    PROVE  Cardinality(BlocksAt(ptr, size)) = total_blocks(size)
<1> DEFINE n == total_blocks(size)
<1>1. n \in Nat /\ ptr \in Nat
    BY RoundUp, BlockFacts
<1>2. BlocksAt(ptr, size) = ptr .. ptr + n - 1
    BY BlocksAtIs DEF Ext
<1> HIDE DEF n
<1>3. Cardinality(ptr .. ptr + n - 1) = IF ptr > ptr + n - 1 THEN 0 ELSE (ptr + n - 1) - ptr + 1
    BY <1>1, FS_Interval
<1> QED  BY <1>1, <1>2, <1>3 DEF n

\* A whole directory is one that paging_map_to can write to.
LEMMA WholeDirectory ==
    ASSUME NEW m, NEW d, NEW c, Whole(m, d, c)
    PROVE  Directory(m, d)
BY DEF Whole, Directory, Cells

\* process_map_memory changes the tables of the process and no other block, and
\* has mapped what it should.
LEMMA MapMemory ==
    ASSUME NEW h, h = [table |-> h.table, mem |-> h.mem, leaked |-> h.leaked],
           h.mem \in MemType, NEW p, Fields(p), Whole(h.mem, p.directory, p.chunk),
           Identity(h.mem, p.directory)
    PROVE  LET g == process_map_memory(h, p)
           IN  /\ g = [table |-> h.table, mem |-> g.mem, leaked |-> h.leaked]
               /\ g.mem \in MemType
               /\ \A x \in Cells : (\A j \in Index : x # h.mem[p.directory][j].base)
                        => g.mem[x] = h.mem[x]
               /\ MappedIn(g.mem, p)
<1> DEFINE d == p.directory
           binary == process_map_binary(h, p)
           image == IF p.filetype = "BINARY" THEN binary ELSE h
           stack == heap_block_to_address(p.stack)
           g == process_map_memory(h, p)
           v == PageOf(ProgramAddr)
           w == PageOf(StackEnd)
           f == HeapPage + p.ptr
           e == HeapPage + p.stack
           n == total_blocks(p.size)
           k == total_blocks(StackSize)
           Same(m) == \A x \in Cells : (\A j \in Index : x # h.mem[d][j].base) => m[x] = h.mem[x]
<1>1. /\ v \in Page /\ ProgramAddr = v * PageSize /\ v <= HeapPage
      /\ w \in Page /\ StackEnd = w * PageSize /\ w + k <= v
    BY Places
<1>2. g = paging_map_to(image, d, StackEnd, stack, paging_align_address(stack + StackSize), UserData)
    BY DEF process_map_memory
<1>3. Directory(h.mem, d)
    BY WholeDirectory
<1>4. /\ p.stack \in Block /\ p.stack \in Nat /\ HeapPage \in Nat /\ Fits(StackSize) /\ StackSize > 0
      /\ k \in Nat \ {0} /\ v \in Nat /\ w \in Nat /\ N * N \in Nat
  <2>1. p.stack \in Block /\ HeapPage \in Nat /\ Fits(StackSize) /\ StackSize > 0
      BY BlockPages, LoaderAssumption DEF Fields
  <2>2. k \in Nat \ {0}
      BY <2>1, RoundUp, LoaderAssumption
  <2>3. v \in Nat /\ w \in Nat /\ N * N \in Nat
      BY <1>1, SpaceSizes
  <2> QED  BY <2>1, <2>2, <2>3, BlockFacts
<1>5. ASSUME p.filetype = "BINARY"
      PROVE  /\ p.ptr \in Block /\ p.ptr \in Nat /\ Fits(p.size) /\ p.size > 0
             /\ n \in Nat \ {0} /\ f \in Nat /\ v + n <= N * N
             /\ binary = [table |-> h.table, mem |-> binary.mem, leaked |-> h.leaked]
             /\ Mapped(h.mem, binary.mem, d, v, f, n, UserData)
  <2>1. p.ptr \in Block /\ p.ptr \in Nat /\ Fits(p.size) /\ p.size > 0
      BY <1>5, BlockFacts DEF Fields, ImageFields
  <2>2. n \in Nat \ {0}
      BY <2>1, RoundUp
  <2>3. f + n <= N * N
      BY <2>1, Frames
  <2>4. binary = paging_map_to(h, d, v * PageSize, heap_block_to_address(p.ptr),
                    paging_align_address(heap_block_to_address(p.ptr) + p.size), UserData)
      BY <1>1 DEF process_map_binary
  <2> DEFINE ptr == p.ptr  size == p.size
             b == paging_map_to(h, d, v * PageSize, heap_block_to_address(ptr),
                        paging_align_address(heap_block_to_address(ptr) + size), UserData)
  <2>5. /\ b = [table |-> h.table, mem |-> b.mem, leaked |-> h.leaked]
        /\ Mapped(h.mem, b.mem, d, v, HeapPage + ptr, total_blocks(size), UserData)
    <3>1. ptr \in Block /\ Fits(size) /\ size > 0
        BY <2>1
    <3> HIDE DEF ptr, size, d, v
    <3> QED  BY <1>1, <1>3, <3>1, MapTo
  <2> HIDE DEF v, n, binary
  <2> QED  BY <1>1, <1>4, <2>1, <2>2, <2>3, <2>4, <2>5 DEF n, v
<1>6. /\ image = [table |-> h.table, mem |-> image.mem, leaked |-> h.leaked]
      /\ image.mem \in MemType /\ Same(image.mem)
  <2>1. CASE p.filetype = "BINARY"
    <3>1. image = binary
        BY <2>1
    <3> HIDE DEF image, binary, v, f, n
    <3> QED  BY <1>5, <2>1, <3>1 DEF Mapped
  <2>2. CASE p.filetype # "BINARY"
    <3>1. image = h
        BY <2>2
    <3> HIDE DEF image
    <3> QED  BY <3>1
  <2> QED  BY <2>1, <2>2
<1>7. \A page \in Page : paging_get(image.mem, d, page * PageSize)
            = IF p.filetype = "BINARY" /\ page - v \in 0 .. n - 1
              THEN Entry((f + (page - v)) * PageSize, UserData)
              ELSE Entry(page * PageSize, UserPage)
  <2> SUFFICES ASSUME NEW page \in Page
               PROVE  paging_get(image.mem, d, page * PageSize)
                        = IF p.filetype = "BINARY" /\ page - v \in 0 .. n - 1
                          THEN Entry((f + (page - v)) * PageSize, UserData)
                          ELSE Entry(page * PageSize, UserPage)
      OBVIOUS
  <2>0. paging_get(h.mem, d, page * PageSize) = Entry(page * PageSize, UserPage)
      BY DEF Identity
  <2>1. CASE p.filetype = "BINARY"
    <3>1. image = binary
        BY <2>1
    <3> HIDE DEF image, binary, v, f, n, d
    <3>2. paging_get(binary.mem, d, page * PageSize)
            = IF page - v \in 0 .. n - 1 THEN Entry((f + (page - v)) * PageSize, UserData)
              ELSE paging_get(h.mem, d, page * PageSize)
      <4> DEFINE m == h.mem
                 bm == binary.mem
      <4>1. v \in Page /\ f \in Nat /\ n \in Nat /\ v + n <= N * N /\ Mapped(m, bm, d, v, f, n, UserData)
          BY <1>1, <1>5, <2>1
      <4> HIDE DEF m, bm
      <4>2. MappedPage(m, bm, d, v, f, n, UserData, page)
          BY <4>1, MappedPages
      <4> QED  BY <4>2 DEF m, bm, MappedPage
    <3> QED  BY <2>0, <2>1, <3>1, <3>2
  <2>2. CASE p.filetype # "BINARY"
    <3>1. image = h
        BY <2>2
    <3> HIDE DEF image
    <3> QED  BY <2>0, <2>2, <3>1
  <2> QED  BY <2>1, <2>2
<1> HIDE DEF image, binary
<1>8. image.mem[d] = h.mem[d] /\ Directory(image.mem, d)
  <2>1. image.mem[d] = h.mem[d]
      BY <1>3, <1>6 DEF Directory
  <2> QED  BY <1>3, <2>1 DEF Directory
<1>9. /\ g = [table |-> image.table, mem |-> g.mem, leaked |-> image.leaked]
      /\ Mapped(image.mem, g.mem, d, w, e, k, UserData)
  <2> DEFINE ptr == p.stack
             b == paging_map_to(image, d, w * PageSize, heap_block_to_address(ptr),
                        paging_align_address(heap_block_to_address(ptr) + StackSize), UserData)
  <2>1. /\ b = [table |-> image.table, mem |-> b.mem, leaked |-> image.leaked]
        /\ Mapped(image.mem, b.mem, d, w, HeapPage + ptr, total_blocks(StackSize), UserData)
    <3>1. ptr \in Block /\ image = [table |-> image.table, mem |-> image.mem, leaked |-> image.leaked]
      <4>1. ptr \in Block
          BY <1>4
      <4>2. image.table = h.table /\ image.leaked = h.leaked
          BY <1>6
      <4> QED  BY <1>6, <4>1, <4>2
    <3> HIDE DEF ptr, d, w
    <3> QED  BY <1>1, <1>4, <1>6, <1>8, <3>1, MapTo
  <2>2. g = b
      BY <1>1, <1>2
  <2> HIDE DEF g, b
  <2> QED  BY <2>1, <2>2
<1>10. \A page \in Page : paging_get(g.mem, d, page * PageSize)
            = IF page - w \in 0 .. k - 1 THEN Entry((e + (page - w)) * PageSize, UserData)
              ELSE paging_get(image.mem, d, page * PageSize)
  <2>1. e \in Nat /\ w + k <= N * N
    <3>1. v <= N * N
        BY <1>1, SpaceSizes
    <3> HIDE DEF v, w, k
    <3> QED  BY <1>1, <1>4, <3>1
  <2> DEFINE m == image.mem
             gm == g.mem
  <2> HIDE DEF g, w, e, k, d
  <2>2. w \in Page /\ e \in Nat /\ k \in Nat /\ w + k <= N * N /\ Mapped(m, gm, d, w, e, k, UserData)
      BY <1>1, <1>4, <1>9, <2>1
  <2> HIDE DEF m, gm
  <2>3. \A page \in Page : MappedPage(m, gm, d, w, e, k, UserData, page)
      BY <2>2, MappedPages
  <2> QED  BY <2>3 DEF m, gm, MappedPage
<1>11. Same(g.mem) /\ g.mem \in MemType
  <2> HIDE DEF g
  <2> QED  BY <1>6, <1>8, <1>9 DEF Mapped
<1>12. MappedIn(g.mem, p)
  <2> SUFFICES ASSUME NEW page \in Page
               PROVE  paging_get(g.mem, d, page * PageSize) =
                        IF p.filetype = "BINARY" /\ page - v \in 0 .. Cardinality(Image(p)) - 1
                        THEN Entry(heap_block_to_address(p.ptr + (page - v)), UserData)
                        ELSE IF page - w \in 0 .. Cardinality(Stack(p)) - 1
                        THEN Entry(heap_block_to_address(p.stack + (page - w)), UserData)
                        ELSE Entry(page * PageSize, UserPage)
      BY DEF MappedIn
  <2>1. Cardinality(Stack(p)) = k
      BY <1>4, BlocksCounted DEF Stack
  <2>2. p.filetype = "BINARY" => Cardinality(Image(p)) = n
      BY <1>5, BlocksCounted DEF Image
  <2>3. page \in Int
      BY SpaceSizes
  <2>4. ASSUME p.filetype = "BINARY", page - v \in 0 .. n - 1
        PROVE  heap_block_to_address(p.ptr + (page - v)) = (f + (page - v)) * PageSize
    <3> DEFINE b == p.ptr + (page - v)
    <3>1. b \in Nat /\ HeapPage + b = f + (page - v)
      <4> HIDE DEF n, v
      <4> QED  BY <1>4, <1>5, <2>3, <2>4
    <3> HIDE DEF b
    <3>2. heap_block_to_address(b) = (HeapPage + b) * PageSize
        BY <3>1, BlockPages
    <3> QED  BY <3>1, <3>2 DEF b
  <2>5. ASSUME page - w \in 0 .. k - 1
        PROVE  heap_block_to_address(p.stack + (page - w)) = (e + (page - w)) * PageSize
    <3> DEFINE b == p.stack + (page - w)
    <3>1. b \in Nat /\ HeapPage + b = e + (page - w)
      <4> HIDE DEF k, w
      <4> QED  BY <1>4, <2>3, <2>5
    <3> HIDE DEF b
    <3>2. heap_block_to_address(b) = (HeapPage + b) * PageSize
        BY <3>1, BlockPages
    <3> QED  BY <3>1, <3>2 DEF b
  <2>6. p.filetype = "BINARY" /\ page - v \in 0 .. n - 1 => ~ (page - w \in 0 .. k - 1)
    <3> HIDE DEF v, w, n, k
    <3> QED  BY <1>1, <1>4, <1>5, <2>3
  <2>7. paging_get(g.mem, d, page * PageSize)
            = IF page - w \in 0 .. k - 1 THEN Entry((e + (page - w)) * PageSize, UserData)
              ELSE IF p.filetype = "BINARY" /\ page - v \in 0 .. n - 1
              THEN Entry((f + (page - v)) * PageSize, UserData)
              ELSE Entry(page * PageSize, UserPage)
    <3> HIDE DEF g, w, e, k, d, v, f, n
    <3> QED  BY <1>7, <1>10
  <2> HIDE DEF g, w, e, k, d, v, f, n
  <2> QED  BY <2>1, <2>2, <2>4, <2>5, <2>6, <2>7
<1> HIDE DEF g
<1>13. g = [table |-> h.table, mem |-> g.mem, leaked |-> h.leaked]
  <2>1. image.table = h.table /\ image.leaked = h.leaked
      BY <1>6
  <2> QED  BY <1>9, <2>1
<1> QED  BY <1>11, <1>12, <1>13 DEF g
-----------------------------------------------------------------------------
(* Loading a process *)

BlockOrNull == Nat \cup {NULL}

\* What a load leaves behind it.  It writes no block in use.  If it fails, all that
\* it allocated is lost; if it succeeds, the process has it, apart from the path.
LoadFrom(h, S, load) ==
    /\ load.h.mem \in MemType /\ load.res \in Int
    /\ \A x \in S \cap Block : load.h.mem[x] = h.mem[x]
    /\ \E L \in SUBSET BlockOrNull :
        LET own == OwnIn(load.h.mem, load.process)
        IN  /\ L \cap S = {} /\ load.h.leaked = h.leaked \cup L
            /\ load.res < 0 => Grows(h, S, load.h, L \ {NULL})
            /\ load.res = 0 => /\ Grows(h, S, load.h, (L \ {NULL}) \cup own)
                               /\ L \cap own = {}
                               /\ Sound(load.h.mem, load.process)

\* A load that fails has lost what it took.
LEMMA FailsFrom ==
    ASSUME NEW h, NEW S, Holds(h, S), h.mem \in MemType, NEW g, NEW A, Grows(h, S, g, A),
           NEW P \in SUBSET Cells, NEW lost,
           g.mem = h.mem, g.leaked = h.leaked \cup P, A = (P \cap Block) \cup lost,
           NEW res \in Int, res < 0
    PROVE  LoadFrom(h, S, [h |-> Leak(g, lost), res |-> res, process |-> NoProcess])
<1> DEFINE load == [h |-> Leak(g, lost), res |-> res, process |-> NoProcess]
           L == P \cup lost
<1>1. load.h = Leak(g, lost) /\ load.res = res
    OBVIOUS
<1>2. /\ load.h.mem = h.mem /\ load.h.leaked = (h.leaked \cup P) \cup lost
      /\ Grows(h, S, load.h, A)
    BY <1>1, Leaked
<1>3. A \subseteq Nat /\ A \cap S = {} /\ S \subseteq Nat
    BY DEF Grows, Holds
<1>4. Block \subseteq Nat /\ NULL \notin Nat
    BY BlockFacts DEF NULL
<1>5. L \ {NULL} = A /\ L \cap S = {} /\ L \in SUBSET BlockOrNull
    BY <1>3, <1>4 DEF Cells, BlockOrNull
<1>6. load.h.leaked = h.leaked \cup L
    BY <1>2
<1> HIDE DEF load, L
<1>7. load.h.mem \in MemType /\ load.res \in Int /\ ~ (load.res = 0)
    BY <1>1, <1>2
<1>8. LoadFrom(h, S, load)
    BY <1>2, <1>5, <1>6, <1>7 DEF LoadFrom
<1> QED  BY <1>8 DEF load

\* The process structure, the data, the stack and the task have been allocated.
\* What the process has is apart, and process_map_memory makes it sound.
LEMMA MappedFrom ==
    ASSUME NEW h, NEW S, Holds(h, S), NEW t, t.mem \in MemType, NEW p, Fields(p),
           NEW P \in SUBSET Cells, t.leaked = h.leaked \cup P,
           P \cap OwnIn(t.mem, p) = {},
           Grows(h, S, t, (P \cap Block) \cup OwnIn(t.mem, p)),
           \A x \in S \cap Block : t.mem[x] = h.mem[x],
           Whole(t.mem, p.directory, p.chunk), Identity(t.mem, p.directory),
           (Image(p) \cup Stack(p)) \cap
                (BlocksAt(p.struct, ProcessSize) \cup {p.task} \cup TablesIn(t.mem, p)) = {}
    PROVE  LoadFrom(h, S, [h |-> process_map_memory(t, p), res |-> 0, process |-> p])
<1> DEFINE g == process_map_memory(t, p)
           d == p.directory
           load == [h |-> g, res |-> 0, process |-> p]
<1>1. t = [table |-> t.table, mem |-> t.mem, leaked |-> t.leaked]
    BY DEF Grows, Holds
<1>2. /\ g = [table |-> t.table, mem |-> g.mem, leaked |-> t.leaked]
      /\ g.mem \in MemType
      /\ \A x \in Cells : (\A j \in Index : x # t.mem[d][j].base) => g.mem[x] = t.mem[x]
      /\ MappedIn(g.mem, p)
    BY <1>1, MapMemory
<1>3. load.h = g /\ load.res = 0 /\ load.process = p
    OBVIOUS
<1> HIDE DEF g, load
<1>4. g.mem[d] = t.mem[d]
    BY <1>2 DEF Whole, Cells
<1>5. TablesIn(g.mem, p) = TablesIn(t.mem, p) /\ OwnIn(g.mem, p) = OwnIn(t.mem, p)
    BY <1>4 DEF TablesIn, OwnIn
<1>6. Whole(g.mem, d, p.chunk)
    BY <1>4 DEF Whole
<1>7. Sound(g.mem, p)
    BY <1>2, <1>5, <1>6 DEF Sound
<1>8. Grows(h, S, g, (P \cap Block) \cup OwnIn(t.mem, p))
  <2>1. g.table = t.table /\ g.leaked = t.leaked
      BY <1>2
  <2> QED  BY <1>2, <2>1, SameTable
<1>9. /\ (P \cap Block) \cap S = {} /\ OwnIn(t.mem, p) \cap S = {}
      /\ S \subseteq Nat /\ Block \subseteq Nat /\ NULL \notin Nat
    BY BlockFacts DEF Grows, Holds, NULL
<1>10. P \ {NULL} = P \cap Block /\ P \cap S = {} /\ P \in SUBSET BlockOrNull
    BY <1>9 DEF Cells, BlockOrNull
<1>11. \A x \in S \cap Block : g.mem[x] = h.mem[x]
  <2>1. \A j \in Index : t.mem[d][j].base \in OwnIn(t.mem, p)
      BY DEF OwnIn, TablesIn
  <2>2. ASSUME NEW x \in S \cap Block
        PROVE  x \in Cells /\ \A j \in Index : x # t.mem[d][j].base
      BY <1>9, <2>1 DEF Cells
  <2> QED  BY <1>2, <2>2
<1>12. g.leaked = h.leaked \cup P
    BY <1>2
<1>13. LoadFrom(h, S, load)
  <2>1. ~ (load.res < 0) /\ load.res \in Int
      BY <1>3
  <2>2. P \cap OwnIn(g.mem, p) = {} /\ Grows(h, S, g, (P \ {NULL}) \cup OwnIn(g.mem, p))
      BY <1>5, <1>8, <1>10
  <2> QED  BY <1>2, <1>3, <1>7, <1>10, <1>11, <1>12, <2>1, <2>2 DEF LoadFrom
<1> QED  BY <1>13 DEF load, g

\* The results of process_load_for_slot, one allocation after the other.
LEMMA LoadForSlot ==
    ASSUME NEW h, NEW S, Holds(h, S), h.mem \in MemType, NEW file \in Programs
    PROVE  LoadFrom(h, S, process_load_for_slot(h, file))
<1> DEFINE Fails(a, res, lost) == [h |-> Leak(a, lost), res |-> res, process |-> NoProcess]
           struct == kzalloc(h, ProcessSize)
           data == process_load_data(struct.h, file)
           stack == kzalloc(data.h, StackSize)
           task == task_new(stack.h)
           own == BlocksAt(struct.ptr, ProcessSize) \cup BlocksAt(data.ptr, data.size)
           p == [struct |-> struct.ptr, filetype |-> data.filetype, ptr |-> data.ptr,
                 size |-> data.size, stack |-> stack.ptr, task |-> task.task,
                 chunk |-> task.chunk, directory |-> task.directory]
           load == process_load_for_slot(h, file)
<1>1. load = IF struct.ptr = NULL THEN Fails(h, -ENOMEM, {})
             ELSE IF data.res < 0 THEN Fails(data.h, data.res, own)
             ELSE IF stack.ptr = NULL THEN Fails(data.h, -ENOMEM, own)
             ELSE IF task.failed THEN Fails(task.h, 1, {})
             ELSE [h |-> process_map_memory(task.h, p), res |-> 0, process |-> p]
    BY DEF process_load_for_slot
<1>2. -ENOMEM \in Int /\ -ENOMEM < 0
    BY DEF ENOMEM
<1>3. LoadFrom(h, S, Fails(h, -ENOMEM, {}))
  <2>1. Grows(h, S, h, {}) /\ {} \in SUBSET Cells /\ h.leaked = h.leaked \cup {}
        /\ {} = ({} \cap Block) \cup {}
      BY GrowsNothing
  <2> QED  BY <1>2, <2>1, FailsFrom
<1> DEFINE A == BlocksAt(struct.ptr, ProcessSize)
<1>4. ASSUME struct.ptr # NULL
      PROVE  /\ struct.ptr \in Block /\ struct.h.mem = h.mem /\ struct.h.leaked = h.leaked
             /\ Grows(h, S, struct.h, A)
  <2>1. Fits(ProcessSize) /\ ProcessSize > 0
      BY LoaderAssumption
  <2>2. /\ struct.h.mem = h.mem /\ struct.h.leaked = h.leaked
        /\ \/ struct.ptr = NULL
           \/ /\ struct.ptr \in Block
              /\ Grows(h, S, struct.h, Ext(struct.ptr, total_blocks(ProcessSize)))
      BY <2>1, Kzalloc
  <2> HIDE DEF struct
  <2> QED  BY <1>4, <2>2, BlocksAtIs
<1> HIDE DEF struct
<1>5. ASSUME struct.ptr # NULL
      PROVE  DataFrom(struct.h, S \cup A, data)
  <2>1. Holds(struct.h, S \cup A)
      BY <1>4, <1>5 DEF Grows
  <2> HIDE DEF A
  <2> QED  BY <2>1, LoadData
<1> HIDE DEF data
<1>6. ASSUME struct.ptr # NULL
      PROVE  LoadFrom(h, S, load)
  <2> DEFINE I == BlocksAt(data.ptr, data.size)
  <2>1. PICK P \in SUBSET Cells :
            /\ data.h.mem = struct.h.mem /\ data.h.leaked = struct.h.leaked \cup P
            /\ P \cap I = {}
            /\ Grows(struct.h, S \cup A, data.h, (P \cap Block) \cup I)
            /\ data.res \in Int
            /\ ImageFields(data)
      BY <1>5, <1>6 DEF DataFrom
  <2>2. data.h.mem = h.mem /\ data.h.leaked = h.leaked \cup P
      BY <1>4, <1>6, <2>1
  <2> DEFINE Q == P \cap Block
             D == A \cup (Q \cup I)
  <2>3. Grows(h, S, data.h, D)
    <3> HIDE DEF A, I, Q
    <3> QED  BY <1>4, <1>6, <2>1, GrowsMore DEF Q
  <2>4. ASSUME NEW res \in Int, res < 0
        PROVE  LoadFrom(h, S, Fails(data.h, res, own))
    <3>1. D = (P \cap Block) \cup own
        OBVIOUS
    <3> DEFINE a == data.h
    <3>2. Grows(h, S, a, D) /\ a.mem = h.mem /\ a.leaked = h.leaked \cup P
        BY <2>2, <2>3
    <3> HIDE DEF own, D, a
    <3>3. LoadFrom(h, S, Fails(a, res, own))
        BY <2>4, <3>1, <3>2, FailsFrom
    <3> QED  BY <3>3 DEF a
  <2>5. LoadFrom(h, S, Fails(data.h, -ENOMEM, own))
      BY <1>2, <2>4
  <2>6. data.res < 0 => LoadFrom(h, S, Fails(data.h, data.res, own))
    <3> HIDE DEF own
    <3> QED  BY <2>1, <2>4
  <2> DEFINE K == BlocksAt(stack.ptr, StackSize)
             E == D \cup K
  <2>7. ASSUME stack.ptr # NULL
        PROVE  /\ stack.ptr \in Block /\ stack.h.mem = h.mem
               /\ stack.h.leaked = h.leaked \cup P
               /\ Grows(h, S, stack.h, E)
               /\ K \cap (S \cup D) = {}
    <3>1. Fits(StackSize) /\ StackSize > 0
        BY LoaderAssumption
    <3> DEFINE a == data.h
               z == kzalloc(a, StackSize)
    <3>2. Holds(a, S \cup D)
        BY <2>3 DEF Grows
    <3>3. /\ z.h.mem = a.mem /\ z.h.leaked = a.leaked
          /\ \/ z.ptr = NULL
             \/ /\ z.ptr \in Block
                /\ Grows(a, S \cup D, z.h, Ext(z.ptr, total_blocks(StackSize)))
      <4> HIDE DEF a, D
      <4> QED  BY <3>1, <3>2, Kzalloc
    <3> HIDE DEF z, D
    <3>4. z.ptr \in Block /\ Grows(a, S \cup D, z.h, BlocksAt(z.ptr, StackSize))
        BY <2>7, <3>3, BlocksAtIs DEF z
    <3>5. Grows(h, S, z.h, D \cup BlocksAt(z.ptr, StackSize))
        BY <2>3, <3>4, GrowsMore
    <3>6. BlocksAt(z.ptr, StackSize) \cap (S \cup D) = {}
        BY <3>4 DEF Grows
    <3>7. stack = z
        BY DEF z
    <3> HIDE DEF stack
    <3> QED  BY <2>2, <3>3, <3>4, <3>5, <3>6, <3>7
  <2> HIDE DEF stack
  <2> DEFINE T == DirectoryBlocks(task.h.mem, task.directory, task.chunk)
  <2>8. ASSUME stack.ptr # NULL
        PROVE  /\ task.h = [table |-> task.h.table, mem |-> task.h.mem, leaked |-> task.h.leaked]
               /\ task.h.mem \in MemType /\ task.h.leaked = h.leaked \cup P
               /\ \A x \in S \cap Block : task.h.mem[x] = h.mem[x]
               /\ ~ task.failed =>
                    /\ task.task \in Block
                    /\ task.task \notin T
                    /\ Grows(h, S, task.h, E \cup ({task.task} \cup T))
                    /\ ({task.task} \cup T) \cap (S \cup E) = {}
                    /\ Whole(task.h.mem, task.directory, task.chunk)
                    /\ Identity(task.h.mem, task.directory)
    <3> DEFINE a == stack.h
               R == S \cup E
               t == task_new(a)
    <3>1. Holds(a, R) /\ a.mem \in MemType /\ a.mem = h.mem /\ a.leaked = h.leaked \cup P
          /\ Grows(h, S, a, E)
        BY <2>7, <2>8 DEF Grows
    <3>2. /\ t.h = [table |-> t.h.table, mem |-> t.h.mem, leaked |-> t.h.leaked]
          /\ t.h.mem \in MemType /\ t.h.leaked = a.leaked
          /\ \A x \in R \cap Block : t.h.mem[x] = a.mem[x]
          /\ ~ t.failed =>
                /\ t.task \in Block
                /\ t.task \notin DirectoryBlocks(t.h.mem, t.directory, t.chunk)
                /\ Grows(a, R, t.h,
                         {t.task} \cup DirectoryBlocks(t.h.mem, t.directory, t.chunk))
                /\ Whole(t.h.mem, t.directory, t.chunk)
                /\ Identity(t.h.mem, t.directory)
      <4> HIDE DEF a, R
      <4> QED  BY <3>1, TaskNew
    <3> HIDE DEF t
    <3> DEFINE U == {t.task} \cup DirectoryBlocks(t.h.mem, t.directory, t.chunk)
    <3>3. ~ t.failed => Grows(a, S \cup E, t.h, U)
        BY <3>2
    <3> HIDE DEF a, E, U
    <3>4. ~ t.failed => Grows(h, S, t.h, E \cup U)
        BY <3>1, <3>3, GrowsMore
    <3>5. ~ t.failed => U \cap (S \cup E) = {}
        BY <3>3 DEF Grows
    <3>6. \A x \in S \cap Block : t.h.mem[x] = h.mem[x]
        BY <3>1, <3>2
    <3>7. task = t
        BY DEF t, a
    <3> HIDE DEF task, R
    <3> QED  BY <3>1, <3>2, <3>4, <3>5, <3>6, <3>7 DEF U
  <2> HIDE DEF task
  <2>9. ASSUME stack.ptr # NULL
        PROVE  LoadFrom(h, S, Fails(task.h, 1, {}))
    <3> DEFINE g == Leak(task.h, {})
               l == Fails(task.h, 1, {})
    <3>1. l.h = g /\ l.res = 1
        OBVIOUS
    <3>2. g.mem = task.h.mem /\ g.leaked = task.h.leaked
        BY <2>8, <2>9 DEF Leak
    <3> HIDE DEF g, l
    <3>3. P \cap S = {} /\ P \in SUBSET BlockOrNull
      <4>1. D \cap S = {} /\ S \subseteq Nat /\ Block \subseteq Nat /\ NULL \notin Nat
          BY <2>3, BlockFacts DEF Grows, Holds, NULL
      <4> HIDE DEF A, I
      <4> QED  BY <4>1 DEF Cells, BlockOrNull
    <3>4. l.h.mem \in MemType /\ l.h.leaked = h.leaked \cup P
          /\ \A x \in S \cap Block : l.h.mem[x] = h.mem[x]
        BY <2>8, <2>9, <3>1, <3>2
    <3>5. ~ (l.res < 0) /\ ~ (l.res = 0) /\ l.res \in Int
        BY <3>1
    <3>6. LoadFrom(h, S, l)
        BY <3>3, <3>4, <3>5 DEF LoadFrom
    <3> QED  BY <3>6 DEF l
  <2>10. ASSUME stack.ptr # NULL, ~ task.failed
         PROVE  LoadFrom(h, S, [h |-> process_map_memory(task.h, p), res |-> 0, process |-> p])
    <3> DEFINE t == task.h
    <3>1. /\ p.struct = struct.ptr /\ p.filetype = data.filetype /\ p.ptr = data.ptr
          /\ p.size = data.size /\ p.stack = stack.ptr /\ p.task = task.task
          /\ p.chunk = task.chunk /\ p.directory = task.directory
        OBVIOUS
    <3> HIDE DEF p
    <3>2. Fields(p)
      <4>1. ImageFields(p)
          BY <2>1, <3>1 DEF ImageFields
      <4> QED  BY <1>4, <1>6, <2>7, <2>8, <2>10, <3>1, <4>1 DEF Fields
    <3>3. Image(p) = I /\ Stack(p) = K /\ BlocksAt(p.struct, ProcessSize) = A
          /\ TablesIn(t.mem, p) = T
      <4> HIDE DEF t
      <4> QED  BY <3>1 DEF Image, Stack, TablesIn, DirectoryBlocks, t
    <3>4. OwnIn(t.mem, p) = (((A \cup I) \cup K) \cup {task.task}) \cup T
        BY <3>1, <3>3 DEF OwnIn
    <3>5. /\ Grows(h, S, t, E \cup ({task.task} \cup T))
          /\ ({task.task} \cup T) \cap (S \cup E) = {}
          /\ Whole(t.mem, p.directory, p.chunk) /\ Identity(t.mem, p.directory)
          /\ t.mem \in MemType /\ t.leaked = h.leaked \cup P
          /\ \A x \in S \cap Block : t.mem[x] = h.mem[x]
        BY <2>8, <2>10, <3>1
    <3>6. A \cap (Q \cup I) = {} /\ P \cap I = {} /\ K \cap (S \cup D) = {} /\ D \subseteq Nat
      <4>1. (Q \cup I) \cap (S \cup A) = {}
          BY <2>1 DEF Grows
      <4>2. D \subseteq Nat
          BY <2>3 DEF Grows
      <4> HIDE DEF A, I, K
      <4> QED  BY <2>1, <2>7, <2>10, <4>1, <4>2
    <3>7. E \cup ({task.task} \cup T) \subseteq Nat /\ NULL \notin Nat
        BY <3>5 DEF Grows, NULL
    <3> HIDE DEF A, I, K, T, t
    <3>8. E \cup ({task.task} \cup T) = (P \cap Block) \cup OwnIn(t.mem, p)
        BY <3>4
    <3>9. P \cap OwnIn(t.mem, p) = {}
        BY <3>4, <3>5, <3>6, <3>7 DEF Cells
    <3>10. (Image(p) \cup Stack(p)) \cap
                (BlocksAt(p.struct, ProcessSize) \cup {p.task} \cup TablesIn(t.mem, p)) = {}
        BY <3>1, <3>3, <3>5, <3>6
    <3>11. Grows(h, S, t, (P \cap Block) \cup OwnIn(t.mem, p))
        BY <3>5, <3>8
    <3> HIDE DEF E, D, Q
    <3>12. LoadFrom(h, S, [h |-> process_map_memory(t, p), res |-> 0, process |-> p])
        BY <3>2, <3>5, <3>9, <3>10, <3>11, MappedFrom
    <3> QED  BY <3>12 DEF t
  <2> HIDE DEF load, own, Fails, p
  <2> QED  BY <1>1, <1>6, <2>5, <2>6, <2>9, <2>10
<1>7. CASE struct.ptr = NULL
  <2> HIDE DEF load, own, Fails, p, stack, task
  <2> QED  BY <1>1, <1>3, <1>7 DEF load
<1> QED  BY <1>6, <1>7 DEF load
-----------------------------------------------------------------------------
(* What was loaded stays *)

\* A process is sound as long as its tables are not written.
LEMMA SoundKept ==
    ASSUME NEW m, NEW n, NEW p, Sound(m, p), \A x \in TablesIn(m, p) : n[x] = m[x]
    PROVE  Sound(n, p) /\ OwnIn(n, p) = OwnIn(m, p)
<1> DEFINE d == p.directory
<1>1. n[d] = m[d] /\ \A i \in Index : n[m[d][i].base] = m[m[d][i].base]
    BY DEF TablesIn
<1>2. TablesIn(n, p) = TablesIn(m, p)
    BY <1>1 DEF TablesIn
<1>3. OwnIn(n, p) = OwnIn(m, p)
    BY <1>2 DEF OwnIn
<1>4. Whole(n, d, p.chunk)
    BY <1>1 DEF Sound, Whole
<1>5. ASSUME NEW page \in Page
      PROVE  paging_get(n, d, page * PageSize) = paging_get(m, d, page * PageSize)
  <2>1. page \div N \in Index
      BY PageParts
  <2>2. paging_get_indexes(page * PageSize).directory = page \div N
      BY PageIndexes
  <2>3. paging_get_indexes(page * PageSize).directory \in Index
      BY <2>1, <2>2
  <2> HIDE DEF paging_get_indexes
  <2> QED  BY <1>1, <2>3 DEF paging_get
<1>6. MappedIn(n, p)
  <2>1. MappedIn(m, p)
      BY DEF Sound
  <2> QED  BY <1>5, <2>1 DEF MappedIn
<1> QED  BY <1>2, <1>3, <1>4, <1>6 DEF Sound

\* What a process needs is among the blocks in use.
LEMMA OwnInAll ==
    ASSUME NEW h, NEW E, NEW F, NEW O, NEW p \in E, Sound(h.mem, p)
    PROVE  /\ \A x \in OwnIn(h.mem, p) : x # NULL => x \in AllIn(h, E, F, O)
           /\ TablesIn(h.mem, p) \subseteq AllIn(h, E, F, O) \cap Block
<1>1. \A x \in OwnIn(h.mem, p) : x # NULL => x \in AllIn(h, E, F, O)
    BY DEF AllIn, OthersIn
<1>2. TablesIn(h.mem, p) \subseteq Block
    BY DEF Sound, Whole, TablesIn
<1>3. TablesIn(h.mem, p) \subseteq OwnIn(h.mem, p)
    BY DEF OwnIn
<1> QED  BY <1>1, <1>2, <1>3, BlockFacts

\* A step that writes no block in use and loses the blocks L.
LEMMA KeptOn ==
    ASSUME NEW h, NEW E, NEW F, NEW O, NEW S, S = AllIn(h, E, F, O), Kept(h, E, F, O),
           S \subseteq Nat,
           NEW g, g.mem \in MemType, \A x \in S \cap Block : g.mem[x] = h.mem[x],
           NEW L \in SUBSET BlockOrNull, L \cap S = {}, g.leaked = h.leaked \cup L
    PROVE  /\ Kept(g, E, F, O)
           /\ AllIn(g, E, F, O) = S \cup (L \ {NULL})
           /\ \A p \in E : OwnIn(g.mem, p) = OwnIn(h.mem, p)
<1>1. ASSUME NEW p \in E
      PROVE  Sound(g.mem, p) /\ OwnIn(g.mem, p) = OwnIn(h.mem, p)
  <2>1. Sound(h.mem, p)
      BY DEF Kept
  <2>2. \A x \in TablesIn(h.mem, p) : g.mem[x] = h.mem[x]
      BY <2>1, OwnInAll
  <2> QED  BY <2>1, <2>2, SoundKept
<1>2. {OwnIn(g.mem, p) : p \in E} = {OwnIn(h.mem, p) : p \in E}
    BY <1>1
<1>3. OthersIn(g, E, O) = OthersIn(h, E, O) \cup (L \ {NULL})
    BY <1>2 DEF OthersIn
<1>4. AllIn(g, E, F, O) = S \cup (L \ {NULL})
    BY <1>3 DEF AllIn
<1>5. \A f \in F : ElfBlocks(f) \subseteq S
    BY DEF AllIn
<1>6. Apart(g, E, F, O)
  <2>1. \A p, q \in E : p # q => OwnIn(g.mem, p) \cap OwnIn(g.mem, q) = {}
      BY <1>1 DEF Kept, Apart
  <2>2. \A f \in F : ElfBlocks(f) \cap OthersIn(g, E, O) = {}
    <3>1. \A f \in F : ElfBlocks(f) \cap OthersIn(h, E, O) = {}
        BY DEF Kept, Apart
    <3> QED  BY <1>3, <1>5, <3>1
  <2> QED  BY <2>1, <2>2 DEF Kept, Apart
<1>7. Kept(g, E, F, O)
    BY <1>1, <1>6 DEF Kept
<1> QED  BY <1>1, <1>4, <1>7

\* One more process.
LEMMA KeptProcess ==
    ASSUME NEW h, NEW E, NEW F, NEW O, Kept(h, E, F, O),
           NEW p, Sound(h.mem, p), OwnIn(h.mem, p) \cap AllIn(h, E, F, O) = {},
           OwnIn(h.mem, p) \subseteq Nat
    PROVE  /\ Kept(h, E \cup {p}, F, O)
           /\ AllIn(h, E \cup {p}, F, O) = AllIn(h, E, F, O) \cup OwnIn(h.mem, p)
<1>1. NULL \notin OwnIn(h.mem, p)
    BY DEF NULL
<1>2. OthersIn(h, E \cup {p}, O) = OthersIn(h, E, O) \cup OwnIn(h.mem, p)
    BY <1>1 DEF OthersIn
<1>3. AllIn(h, E \cup {p}, F, O) = AllIn(h, E, F, O) \cup OwnIn(h.mem, p)
    BY <1>2 DEF AllIn
<1>4. ASSUME NEW q \in E
      PROVE  OwnIn(h.mem, q) \cap OwnIn(h.mem, p) = {}
  <2>1. Sound(h.mem, q)
      BY DEF Kept
  <2>2. \A x \in OwnIn(h.mem, q) : x # NULL => x \in AllIn(h, E, F, O)
      BY <2>1, OwnInAll
  <2> QED  BY <1>1, <2>2
<1>5. \A f \in F : ElfBlocks(f) \subseteq AllIn(h, E, F, O)
    BY DEF AllIn
<1>6. Apart(h, E \cup {p}, F, O)
  <2>1. \A q, r \in E \cup {p} : q # r => OwnIn(h.mem, q) \cap OwnIn(h.mem, r) = {}
      BY <1>4 DEF Kept, Apart
  <2>2. \A f \in F : ElfBlocks(f) \cap OthersIn(h, E \cup {p}, O) = {}
    <3>1. \A f \in F : ElfBlocks(f) \cap OthersIn(h, E, O) = {}
        BY DEF Kept, Apart
    <3> QED  BY <1>2, <1>5, <3>1
  <2> QED  BY <2>1, <2>2 DEF Kept, Apart
<1>7. Kept(h, E \cup {p}, F, O)
    BY <1>6 DEF Kept
<1> QED  BY <1>3, <1>7

\* The files can be freed after other allocations.
LEMMA InTableGrown ==
    ASSUME NEW h, NEW E, NEW F, NEW O, NEW S, S = AllIn(h, E, F, O), InTable(h, E, F, O),
           NEW g, NEW A, Grows(h, S, g, A), NEW D, AllIn(g, D, F, O) = S \cup A
    PROVE  InTable(g, D, F, O)
<1>1. Holds(g, S \cup A)
    BY DEF Grows
<1>2. ASSUME NEW f \in F
      PROVE  /\ Allocation(g, S \cup A, f.struct, 1)
             /\ Allocation(g, S \cup A, f.memory, total_blocks(f.size))
  <2>1. Allocation(h, S, f.struct, 1) /\ Allocation(h, S, f.memory, total_blocks(f.size))
      BY DEF InTable
  <2> QED  BY <2>1, AllocationGrown
<1> QED  BY <1>1, <1>2 DEF InTable
-----------------------------------------------------------------------------
(* Loading and closing an ELF file *)

\* Between h and g the blocks A have been allocated and the blocks L lost; no block
\* has been written.
Between(h, S, g, A, L) == Grows(h, S, g, A) /\ g.mem = h.mem /\ g.leaked = h.leaked \cup L

\* Giving blocks back leaves the other allocations.
LEMMA BetweenLess ==
    ASSUME NEW h, NEW S, NEW g, NEW A, NEW L, Between(h, S, g, A, L),
           NEW k, NEW F, F \subseteq A, Shrinks(g, S \cup A, k, F),
           k.mem = g.mem, k.leaked = g.leaked
    PROVE  /\ Between(h, S, k, A \ F, L)
           /\ \A s, n : Allocation(g, S \cup A, s, n) /\ F \cap Ext(s, n) = {}
                            => Allocation(k, S \cup (A \ F), s, n)
<1>1. Grows(h, S, g, A)
    BY DEF Between
<1>2. Grows(h, S, k, A \ F)
    BY <1>1, GrowsShrunk
<1>3. (S \cup A) \ F = S \cup (A \ F)
    BY <1>1 DEF Grows
<1>4. ASSUME NEW s, NEW n, Allocation(g, S \cup A, s, n), F \cap Ext(s, n) = {}
      PROVE  Allocation(k, S \cup (A \ F), s, n)
    BY <1>3, <1>4, AllocationShrunk
<1> QED  BY <1>2, <1>4 DEF Between

\* fclose in the course of elf_load.
LEMMA BetweenClose ==
    ASSUME NEW h, NEW S, NEW g, NEW A, NEW L, Between(h, S, g, A, L),
           NEW file, NEW F, F = file \cap Block, F \subseteq A, Freeable(S \cup A, F)
    PROVE  /\ Between(h, S, fclose(g, file), A \ F, L)
           /\ \A s, n : Allocation(g, S \cup A, s, n) /\ F \cap Ext(s, n) = {}
                            => Allocation(fclose(g, file), S \cup (A \ F), s, n)
<1>1. Holds(g, S \cup A)
    BY DEF Between, Grows
<1>2. /\ fclose(g, file).mem = g.mem /\ fclose(g, file).leaked = g.leaked
      /\ Shrinks(g, S \cup A, fclose(g, file), F)
    BY <1>1, Fclose
<1> DEFINE k == fclose(g, file)
<1> HIDE DEF k
<1>3. k.mem = g.mem /\ k.leaked = g.leaked /\ Shrinks(g, S \cup A, k, F)
    BY <1>2 DEF k
<1>4. /\ Between(h, S, k, A \ F, L)
      /\ \A s, n : Allocation(g, S \cup A, s, n) /\ F \cap Ext(s, n) = {}
                    => Allocation(k, S \cup (A \ F), s, n)
    BY <1>3, BetweenLess
<1> QED  BY <1>4 DEF k

\* kfree in the course of elf_load.
LEMMA BetweenFree ==
    ASSUME NEW h, NEW S, NEW g, NEW A, NEW L, Between(h, S, g, A, L),
           NEW t, NEW k, Allocation(g, S \cup A, t, k), Ext(t, k) \subseteq A
    PROVE  /\ Between(h, S, kfree(g, t), A \ Ext(t, k), L)
           /\ \A s, n : Allocation(g, S \cup A, s, n) /\ Ext(t, k) \cap Ext(s, n) = {}
                            => Allocation(kfree(g, t), S \cup (A \ Ext(t, k)), s, n)
<1>1. Holds(g, S \cup A)
    BY DEF Between, Grows
<1> DEFINE c == kfree(g, t)
           F == Ext(t, k)
<1>2. c.mem = g.mem /\ c.leaked = g.leaked /\ Shrinks(g, S \cup A, c, F)
    BY <1>1, Kfree
<1> HIDE DEF c, F
<1>3. F \subseteq A
    BY DEF F
<1>4. /\ Between(h, S, c, A \ F, L)
      /\ \A s, n : Allocation(g, S \cup A, s, n) /\ F \cap Ext(s, n) = {}
                    => Allocation(c, S \cup (A \ F), s, n)
    BY <1>2, <1>3, BetweenLess
<1> QED  BY <1>4 DEF c, F

\* Two parts of elf_load after one another.
LEMMA BetweenMore ==
    ASSUME NEW h, NEW S, NEW g, NEW A, NEW L, Between(h, S, g, A, L),
           NEW k, NEW B, NEW P, Between(g, S \cup A, k, B, P)
    PROVE  /\ Between(h, S, k, A \cup B, L \cup P)
           /\ S \cup (A \cup B) = (S \cup A) \cup B
           /\ \A s, n : Allocation(g, S \cup A, s, n) => Allocation(k, S \cup (A \cup B), s, n)
           /\ \A F : Freeable(S \cup A, F) => Freeable(S \cup (A \cup B), F)
<1>1. Grows(h, S, g, A) /\ Grows(g, S \cup A, k, B)
    BY DEF Between
<1>2. Grows(h, S, k, A \cup B)
    BY <1>1, GrowsMore
<1>3. S \cup (A \cup B) = (S \cup A) \cup B
    OBVIOUS
<1>4. \A s, n : Allocation(g, S \cup A, s, n) => Allocation(k, (S \cup A) \cup B, s, n)
    BY <1>1, AllocationGrown
<1>5. \A F : Freeable(S \cup A, F) => Freeable((S \cup A) \cup B, F)
    BY <1>1, FreeableGrown
<1>6. k.mem = h.mem /\ k.leaked = h.leaked \cup (L \cup P)
    BY DEF Between
<1> QED  BY <1>2, <1>3, <1>4, <1>5, <1>6 DEF Between

\* The structure has been allocated and the file opened.
ElfOpened(h, S, s, open, P) ==
    LET F == open.file \cap Block
        A == {s} \cup ((P \cap Block) \cup F)
    IN  /\ s \in Block \ S /\ s \notin F /\ P \cap ({s} \cup F) = {} /\ A \cap S = {}
        /\ Between(h, S, open.h, A, P)
        /\ Freeable(S \cup A, F)
        /\ Allocation(open.h, S \cup A, s, 1)

\* elf_load up to fopen: the structure and the open file.
LEMMA ElfOpens ==
    ASSUME NEW h, NEW S, Holds(h, S), NEW z, z = kzalloc(h, 1), z.ptr # NULL
    PROVE  /\ z.ptr \in Block \ S /\ Between(h, S, z.h, {z.ptr}, {})
           /\ Allocation(z.h, S \cup {z.ptr}, z.ptr, 1)
           /\ \E P \in SUBSET Cells : ElfOpened(h, S, z.ptr, fopen(z.h), P)
<1> DEFINE s == z.ptr
           a == z.h
           open == fopen(a)
           F == open.file \cap Block
<1>1. /\ s \in Block \ S /\ Grows(h, S, a, {s}) /\ Allocation(a, S \cup {s}, s, 1)
      /\ a.mem = h.mem /\ a.leaked = h.leaked
    BY KzallocOne
<1>2. Between(h, S, a, {s}, {}) /\ Holds(a, S \cup {s})
    BY <1>1 DEF Between, Grows
<1>3. PICK P \in SUBSET Cells : Opened(a, S \cup {s}, open, P)
  <2> HIDE DEF a, s
  <2> QED  BY <1>2, Fopen
<1> DEFINE B == (P \cap Block) \cup F
           A == {s} \cup B
<1>4. /\ Between(a, S \cup {s}, open.h, B, P)
      /\ P \cap F = {} /\ F \cap (S \cup {s}) = {}
      /\ Freeable((S \cup {s}) \cup B, F)
    BY <1>3 DEF Opened, Between
<1> HIDE DEF open
<1>5. /\ Between(h, S, open.h, A, {} \cup P)
      /\ S \cup A = (S \cup {s}) \cup B
      /\ Allocation(open.h, S \cup A, s, 1)
  <2> DEFINE X == {s}
             o == open.h
  <2>1. Between(h, S, a, X, {}) /\ Between(a, S \cup X, o, B, P) /\ Allocation(a, S \cup X, s, 1)
      BY <1>1, <1>2, <1>4
  <2> HIDE DEF X, B, o, a, s
  <2>2. /\ Between(h, S, o, X \cup B, {} \cup P)
        /\ S \cup (X \cup B) = (S \cup X) \cup B
        /\ \A t, n : Allocation(a, S \cup X, t, n) => Allocation(o, S \cup (X \cup B), t, n)
      BY <2>1, BetweenMore
  <2> QED  BY <2>1, <2>2 DEF X, o
<1>6. {} \cup P = P
    OBVIOUS
<1>7. P \cap ({s} \cup F) = {} /\ s \notin F /\ A \cap S = {}
  <2>1. B \cap (S \cup {s}) = {}
      BY <1>4 DEF Between, Grows
  <2> QED  BY <1>1, <1>4, <2>1
<1>8. Between(h, S, open.h, A, P) /\ Freeable(S \cup A, F)
    BY <1>4, <1>5, <1>6
<1> HIDE DEF s, a
<1>9. ElfOpened(h, S, s, open, P)
    BY <1>1, <1>5, <1>7, <1>8 DEF ElfOpened
<1> QED  BY <1>1, <1>2, <1>9 DEF open, s, a

\* The structure alone is freed.
LEMMA ElfFreesOne ==
    ASSUME NEW h, NEW S, NEW g, NEW A, NEW L, Between(h, S, g, A, L), NEW s \in A,
           Allocation(g, S \cup A, s, 1)
    PROVE  Between(h, S, kfree(g, s), A \ {s}, L)
<1>1. s \in Nat
    BY BlockFacts DEF Allocation
<1>2. Ext(s, 1) = {s}
    BY <1>1 DEF Ext
<1>3. Ext(s, 1) \subseteq A
    BY <1>2
<1>4. Between(h, S, kfree(g, s), A \ Ext(s, 1), L)
    BY <1>3, BetweenFree
<1> QED  BY <1>2, <1>4

\* fclose, and nothing but the structure is left to free.
LEMMA ElfCloses ==
    ASSUME NEW h, NEW S, NEW s, NEW open, NEW P \in SUBSET Cells, ElfOpened(h, S, s, open, P)
    PROVE  LET g == fclose(open.h, open.file)
               B == {s} \cup (P \cap Block)
           IN  /\ Between(h, S, g, B, P) /\ Allocation(g, S \cup B, s, 1)
               /\ Between(h, S, kfree(g, s), P \cap Block, P)
<1> DEFINE o == open.h
           file == open.file
           F == file \cap Block
           A == {s} \cup ((P \cap Block) \cup F)
           B == {s} \cup (P \cap Block)
           g == fclose(o, file)
<1>1. /\ s \in Block \ S /\ s \notin F /\ P \cap ({s} \cup F) = {} /\ A \cap S = {}
      /\ Between(h, S, o, A, P) /\ Freeable(S \cup A, F) /\ Allocation(o, S \cup A, s, 1)
      /\ F \subseteq A /\ F = file \cap Block
    BY DEF ElfOpened
<1>2. s \in Nat /\ Ext(s, 1) = {s}
    BY <1>1, BlockFacts DEF Ext
<1>3. A \ F = B /\ F \cap Ext(s, 1) = {}
    BY <1>1, <1>2
<1> HIDE DEF o, file, F, A, B
<1>4. /\ Between(h, S, fclose(o, file), A \ F, P)
      /\ \A t, n : Allocation(o, S \cup A, t, n) /\ F \cap Ext(t, n) = {}
                    => Allocation(fclose(o, file), S \cup (A \ F), t, n)
    BY <1>1, BetweenClose
<1>5. Between(h, S, g, B, P) /\ Allocation(g, S \cup B, s, 1)
    BY <1>1, <1>3, <1>4
<1> HIDE DEF g
<1>6. Between(h, S, kfree(g, s), B \ {s}, P)
  <2>1. s \in B
      BY DEF B
  <2> QED  BY <1>5, <2>1, ElfFreesOne
<1>7. B \ {s} = P \cap Block
    BY <1>1 DEF B
<1> QED  BY <1>5, <1>6, <1>7 DEF g, B, o, file

\* With the file in memory, at z: the heap when it is kept, and when it is freed.
ElfRead(h, S, s, open, P, size, z) ==
    LET g == fclose(z.h, open.file)
        M == BlocksAt(z.ptr, size)
        B == (P \cap Block) \cup ({s} \cup M)
    IN  /\ z.ptr \in Block /\ s \notin M /\ P \cap ({s} \cup M) = {}
        /\ Between(h, S, g, B, P)
        /\ Allocation(g, S \cup B, s, 1)
        /\ Allocation(g, S \cup B, z.ptr, total_blocks(size))
        /\ Between(h, S, kfree(kfree(g, z.ptr), s), P \cap Block, P)

\* elf_load up to fread: the memory for the file, and what closing and freeing leave.
LEMMA ElfReads ==
    ASSUME NEW h, NEW S, NEW s, NEW open, NEW P \in SUBSET Cells, ElfOpened(h, S, s, open, P),
           NEW size, Fits(size), size > 0, NEW z, z = kzalloc(open.h, size), z.ptr # NULL
    PROVE  ElfRead(h, S, s, open, P, size, z)
<1> DEFINE o == open.h
           file == open.file
           F == file \cap Block
           A == {s} \cup ((P \cap Block) \cup F)
           n == total_blocks(size)
           M == Ext(z.ptr, n)
           B == (P \cap Block) \cup ({s} \cup M)
           zh == z.h
           zp == z.ptr
           g == fclose(zh, file)
<1>1. /\ s \in Block \ S /\ s \notin F /\ P \cap ({s} \cup F) = {} /\ A \cap S = {}
      /\ Between(h, S, o, A, P) /\ Freeable(S \cup A, F) /\ Allocation(o, S \cup A, s, 1)
      /\ F \subseteq A /\ F = file \cap Block
    BY DEF ElfOpened
<1>2. s \in Nat /\ Ext(s, 1) = {s}
    BY <1>1, BlockFacts DEF Ext
<1>3. Holds(o, S \cup A)
    BY <1>1 DEF Between, Grows
<1>4. /\ zh.mem = o.mem /\ zh.leaked = o.leaked /\ zp \in Block
      /\ Grows(o, S \cup A, zh, M)
      /\ Allocation(zh, (S \cup A) \cup M, zp, n)
  <2> HIDE DEF A, o
  <2>1. /\ kzalloc(o, size).h.mem = o.mem /\ kzalloc(o, size).h.leaked = o.leaked
        /\ \/ kzalloc(o, size).ptr = NULL
           \/ /\ kzalloc(o, size).ptr \in Block
              /\ Grows(o, S \cup A, kzalloc(o, size).h, Ext(kzalloc(o, size).ptr, n))
              /\ Allocation(kzalloc(o, size).h, (S \cup A) \cup Ext(kzalloc(o, size).ptr, n),
                            kzalloc(o, size).ptr, n)
      BY <1>3, Kzalloc
  <2>2. z = kzalloc(o, size)
      BY DEF o
  <2> QED  BY <2>1, <2>2
<1>5. Between(o, S \cup A, zh, M, {}) /\ M \cap (S \cup A) = {} /\ M \subseteq Nat
    BY <1>4 DEF Between, Grows
<1>6. BlocksAt(z.ptr, size) = M
    BY <1>4, BlocksAtIs
<1>7. P \cap ({s} \cup M) = {} /\ s \notin M /\ NULL \notin Nat
  <2>1. NULL \notin Nat
      BY DEF NULL
  <2> HIDE DEF M
  <2> QED  BY <1>1, <1>5, <2>1 DEF Cells
<1>8. (A \cup M) \ F = B /\ F \cap Ext(s, 1) = {} /\ F \cap M = {} /\ F \subseteq A \cup M
      /\ P \cup {} = P
  <2> HIDE DEF M
  <2> QED  BY <1>1, <1>2, <1>5
<1> HIDE DEF o, file, F, A, M, B, n, zh, zp
<1>9. /\ Between(h, S, zh, A \cup M, P)
      /\ Allocation(zh, S \cup (A \cup M), s, 1)
      /\ Allocation(zh, S \cup (A \cup M), zp, n)
      /\ Freeable(S \cup (A \cup M), F)
  <2>1. /\ Between(h, S, zh, A \cup M, P \cup {})
        /\ S \cup (A \cup M) = (S \cup A) \cup M
        /\ \A t, k : Allocation(o, S \cup A, t, k) => Allocation(zh, S \cup (A \cup M), t, k)
        /\ \A G : Freeable(S \cup A, G) => Freeable(S \cup (A \cup M), G)
      BY <1>1, <1>5, BetweenMore
  <2> QED  BY <1>1, <1>4, <1>8, <2>1
<1>10. /\ Between(h, S, g, B, P) /\ Allocation(g, S \cup B, s, 1) /\ Allocation(g, S \cup B, zp, n)
  <2> DEFINE C == A \cup M
  <2>1. Between(h, S, zh, C, P) /\ F \subseteq C /\ Freeable(S \cup C, F) /\ C \ F = B
      BY <1>8, <1>9
  <2>2. Allocation(zh, S \cup C, s, 1) /\ Allocation(zh, S \cup C, zp, n) /\ M = Ext(zp, n)
      BY <1>9 DEF M, zp
  <2> HIDE DEF C
  <2>3. /\ Between(h, S, fclose(zh, file), C \ F, P)
        /\ \A t, k : Allocation(zh, S \cup C, t, k) /\ F \cap Ext(t, k) = {}
                    => Allocation(fclose(zh, file), S \cup (C \ F), t, k)
      BY <1>1, <2>1, BetweenClose
  <2> QED  BY <1>8, <2>1, <2>2, <2>3
<1> HIDE DEF g
<1>11. Between(h, S, kfree(kfree(g, zp), s), P \cap Block, P)
  <2> DEFINE k == kfree(g, zp)
  <2>0. M = Ext(zp, n) /\ M \subseteq B
      BY DEF M, zp, B
  <2>1. /\ Between(h, S, kfree(g, zp), B \ M, P)
        /\ \A t, j : Allocation(g, S \cup B, t, j) /\ M \cap Ext(t, j) = {}
                    => Allocation(kfree(g, zp), S \cup (B \ M), t, j)
      BY <1>10, <2>0, BetweenFree
  <2>2. Allocation(k, S \cup (B \ M), s, 1)
      BY <1>2, <1>7, <1>10, <2>1
  <2>3. s \in B \ M /\ (B \ M) \ {s} = P \cap Block
      BY <1>7 DEF B
  <2> HIDE DEF k
  <2>4. Between(h, S, kfree(k, s), (B \ M) \ {s}, P)
    <3> DEFINE C == B \ M
    <3>1. Between(h, S, k, C, P) /\ s \in C /\ Allocation(k, S \cup C, s, 1)
        BY <2>1, <2>2, <2>3 DEF k
    <3> HIDE DEF C
    <3>2. Between(h, S, kfree(k, s), C \ {s}, P)
        BY <3>1, ElfFreesOne
    <3> QED  BY <3>2 DEF C
  <2> QED  BY <2>3, <2>4 DEF k
<1> QED  BY <1>4, <1>6, <1>7, <1>10, <1>11 DEF ElfRead, g, B, n, zp, zh, file

\* A file of no bytes: what kzalloc returns for it is free, and freeing it changes
\* nothing.
LEMMA ElfEmpty ==
    ASSUME NEW h, NEW S, NEW s, NEW open, NEW P \in SUBSET Cells, ElfOpened(h, S, s, open, P),
           Fits(0), NEW z, z = kzalloc(open.h, 0)
    PROVE  Between(h, S, elf_file_free(fclose(z.h, open.file), s, z.ptr), P \cap Block, P)
<1> DEFINE o == open.h
           file == open.file
           F == file \cap Block
           A == {s} \cup ((P \cap Block) \cup F)
           B == {s} \cup (P \cap Block)
           g == fclose(o, file)
<1>1. Holds(o, S \cup A)
    BY DEF ElfOpened, Between, Grows
<1>2. z.h = o /\ (z.ptr = NULL \/ z.ptr \in Block \ (S \cup A))
  <2>1. kzalloc(o, 0).h = o /\ (kzalloc(o, 0).ptr = NULL \/ kzalloc(o, 0).ptr \in Block \ (S \cup A))
    <3> HIDE DEF o, A
    <3> QED  BY <1>1, KzallocNothing
  <2> QED  BY <2>1
<1>3. Between(h, S, g, B, P) /\ Between(h, S, kfree(g, s), P \cap Block, P)
    BY ElfCloses
<1>4. Holds(g, S \cup B)
    BY <1>3 DEF Between, Grows
<1> HIDE DEF g
<1>5. z.ptr # NULL => kfree(g, z.ptr) = g
  <2>1. z.ptr # NULL => z.ptr \in Block \ (S \cup B)
      BY <1>2
  <2> HIDE DEF B
  <2> QED  BY <1>4, <2>1, KfreeNothing
<1>6. elf_file_free(g, s, z.ptr) = kfree(g, s)
    BY <1>5 DEF elf_file_free
<1> QED  BY <1>2, <1>3, <1>6 DEF g

\* One more file.
LEMMA KeptFile ==
    ASSUME NEW h, NEW E, NEW F, NEW O, Kept(h, E, F, O),
           NEW f, ElfSound(f), ElfBlocks(f) \cap AllIn(h, E, F, O) = {}
    PROVE  /\ Kept(h, E, F \cup {f}, O)
           /\ AllIn(h, E, F \cup {f}, O) = AllIn(h, E, F, O) \cup ElfBlocks(f)
<1>1. AllIn(h, E, F \cup {f}, O) = AllIn(h, E, F, O) \cup ElfBlocks(f)
    BY DEF AllIn
<1>2. OthersIn(h, E, O) \subseteq AllIn(h, E, F, O)
      /\ \A g \in F : ElfBlocks(g) \subseteq AllIn(h, E, F, O)
    BY DEF AllIn
<1>3. Apart(h, E, F \cup {f}, O)
  <2>1. /\ \A g, k \in F : g # k => ElfBlocks(g) \cap ElfBlocks(k) = {}
        /\ \A g \in F : ElfBlocks(g) \cap OthersIn(h, E, O) = {}
      BY DEF Kept, Apart
  <2>2. \A g, k \in F \cup {f} : g # k => ElfBlocks(g) \cap ElfBlocks(k) = {}
      BY <1>2, <2>1
  <2>3. \A g \in F \cup {f} : ElfBlocks(g) \cap OthersIn(h, E, O) = {}
      BY <1>2, <2>1
  <2> QED  BY <2>2, <2>3 DEF Kept, Apart
<1> QED  BY <1>1, <1>3 DEF Kept

\* The blocks of a file are its two allocations.
LEMMA ElfBlocksAre ==
    ASSUME NEW f, ElfSound(f)
    PROVE  /\ Ext(f.struct, 1) = {f.struct}
           /\ Ext(f.memory, total_blocks(f.size)) = BlocksAt(f.memory, f.size)
           /\ ElfBlocks(f) = Ext(f.struct, 1) \cup Ext(f.memory, total_blocks(f.size))
           /\ Ext(f.struct, 1) \cap Ext(f.memory, total_blocks(f.size)) = {}
<1>1. f.struct \in Nat /\ f.memory \in Block /\ f.struct \notin BlocksAt(f.memory, f.size)
    BY BlockFacts DEF ElfSound
<1>2. Ext(f.struct, 1) = {f.struct}
    BY <1>1 DEF Ext
<1>3. Ext(f.memory, total_blocks(f.size)) = BlocksAt(f.memory, f.size)
    BY <1>1, BlocksAtIs
<1> QED  BY <1>1, <1>2, <1>3 DEF ElfBlocks

\* elf_close gives back the blocks of its file and no other.
LEMMA ElfClosed ==
    ASSUME NEW h, NEW E, NEW F, NEW O, Kept(h, E, F, O), InTable(h, E, F, O), NEW f \in F
    PROVE  LET g == kfree(kfree(h, f.memory), f.struct)
           IN  Kept(g, E, F \ {f}, O) /\ InTable(g, E, F \ {f}, O)
<1> DEFINE S == AllIn(h, E, F, O)
           s == f.struct
           t == f.memory
           n == total_blocks(f.size)
           X == Ext(s, 1)
           M == Ext(t, n)
           k == kfree(h, t)
           g == kfree(k, s)
           R == S \ ElfBlocks(f)
<1>1. Holds(h, S) /\ Allocation(h, S, s, 1) /\ Allocation(h, S, t, n)
    BY DEF InTable
<1>2. ElfBlocks(f) = X \cup M /\ X \cap M = {}
  <2>1. ElfSound(f)
      BY DEF Kept
  <2> QED  BY <2>1, ElfBlocksAre
<1>3. k.mem = h.mem /\ k.leaked = h.leaked /\ Shrinks(h, S, k, M)
  <2> HIDE DEF S, t, n
  <2> QED  BY <1>1, Kfree
<1> DEFINE Q == S \ M
<1>4. Holds(k, Q) /\ Allocation(k, Q, s, 1)
  <2>1. Holds(k, Q)
      BY <1>3 DEF Shrinks
  <2>2. M \cap Ext(s, 1) = {}
      BY <1>2
  <2> HIDE DEF S, s, k, M
  <2>3. Allocation(k, S \ M, s, 1)
      BY <1>1, <1>3, <2>2, AllocationShrunk
  <2> QED  BY <2>1, <2>3
<1>5. g.mem = k.mem /\ g.leaked = k.leaked /\ Shrinks(k, Q, g, X)
  <2> HIDE DEF Q, s, k
  <2> QED  BY <1>4, Kfree
<1>6. Q \ X = R
  <2> HIDE DEF S, X, M
  <2> QED  BY <1>2
<1>7. g.mem = h.mem /\ g.leaked = h.leaked /\ Holds(g, R)
    BY <1>3, <1>5, <1>6 DEF Shrinks
<1>8. AllIn(g, E, F \ {f}, O) = R
  <2>1. OthersIn(g, E, O) = OthersIn(h, E, O)
      BY <1>7 DEF OthersIn
  <2>2. ElfBlocks(f) \cap OthersIn(h, E, O) = {}
        /\ \A e \in F \ {f} : ElfBlocks(e) \cap ElfBlocks(f) = {}
      BY DEF Kept, Apart
  <2>3. S = OthersIn(h, E, O) \cup UNION {ElfBlocks(e) : e \in F}
      BY DEF AllIn
  <2> HIDE DEF S, g
  <2>4. UNION {ElfBlocks(e) : e \in F} = (UNION {ElfBlocks(e) : e \in F \ {f}}) \cup ElfBlocks(f)
      OBVIOUS
  <2>5. (UNION {ElfBlocks(e) : e \in F \ {f}}) \cap ElfBlocks(f) = {}
      BY <2>2
  <2>6. R = OthersIn(h, E, O) \cup UNION {ElfBlocks(e) : e \in F \ {f}}
      BY <2>2, <2>3, <2>4, <2>5
  <2> QED  BY <2>1, <2>6 DEF AllIn
<1>9. Kept(g, E, F \ {f}, O)
  <2>1. OthersIn(g, E, O) = OthersIn(h, E, O)
      BY <1>7 DEF OthersIn
  <2> HIDE DEF g
  <2>2. Apart(g, E, F \ {f}, O)
      BY <1>7, <2>1 DEF Kept, Apart
  <2> QED  BY <1>7, <2>2 DEF Kept
<1>10. ASSUME NEW e \in F \ {f}
       PROVE  Allocation(g, R, e.struct, 1) /\ Allocation(g, R, e.memory, total_blocks(e.size))
  <2> DEFINE a == e.struct
             b == e.memory
             j == total_blocks(e.size)
  <2>1. ElfBlocks(e) = Ext(a, 1) \cup Ext(b, j)
    <3>1. ElfSound(e)
        BY DEF Kept
    <3> QED  BY <3>1, ElfBlocksAre
  <2>2. ElfBlocks(e) \cap ElfBlocks(f) = {}
      BY DEF Kept, Apart
  <2>3. /\ M \cap Ext(a, 1) = {} /\ M \cap Ext(b, j) = {}
        /\ X \cap Ext(a, 1) = {} /\ X \cap Ext(b, j) = {}
    <3> HIDE DEF X, M, a, b, j
    <3> QED  BY <1>2, <2>1, <2>2
  <2>4. Allocation(h, S, a, 1) /\ Allocation(h, S, b, j)
      BY DEF InTable
  <2> HIDE DEF S, X, M, a, b, j, k, g
  <2>5. Allocation(k, Q, a, 1) /\ Allocation(k, Q, b, j)
      BY <1>3, <2>3, <2>4, AllocationShrunk
  <2> HIDE DEF Q
  <2>6. Allocation(g, Q \ X, a, 1) /\ Allocation(g, Q \ X, b, j)
      BY <1>5, <2>3, <2>5, AllocationShrunk
  <2> QED  BY <1>6, <2>6 DEF a, b, j
<1>11. InTable(g, E, F \ {f}, O)
  <2> HIDE DEF R, g
  <2> QED  BY <1>7, <1>8, <1>10 DEF InTable
<1> QED  BY <1>9, <1>11
-----------------------------------------------------------------------------
(* The bounds of an ELF file *)

\* The function that elf_process_pheaders defines exists.
LEMMA BoundsLoop ==
    ASSUME NEW phdrs, NEW count \in Nat
    PROVE  \E t : t = [i \in 0 .. count |-> IF i = 0 THEN NoBounds ELSE elf_process_pheader(t[i - 1], phdrs[i])]
<1> DEFINE Loop(t, c) == t = [i \in 0 .. c |-> IF i = 0 THEN NoBounds ELSE elf_process_pheader(t[i - 1], phdrs[i])]
           S == {c \in Nat : ~ \E t : Loop(t, c)}
<1>1. ASSUME S # {}
      PROVE  FALSE
  <2>1. PICK c \in S : \A e \in S : c <= e
    <3>1. S \subseteq Nat
        OBVIOUS
    <3> HIDE DEF S
    <3> QED  BY <1>1, <3>1, LeastNumber
  <2>2. c \in Nat /\ ~ \E t : Loop(t, c)
      OBVIOUS
  <2>3. c # 0
    <3> DEFINE t == [i \in 0 .. 0 |-> NoBounds]
    <3>1. Loop(t, 0)
        OBVIOUS
    <3> QED  BY <2>2, <3>1
  <2>4. c - 1 \in Nat /\ c - 1 \notin S
    <3>1. c \in Nat
        BY <2>2
    <3> HIDE DEF S
    <3> QED  BY <2>1, <2>3, <3>1
  <2>5. PICK g : Loop(g, c - 1)
      BY <2>4
  <2> DEFINE t == [i \in 0 .. c |-> IF i = c THEN elf_process_pheader(g[c - 1], phdrs[c]) ELSE g[i]]
  <2>6. \A i \in 0 .. c - 1 : t[i] = g[i]
      BY <2>2
  <2>7. \A i \in 0 .. c : t[i] = IF i = 0 THEN NoBounds ELSE elf_process_pheader(t[i - 1], phdrs[i])
    <3> SUFFICES ASSUME NEW i \in 0 .. c
                 PROVE  t[i] = IF i = 0 THEN NoBounds ELSE elf_process_pheader(t[i - 1], phdrs[i])
        OBVIOUS
    <3>1. CASE i = c
      <4>1. t[i] = elf_process_pheader(g[c - 1], phdrs[c])
          BY <3>1
      <4>2. t[c - 1] = g[c - 1]
          BY <2>4, <2>6
      <4> QED  BY <2>3, <3>1, <4>1, <4>2
    <3>2. CASE i # c
      <4>1. i \in 0 .. c - 1 /\ (i # 0 => i - 1 \in 0 .. c - 1)
          BY <2>2, <3>2
      <4>2. g[i] = IF i = 0 THEN NoBounds ELSE elf_process_pheader(g[i - 1], phdrs[i])
          BY <2>5, <4>1
      <4> QED  BY <2>6, <4>1, <4>2
    <3> QED  BY <3>1, <3>2
  <2>8. Loop(t, c)
    <3>1. t = [i \in 0 .. c |-> t[i]]
        OBVIOUS
    <3> HIDE DEF t
    <3> QED  BY <2>7, <3>1
  <2> QED  BY <2>2, <2>8
<1>2. \E t : Loop(t, count)
    BY <1>1
<1> QED  BY <1>2

LoadableTo(phdrs, i) == {j \in 1 .. i : phdrs[j].type = "PT_LOAD"}

Numbers(phdr) == phdr.vaddr \in Nat /\ phdr.filesz \in Nat /\ phdr.offset \in Nat

\* lo gives the base when the segments D have been passed: none follows it if it is
\* at address 0; otherwise it is the last of the lowest behind all that are.
AfterZeros(phdrs, D, j) == \A z \in D : phdrs[z].vaddr = 0 => z < j

LastLowest(phdrs, D, lo) ==
    /\ lo \in D
    /\ phdrs[lo].vaddr = 0 => \A j \in D : j <= lo
    /\ phdrs[lo].vaddr # 0 =>
        /\ AfterZeros(phdrs, D, lo)
        /\ \A j \in D : AfterZeros(phdrs, D, j) =>
            /\ phdrs[lo].vaddr <= phdrs[j].vaddr
            /\ j > lo => phdrs[lo].vaddr < phdrs[j].vaddr

LastHighest(phdrs, D, hi) ==
    /\ hi \in D
    /\ \A j \in D : /\ SegmentEnd(phdrs[j]) <= SegmentEnd(phdrs[hi])
                    /\ j > hi => SegmentEnd(phdrs[j]) < SegmentEnd(phdrs[hi])

BoundsBy(phdrs, lo, hi, b) ==
    /\ b.virtual_base = phdrs[lo].vaddr /\ b.physical_base = phdrs[lo].offset
    /\ b.virtual_end = SegmentEnd(phdrs[hi])
    /\ b.physical_end = phdrs[hi].offset + phdrs[hi].filesz

BoundsOf(phdrs, D, b) ==
    IF D = {} THEN b = NoBounds
    ELSE \E lo, hi : LastLowest(phdrs, D, lo) /\ LastHighest(phdrs, D, hi) /\ BoundsBy(phdrs, lo, hi, b)

\* The end of a segment is an address.
LEMMA EndIsNumber ==
    ASSUME NEW phdr, Numbers(phdr)
    PROVE  SegmentEnd(phdr) \in Nat
<1>1. AddrWord \in Nat \ {0} /\ phdr.vaddr + phdr.filesz \in Nat
    BY ElfAssumption DEF Numbers
<1> DEFINE a == phdr.vaddr + phdr.filesz
<1>2. a % AddrWord \in 0 .. AddrWord - 1
    BY <1>1
<1> QED  BY <1>1, <1>2 DEF SegmentEnd

\* One more segment.
LEMMA LowestOneMore ==
    ASSUME NEW phdrs, NEW D \in SUBSET Nat, NEW i \in Nat, \A j \in D : j < i,
           \A j \in D \cup {i} : phdrs[j].vaddr \in Nat, NEW lo, LastLowest(phdrs, D, lo)
    PROVE  IF phdrs[lo].vaddr >= phdrs[i].vaddr \/ phdrs[lo].vaddr = 0
           THEN LastLowest(phdrs, D \cup {i}, i) ELSE LastLowest(phdrs, D \cup {i}, lo)
<1> DEFINE v(j) == phdrs[j].vaddr
           C == D \cup {i}
<1>1. lo \in D /\ lo \in Nat /\ lo < i /\ v(lo) \in Nat /\ v(i) \in Nat
    BY DEF LastLowest
<1>a. ASSUME NEW j \in C
      PROVE  j <= i /\ ~ (j > i)
  <2>1. j \in Nat /\ (j = i \/ j < i)
      OBVIOUS
  <2> QED  BY <2>1
<1>2. CASE v(i) = 0
  <2>1. \A j \in C : j <= i
      BY <1>a
  <2>2. LastLowest(phdrs, C, i)
      BY <1>2, <2>1 DEF LastLowest
  <2> QED  BY <1>1, <1>2, <2>2
<1>3. CASE v(i) # 0
  <2>0. \A j \in D : AfterZeros(phdrs, C, j) <=> AfterZeros(phdrs, D, j)
      BY <1>3 DEF AfterZeros
  <2>1. AfterZeros(phdrs, C, i)
      BY <1>3 DEF AfterZeros
  <2>2. CASE v(lo) = 0
    <3>1. \A j \in D : j <= lo
        BY <2>2 DEF LastLowest
    <3>2. \A j \in C : AfterZeros(phdrs, C, j) => j = i
        BY <1>1, <2>2, <3>1 DEF AfterZeros
    <3>3. LastLowest(phdrs, C, i)
      <4>1. ASSUME NEW j \in C, AfterZeros(phdrs, C, j)
            PROVE  v(i) <= v(j) /\ (j > i => v(i) < v(j))
        <5>1. j = i
            BY <3>2, <4>1
        <5> QED  BY <1>1, <5>1
      <4> QED  BY <1>3, <2>1, <4>1 DEF LastLowest
    <3> QED  BY <2>2, <3>3
  <2>3. CASE v(lo) # 0
    <3>1. /\ AfterZeros(phdrs, D, lo)
          /\ \A j \in D : AfterZeros(phdrs, D, j) =>
                v(lo) <= v(j) /\ (j > lo => v(lo) < v(j))
        BY <2>3 DEF LastLowest
    <3>2. CASE v(lo) >= v(i)
      <4>1. \A j \in C : AfterZeros(phdrs, C, j) => v(i) <= v(j)
          BY <1>1, <2>0, <3>1, <3>2
      <4>2. \A j \in C : ~ (j > i)
          BY <1>a
      <4>3. LastLowest(phdrs, C, i)
          BY <1>3, <2>1, <4>1, <4>2 DEF LastLowest
      <4> QED  BY <3>2, <4>3
    <3>3. CASE ~ (v(lo) >= v(i))
      <4>1. \A j \in C : AfterZeros(phdrs, C, j) =>
                v(lo) <= v(j) /\ (j > lo => v(lo) < v(j))
          BY <1>1, <2>0, <3>1, <3>3
      <4>2. AfterZeros(phdrs, C, lo)
          BY <1>1, <2>0, <3>1
      <4>3. LastLowest(phdrs, C, lo)
          BY <1>1, <2>3, <4>1, <4>2 DEF LastLowest
      <4> QED  BY <2>3, <3>3, <4>3
    <3> QED  BY <3>2, <3>3
  <2> QED  BY <2>2, <2>3
<1> QED  BY <1>2, <1>3

\* The highest end with one segment more.
LEMMA HighestOneMore ==
    ASSUME NEW phdrs, NEW D \in SUBSET Nat, NEW i \in Nat, \A j \in D : j < i,
           \A j \in D \cup {i} : SegmentEnd(phdrs[j]) \in Nat, NEW hi, LastHighest(phdrs, D, hi)
    PROVE  IF SegmentEnd(phdrs[hi]) <= SegmentEnd(phdrs[i]) \/ SegmentEnd(phdrs[hi]) = 0
           THEN LastHighest(phdrs, D \cup {i}, i) ELSE LastHighest(phdrs, D \cup {i}, hi)
<1>1. hi \in D /\ hi \in Nat /\ hi < i
    BY DEF LastHighest
<1>2. SegmentEnd(phdrs[hi]) \in Nat /\ SegmentEnd(phdrs[i]) \in Nat
    BY <1>1
<1>3. CASE SegmentEnd(phdrs[hi]) <= SegmentEnd(phdrs[i])
  <2>1. \A j \in D \cup {i} : SegmentEnd(phdrs[j]) <= SegmentEnd(phdrs[i]) /\ ~ (j > i)
      BY <1>1, <1>2, <1>3 DEF LastHighest
  <2>2. LastHighest(phdrs, D \cup {i}, i)
      BY <2>1 DEF LastHighest
  <2> QED  BY <1>3, <2>2
<1>4. CASE ~ (SegmentEnd(phdrs[hi]) <= SegmentEnd(phdrs[i]))
  <2>1. LastHighest(phdrs, D \cup {i}, hi)
      BY <1>1, <1>2, <1>4 DEF LastHighest
  <2>2. ~ (SegmentEnd(phdrs[hi]) = 0)
      BY <1>2, <1>4
  <2> QED  BY <1>4, <2>1, <2>2
<1> QED  BY <1>3, <1>4

\* One iteration of elf_process_pheaders, a segment of another type included.
LEMMA BoundsOneMore ==
    ASSUME NEW phdrs, NEW i \in Nat \ {0}, \A j \in 1 .. i : Numbers(phdrs[j]),
           NEW b, BoundsOf(phdrs, LoadableTo(phdrs, i - 1), b)
    PROVE  BoundsOf(phdrs, LoadableTo(phdrs, i), elf_process_pheader(b, phdrs[i]))
<1> DEFINE D == LoadableTo(phdrs, i - 1)
           phdr == phdrs[i]
           c == elf_process_phdr_pt_load(b, phdr)
           lower == b.virtual_base >= phdr.vaddr \/ b.virtual_base = 0
           higher == b.virtual_end <= SegmentEnd(phdr) \/ b.virtual_end = 0
<1>1. D \in SUBSET Nat /\ \A j \in D : j < i /\ j \in 1 .. i
    BY DEF LoadableTo
<1>2. CASE phdr.type # "PT_LOAD"
  <2>1. LoadableTo(phdrs, i) = D
      BY <1>2 DEF LoadableTo
  <2>2. elf_process_pheader(b, phdr) = b
      BY <1>2 DEF elf_process_pheader
  <2> QED  BY <2>1, <2>2
<1>3. CASE phdr.type = "PT_LOAD"
  <2>1. LoadableTo(phdrs, i) = D \cup {i}
      BY <1>3 DEF LoadableTo
  <2>2. elf_process_pheader(b, phdr) = c
      BY <1>3 DEF elf_process_pheader
  <2>3. \A j \in D \cup {i} : Numbers(phdrs[j])
      BY <1>1
  <2>4. \A j \in D \cup {i} : SegmentEnd(phdrs[j]) \in Nat
      BY <2>3, EndIsNumber
  <2>5. \A j \in D \cup {i} : phdrs[j].vaddr \in Nat
      BY <2>3 DEF Numbers
  <2>6. /\ c.virtual_base = IF lower THEN phdr.vaddr ELSE b.virtual_base
        /\ c.physical_base = IF lower THEN phdr.offset ELSE b.physical_base
        /\ c.virtual_end = IF higher THEN SegmentEnd(phdr) ELSE b.virtual_end
        /\ c.physical_end = IF higher THEN phdr.offset + phdr.filesz ELSE b.physical_end
      BY DEF elf_process_phdr_pt_load
  <2> HIDE DEF D, c, phdr
  <2>7. BoundsOf(phdrs, D \cup {i}, c)
    <3>1. CASE D = {}
      <4>1. b = NoBounds
          BY <3>1 DEF BoundsOf, D
      <4>2. lower /\ higher
          BY <4>1 DEF NoBounds
      <4>3. D \cup {i} = {i}
          BY <3>1
      <4>4. LastLowest(phdrs, {i}, i)
        <5>1. i <= i /\ ~ (i > i) /\ phdrs[i].vaddr <= phdrs[i].vaddr
            BY <2>5
        <5>2. phdrs[i].vaddr # 0 => AfterZeros(phdrs, {i}, i)
            BY DEF AfterZeros
        <5> QED  BY <5>1, <5>2 DEF LastLowest
      <4>5. LastHighest(phdrs, {i}, i)
        <5>1. ~ (i > i) /\ SegmentEnd(phdrs[i]) <= SegmentEnd(phdrs[i])
            BY <2>4
        <5> QED  BY <5>1 DEF LastHighest
      <4>6. BoundsBy(phdrs, i, i, c)
          BY <2>6, <4>2 DEF BoundsBy, phdr
      <4> QED  BY <4>3, <4>4, <4>5, <4>6 DEF BoundsOf
    <3>2. CASE D # {}
      <4>1. PICK lo, hi : /\ LastLowest(phdrs, D, lo) /\ LastHighest(phdrs, D, hi)
                          /\ BoundsBy(phdrs, lo, hi, b)
          BY <3>2 DEF BoundsOf, D
      <4>2. IF lower THEN LastLowest(phdrs, D \cup {i}, i) ELSE LastLowest(phdrs, D \cup {i}, lo)
        <5>1. IF phdrs[lo].vaddr >= phdrs[i].vaddr \/ phdrs[lo].vaddr = 0
              THEN LastLowest(phdrs, D \cup {i}, i) ELSE LastLowest(phdrs, D \cup {i}, lo)
            BY <1>1, <2>5, <4>1, LowestOneMore
        <5> QED  BY <4>1, <5>1 DEF BoundsBy, phdr
      <4>3. IF higher THEN LastHighest(phdrs, D \cup {i}, i) ELSE LastHighest(phdrs, D \cup {i}, hi)
        <5>1. IF SegmentEnd(phdrs[hi]) <= SegmentEnd(phdrs[i]) \/ SegmentEnd(phdrs[hi]) = 0
              THEN LastHighest(phdrs, D \cup {i}, i) ELSE LastHighest(phdrs, D \cup {i}, hi)
            BY <1>1, <2>4, <4>1, HighestOneMore
        <5> QED  BY <4>1, <5>1 DEF BoundsBy, phdr
      <4> DEFINE l == IF lower THEN i ELSE lo
                 u == IF higher THEN i ELSE hi
      <4>4. LastLowest(phdrs, D \cup {i}, l) /\ LastHighest(phdrs, D \cup {i}, u)
          BY <4>2, <4>3
      <4>5. BoundsBy(phdrs, l, u, c)
        <5> HIDE DEF lower, higher
        <5> QED  BY <2>6, <4>1 DEF BoundsBy, phdr
      <4> HIDE DEF l, u
      <4> QED  BY <4>4, <4>5 DEF BoundsOf
    <3> QED  BY <3>1, <3>2
  <2> QED  BY <2>1, <2>2, <2>7 DEF phdr
<1> QED  BY <1>2, <1>3

\* elf_process_pheaders leaves the bounds of all loadable segments.
LEMMA BoundsAre ==
    ASSUME NEW header, HeaderType(header)
    PROVE  BoundsOf(header.phdrs, Loadable(header), elf_process_pheaders(header))
<1> DEFINE phdrs == header.phdrs
           n == Len(phdrs)
           Loop(t) == t = [i \in 0 .. n |-> IF i = 0 THEN NoBounds
                                            ELSE elf_process_pheader(t[i - 1], phdrs[i])]
           bounds == CHOOSE t : Loop(t)
<1>1. n \in Nat /\ DOMAIN phdrs = 1 .. n /\ \A j \in 1 .. n : Numbers(phdrs[j])
  <2> DEFINE R == [type : STRING, vaddr : Nat, filesz : Nat, offset : Nat]
  <2>1. phdrs \in Seq(R)
      BY DEF HeaderType
  <2>2. \A r \in R : Numbers(r)
      BY DEF Numbers
  <2> HIDE DEF R, phdrs
  <2>3. n \in Nat /\ DOMAIN phdrs = 1 .. n /\ \A j \in 1 .. n : phdrs[j] \in R
      BY <2>1
  <2> QED  BY <2>2, <2>3
<1>2. elf_process_pheaders(header) = bounds[n]
    BY DEF elf_process_pheaders
<1>3. Loop(bounds)
  <2> HIDE DEF phdrs, n
  <2> QED  BY <1>1, BoundsLoop
<1> HIDE DEF bounds, n, phdrs
<1>4. bounds[0] = NoBounds
      /\ \A i \in 1 .. n : bounds[i] = elf_process_pheader(bounds[i - 1], phdrs[i])
    BY <1>1, <1>3
<1> DEFINE P == {i \in 0 .. n : BoundsOf(phdrs, LoadableTo(phdrs, i), bounds[i])}
<1>5. 0 \in P
  <2>1. LoadableTo(phdrs, 0) = {}
      BY DEF LoadableTo
  <2> QED  BY <1>1, <1>4, <2>1 DEF BoundsOf
<1>6. ASSUME NEW i \in 1 .. n, i - 1 \in P
      PROVE  i \in P
  <2>1. i \in Nat \ {0} /\ \A j \in 1 .. i : Numbers(phdrs[j])
      BY <1>1
  <2>2. BoundsOf(phdrs, LoadableTo(phdrs, i - 1), bounds[i - 1])
      BY <1>6
  <2> DEFINE b == bounds[i - 1]
  <2> HIDE DEF b
  <2>3. BoundsOf(phdrs, LoadableTo(phdrs, i), elf_process_pheader(b, phdrs[i]))
      BY <2>1, <2>2, BoundsOneMore DEF b
  <2> QED  BY <1>1, <1>4, <2>3 DEF b
<1> HIDE DEF P
<1>7. 0 .. n \subseteq P
    BY <1>1, <1>5, <1>6, UpTo
<1>8. BoundsOf(phdrs, LoadableTo(phdrs, n), bounds[n])
    BY <1>1, <1>7 DEF P
<1>9. LoadableTo(phdrs, n) = Loadable(header)
    BY <1>1 DEF LoadableTo, Loadable, phdrs
<1> QED  BY <1>2, <1>8, <1>9 DEF phdrs

\* Max is the number that no other one exceeds.
LEMMA MaxIs ==
    ASSUME NEW S \in SUBSET Nat, NEW x \in S, \A y \in S : y <= x
    PROVE  Max(S) = x
<1>1. \A y \in S : x >= y
    OBVIOUS
<1>2. Max(S) \in S /\ \A y \in S : Max(S) >= y
    BY <1>1 DEF Max
<1>3. Max(S) \in Nat /\ x \in Nat /\ Max(S) >= x /\ x >= Max(S)
    BY <1>1, <1>2
<1> HIDE DEF Max
<1> QED  BY <1>3

\* What the loop computes is what BoundsExact says without one.
LEMMA BoundsAreExact ==
    ASSUME NEW header, HeaderType(header)
    PROVE  BoundsExact(header, elf_process_pheaders(header))
<1> DEFINE phdrs == header.phdrs
           D == Loadable(header)
           b == elf_process_pheaders(header)
           phdr(i) == header.phdrs[i]
           K == BaseCandidates(header)
           lowest == {i \in K : \A j \in K : phdr(i).vaddr <= phdr(j).vaddr}
           highest == {i \in D : \A j \in D : SegmentEnd(phdr(i)) >= SegmentEnd(phdr(j))}
           zeros == {i \in D : phdr(i).vaddr = 0}
           after == {i \in D : \A z \in zeros : z < i}
<1>1. D \in SUBSET Nat /\ \A j \in D : Numbers(phdr(j))
  <2> DEFINE R == [type : STRING, vaddr : Nat, filesz : Nat, offset : Nat]
  <2>1. phdrs \in Seq(R)
      BY DEF HeaderType
  <2>2. \A r \in R : Numbers(r)
      BY DEF Numbers
  <2> HIDE DEF R, phdrs
  <2>3. Len(phdrs) \in Nat /\ DOMAIN phdrs = 1 .. Len(phdrs)
        /\ \A j \in 1 .. Len(phdrs) : phdrs[j] \in R
      BY <2>1
  <2>4. D = {i \in DOMAIN phdrs : phdrs[i].type = "PT_LOAD"}
      BY DEF Loadable, phdrs
  <2> HIDE DEF D
  <2> QED  BY <2>2, <2>3, <2>4 DEF phdrs
<1>2. BoundsOf(phdrs, D, b)
    BY BoundsAre
<1>3. \A j \in D : phdr(j).vaddr \in Nat /\ SegmentEnd(phdr(j)) \in Nat
    BY <1>1, EndIsNumber DEF Numbers
<1>4. K = IF after # {} THEN after ELSE {Max(zeros)}
    BY DEF BaseCandidates
<1>5. ASSUME D # {}
      PROVE  /\ b.virtual_base = phdr(Max(lowest)).vaddr
             /\ b.physical_base = phdr(Max(lowest)).offset
             /\ b.virtual_end = SegmentEnd(phdr(Max(highest)))
             /\ b.physical_end = phdr(Max(highest)).offset + phdr(Max(highest)).filesz
  <2>1. PICK lo, hi : LastLowest(phdrs, D, lo) /\ LastHighest(phdrs, D, hi) /\ BoundsBy(phdrs, lo, hi, b)
      BY <1>2, <1>5 DEF BoundsOf
  <2> HIDE DEF b, D, K
  <2>2. Max(highest) = hi
    <3>1. hi \in D /\ \A j \in D : /\ SegmentEnd(phdr(j)) <= SegmentEnd(phdr(hi))
                                   /\ j > hi => SegmentEnd(phdr(j)) < SegmentEnd(phdr(hi))
        BY <2>1 DEF LastHighest
    <3>2. hi \in highest
        BY <1>3, <3>1
    <3>3. ASSUME NEW j \in highest
          PROVE  j <= hi
      <4>1. SegmentEnd(phdr(j)) >= SegmentEnd(phdr(hi)) /\ j \in D
          BY <3>1, <3>3
      <4>2. ~ (j > hi)
          BY <1>3, <3>1, <4>1
      <4>3. j \in Nat /\ hi \in Nat
          BY <1>1, <3>1, <4>1
      <4> QED  BY <4>2, <4>3
    <3>4. highest \in SUBSET Nat
        BY <1>1
    <3> HIDE DEF highest
    <3> QED  BY <3>2, <3>3, <3>4, MaxIs
  <2>3. Max(lowest) = lo
    <3>1. lo \in D /\ lo \in Nat
        BY <1>1, <2>1 DEF LastLowest
    <3>2. CASE phdr(lo).vaddr = 0
      <4>1. \A j \in D : j <= lo /\ j \in Nat
          BY <1>1, <2>1, <3>2 DEF LastLowest
      <4>2. lo \in zeros /\ zeros \in SUBSET Nat /\ \A z \in zeros : z <= lo
          BY <1>1, <3>1, <3>2, <4>1
      <4>3. after = {}
        <5>1. ASSUME NEW j \in after
              PROVE  FALSE
          <6>1. j \in D /\ lo < j
              BY <4>2
          <6> HIDE DEF after
          <6> QED  BY <3>1, <4>1, <6>1
        <5> QED  BY <5>1
      <4>4. Max(zeros) = lo
        <5> HIDE DEF zeros
        <5> QED  BY <4>2, MaxIs
      <4>5. K = {lo}
          BY <1>4, <4>3, <4>4
      <4>6. lowest = {lo}
        <5>1. phdr(lo).vaddr <= phdr(lo).vaddr
            BY <1>3, <3>1
        <5> QED  BY <4>5, <5>1
      <4>7. {lo} \in SUBSET Nat /\ lo \in {lo} /\ \A y \in {lo} : y <= lo
          BY <3>1
      <4>8. Max({lo}) = lo
          BY <4>7, MaxIs
      <4> QED  BY <4>6, <4>8
    <3>3. CASE phdr(lo).vaddr # 0
      <4>1. /\ AfterZeros(phdrs, D, lo)
            /\ \A j \in D : AfterZeros(phdrs, D, j) =>
                    /\ phdr(lo).vaddr <= phdr(j).vaddr
                    /\ j > lo => phdr(lo).vaddr < phdr(j).vaddr
          BY <2>1, <3>3 DEF LastLowest
      <4>2. \A j \in D : AfterZeros(phdrs, D, j) <=> j \in after
          BY DEF AfterZeros
      <4>3. lo \in after
          BY <3>1, <4>1, <4>2
      <4>4. K = after /\ after \subseteq D
          BY <1>4, <4>3
      <4>5. \A j \in K : /\ phdr(lo).vaddr <= phdr(j).vaddr
                         /\ j > lo => phdr(lo).vaddr < phdr(j).vaddr
          BY <4>1, <4>2, <4>4
      <4>6. lo \in lowest /\ lowest \in SUBSET Nat
          BY <1>1, <4>3, <4>4, <4>5
      <4>7. ASSUME NEW j \in lowest
            PROVE  j <= lo
        <5>1. j \in K /\ phdr(j).vaddr <= phdr(lo).vaddr
            BY <4>3, <4>4
        <5>2. ~ (j > lo)
            BY <1>3, <3>1, <4>4, <4>5, <5>1
        <5>3. j \in Nat
            BY <1>1, <4>4, <5>1
        <5> QED  BY <3>1, <5>2, <5>3
      <4> HIDE DEF lowest
      <4> QED  BY <4>6, <4>7, MaxIs
    <3> QED  BY <3>2, <3>3
  <2> HIDE DEF lowest, highest
  <2> QED  BY <2>1, <2>2, <2>3 DEF BoundsBy
<1>6. D = {} => b = NoBounds
    BY <1>2 DEF BoundsOf
<1>7. BoundsExact(header, b)
  <2> HIDE DEF b
  <2> QED  BY <1>5, <1>6 DEF BoundsExact
<1> QED  BY <1>7

\* A file that is accepted says where its segments are.
LEMMA ElfAccepted ==
    ASSUME NEW header, HeaderType(header), elf_process_loaded(header).res = 0
    PROVE  header.phoff # 0 /\ BoundsExact(header, elf_process_loaded(header).bounds)
<1> DEFINE v == elf_validate_loaded(header)
<1>1. ~ (v < 0) /\ elf_process_loaded(header).bounds = elf_process_pheaders(header)
    BY DEF elf_process_loaded
<1>2. header.phoff # 0
  <2>1. ~ (-EINFORMAT = 0) /\ (-EINFORMAT < 0)
      BY DEF EINFORMAT
  <2> QED  BY <1>1, <2>1 DEF elf_validate_loaded, elf_has_program_header
<1> QED  BY <1>1, <1>2, BoundsAreExact
-----------------------------------------------------------------------------
(* The invariant is inductive *)

\* kernel_main before the first load: some blocks are taken, no process or file is
\* there.
LEMMA InitInv == Init => Inv
<1> SUFFICES ASSUME Init PROVE Inv
    OBVIOUS
<1>1. PICK k \in Occupied :
        /\ occupied = 0 .. k - 1
        /\ heap = [table |-> [b \in Block |-> IF b < k THEN {"TAKEN", "IS_FIRST"} ELSE FREE],
                   mem |-> [b \in Block \cup {NULL} |-> Zeroed],
                   leaked |-> {}]
    BY DEF Init
<1>2. k \in 0 .. Total
    BY LoaderAssumption
<1>3. DOMAIN processes = Slot /\ Ever = {} /\ elf_files = {}
  <2>1. processes = [i \in Slot |-> NoProcess] /\ gone = {} /\ elf_files = {}
      BY DEF Init
  <2> QED  BY <2>1 DEF Ever, Loaded
<1> DEFINE h == heap
           O == 0 .. k - 1
<1>4. AllIn(h, {}, {}, O) = O /\ OthersIn(h, {}, O) = O
  <2>1. h.leaked = {} /\ NULL \notin O
      BY <1>1, <1>2 DEF NULL
  <2> HIDE DEF h, O
  <2> QED  BY <2>1 DEF AllIn, OthersIn
<1>5. h.mem \in MemType
  <2>1. Zeroed \in [Index -> Words]
      BY DEF Zeroed, Entry, Words, FlagSets
  <2>2. h.mem = [b \in Cells |-> Zeroed]
      BY <1>1 DEF Cells
  <2> HIDE DEF h
  <2> QED  BY <2>1, <2>2 DEF MemType
<1>6. Kept(h, {}, {}, O)
  <2> HIDE DEF h, O
  <2> QED  BY <1>5 DEF Kept, Apart
<1>7. Holds(h, O)
  <2>1. h = [table |-> h.table, mem |-> h.mem, leaked |-> h.leaked]
        /\ h.table = [b \in Block |-> IF b < k THEN {"TAKEN", "IS_FIRST"} ELSE FREE]
      BY <1>1
  <2>2. {"TAKEN", "IS_FIRST"} \in SUBSET Flag /\ FREE \in SUBSET Flag
      BY DEF FREE, Flag
  <2>3. h.table \in Table
    <3> HIDE DEF h
    <3> QED  BY <2>1, <2>2 DEF Table
  <2>4. O \subseteq Block /\ O \subseteq Nat /\ \A b \in Block : b \in O <=> b < k
      BY <1>2, BlockFacts
  <2>5. \A b \in Block : IF b \in O THEN "TAKEN" \in h.table[b] ELSE h.table[b] = FREE
    <3> HIDE DEF h, O
    <3> QED  BY <2>1, <2>4
  <2> HIDE DEF h, O
  <2> QED  BY <2>1, <2>3, <2>4, <2>5 DEF Holds
<1>8. InTable(h, {}, {}, O)
    BY <1>4, <1>7 DEF InTable
<1> QED  BY <1>1, <1>3, <1>6, <1>8 DEF Inv

\* process_load takes a free slot for the process.
LEMMA NewSlot ==
    ASSUME DOMAIN processes = Slot, FreeSlots # {}, NEW p, p # NoProcess,
           processes' = [processes EXCEPT ![CHOOSE i \in FreeSlots : \A j \in FreeSlots : i <= j] = p],
           gone' = gone
    PROVE  DOMAIN processes' = Slot /\ Ever' = Ever \cup {p}
<1> DEFINE slot == CHOOSE i \in FreeSlots : \A j \in FreeSlots : i <= j
<1>1. slot \in FreeSlots
  <2>1. FreeSlots \subseteq Nat
      BY LoaderAssumption DEF FreeSlots, Slot
  <2>2. \E i \in FreeSlots : \A j \in FreeSlots : i <= j
      BY <2>1, LeastNumber
  <2> QED  BY <2>2
<1> HIDE DEF slot
<1>2. slot \in Slot /\ processes[slot] = NoProcess
    BY <1>1 DEF FreeSlots
<1>3. DOMAIN processes' = Slot /\ processes'[slot] = p
      /\ \A i \in Slot \ {slot} : processes'[i] = processes[i]
    BY <1>2 DEF slot
<1>4. {processes'[i] : i \in Slot} \ {NoProcess} = ({processes[i] : i \in Slot} \ {NoProcess}) \cup {p}
    BY <1>2, <1>3
<1>5. Loaded' = Loaded \cup {p}
    BY <1>4 DEF Loaded
<1> QED  BY <1>3, <1>5 DEF Ever

\* process_load, with its allocations in order and each error path.
LEMMA LoadStep ==
    ASSUME Inv, NEW file \in Programs, process_load(file)
    PROVE  Inv'
<1>1. PICK h, E, F, O : h = heap /\ E = Ever /\ F = elf_files /\ O = occupied
    OBVIOUS
<1>2. mode = "running" /\ Kept(h, E, F, O) /\ InTable(h, E, F, O) /\ DOMAIN processes = Slot
      /\ FreeSlots # {}
    BY <1>1 DEF process_load, Call, Inv
<1> DEFINE S == AllIn(h, E, F, O)
           load == process_load_for_slot(h, file)
           g == load.h
           p == load.process
<1>3. Holds(h, S) /\ h.mem \in MemType /\ S \subseteq Nat
    BY <1>2 DEF InTable, Kept, Holds
<1>4. /\ heap' = g /\ elf_files' = F /\ occupied' = O /\ gone' = gone
      /\ processes' = IF load.res = 0
            THEN [processes EXCEPT ![CHOOSE i \in FreeSlots : \A j \in FreeSlots : i <= j] = p]
            ELSE processes
      /\ mode' = IF load.res > 0 THEN "lost" ELSE "running"
    BY <1>1 DEF process_load
<1>5. LoadFrom(h, S, load)
  <2> HIDE DEF S
  <2> QED  BY <1>3, LoadForSlot
<1> HIDE DEF load
<1>6. PICK L \in SUBSET BlockOrNull :
        /\ L \cap S = {} /\ g.leaked = h.leaked \cup L
        /\ load.res < 0 => Grows(h, S, g, L \ {NULL})
        /\ load.res = 0 => /\ Grows(h, S, g, (L \ {NULL}) \cup OwnIn(g.mem, p))
                           /\ L \cap OwnIn(g.mem, p) = {}
                           /\ Sound(g.mem, p)
    BY <1>5 DEF LoadFrom
<1>7. g.mem \in MemType /\ load.res \in Int /\ \A x \in S \cap Block : g.mem[x] = h.mem[x]
    BY <1>5 DEF LoadFrom
<1> HIDE DEF g, p
<1>8. Kept(g, E, F, O) /\ AllIn(g, E, F, O) = S \cup (L \ {NULL})
    BY <1>2, <1>3, <1>6, <1>7, KeptOn
<1>9. CASE load.res # 0
  <2>1. processes' = processes /\ Ever' = E
      BY <1>1, <1>4, <1>9 DEF Ever, Loaded
  <2>2. ASSUME mode' = "running"
        PROVE  InTable(g, E, F, O)
    <3>1. load.res < 0
        BY <1>4, <1>7, <1>9, <2>2
    <3>2. Grows(h, S, g, L \ {NULL})
        BY <1>6, <3>1
    <3> QED  BY <1>2, <1>8, <3>2, InTableGrown
  <2>3. DOMAIN processes' = Slot /\ Kept(heap', Ever', elf_files', occupied')
        /\ (mode' = "running" => InTable(heap', Ever', elf_files', occupied'))
      BY <1>2, <1>4, <1>8, <2>1, <2>2
  <2> QED  BY <2>3 DEF Inv
<1>10. CASE load.res = 0
  <2> DEFINE W == OwnIn(g.mem, p)
  <2>1. /\ Grows(h, S, g, (L \ {NULL}) \cup W) /\ L \cap W = {} /\ Sound(g.mem, p)
      BY <1>6, <1>10
  <2>2. W \subseteq Nat /\ W \cap S = {}
      BY <2>1 DEF Grows
  <2>3. p # NoProcess
    <3>1. p.struct \in Block
        BY <2>1 DEF Sound, Fields
    <3> QED  BY <3>1, BlockFacts DEF NoProcess
  <2>4. DOMAIN processes' = Slot /\ Ever' = E \cup {p}
      BY <1>1, <1>2, <1>4, <1>10, <2>3, NewSlot
  <2>5. W \cap AllIn(g, E, F, O) = {}
      BY <1>8, <2>1, <2>2
  <2>6. Kept(g, E \cup {p}, F, O) /\ AllIn(g, E \cup {p}, F, O) = (S \cup (L \ {NULL})) \cup W
    <3>1. Kept(g, E, F, O) /\ Sound(g.mem, p) /\ OwnIn(g.mem, p) \cap AllIn(g, E, F, O) = {}
          /\ OwnIn(g.mem, p) \subseteq Nat
        BY <1>8, <2>1, <2>2, <2>5
    <3>2. /\ Kept(g, E \cup {p}, F, O)
          /\ AllIn(g, E \cup {p}, F, O) = AllIn(g, E, F, O) \cup OwnIn(g.mem, p)
        BY <3>1, KeptProcess
    <3> QED  BY <1>8, <3>2
  <2>7. InTable(g, E \cup {p}, F, O)
    <3> DEFINE A == (L \ {NULL}) \cup W
    <3>1. AllIn(g, E \cup {p}, F, O) = S \cup A /\ Grows(h, S, g, A)
        BY <2>1, <2>6
    <3> HIDE DEF A
    <3> QED  BY <1>2, <3>1, InTableGrown
  <2>8. DOMAIN processes' = Slot /\ Kept(heap', Ever', elf_files', occupied')
        /\ InTable(heap', Ever', elf_files', occupied')
      BY <1>4, <2>4, <2>6, <2>7
  <2> QED  BY <2>8 DEF Inv
<1> QED  BY <1>9, <1>10

\* process_terminate: the process stays in the history, its blocks stay taken.
LEMMA TerminateStep ==
    ASSUME Inv, NEW slot \in Slot, process_terminate(slot)
    PROVE  Inv'
<1>1. /\ gone' = gone \cup {processes[slot]} /\ processes[slot] # NoProcess
      /\ processes' = [processes EXCEPT ![slot] = NoProcess]
      /\ UNCHANGED <<heap, elf_files, mode, occupied>> /\ DOMAIN processes = Slot
    BY DEF process_terminate, Inv
<1>2. DOMAIN processes' = Slot /\ processes'[slot] = NoProcess
      /\ \A i \in Slot \ {slot} : processes'[i] = processes[i]
    BY <1>1
<1>3. Ever' = Ever
  <2>1. ({processes'[i] : i \in Slot} \ {NoProcess}) \cup {processes[slot]}
            = {processes[i] : i \in Slot} \ {NoProcess}
      BY <1>1, <1>2
  <2> QED  BY <1>1, <2>1 DEF Ever, Loaded
<1>4. DOMAIN processes' = Slot /\ Kept(heap', Ever', elf_files', occupied')
      /\ (mode' = "running" => InTable(heap', Ever', elf_files', occupied'))
    BY <1>1, <1>2, <1>3 DEF Inv
<1> QED  BY <1>4 DEF Inv

\* The heap after a load of an ELF file that failed, and one that succeeded.
LEMMA ElfFails ==
    ASSUME NEW h, NEW E, NEW F, NEW O, Kept(h, E, F, O), InTable(h, E, F, O), NEW g,
           NEW P \in SUBSET Cells, Between(h, AllIn(h, E, F, O), g, P \cap Block, P)
    PROVE  Kept(g, E, F, O) /\ InTable(g, E, F, O)
<1> DEFINE S == AllIn(h, E, F, O)
<1>1. S \subseteq Nat /\ g.mem \in MemType /\ g.mem = h.mem /\ g.leaked = h.leaked \cup P
      /\ Grows(h, S, g, P \cap Block) /\ (P \cap Block) \cap S = {}
    BY DEF InTable, Holds, Kept, Between, Grows
<1>2. P \ {NULL} = P \cap Block /\ P \cap S = {} /\ P \in SUBSET BlockOrNull
  <2>1. Block \subseteq Nat /\ NULL \notin Nat
      BY BlockFacts DEF NULL
  <2> HIDE DEF S
  <2> QED  BY <1>1, <2>1 DEF Cells, BlockOrNull
<1>3. Kept(g, E, F, O) /\ AllIn(g, E, F, O) = S \cup (P \ {NULL})
    BY <1>1, <1>2, KeptOn
<1>4. InTable(g, E, F, O)
    BY <1>1, <1>2, <1>3, InTableGrown
<1> QED  BY <1>3, <1>4

\* A file that elf_load returns is apart from what was there.
LEMMA ElfLoads ==
    ASSUME NEW h, NEW E, NEW F, NEW O, Kept(h, E, F, O), InTable(h, E, F, O), NEW g,
           NEW P \in SUBSET Cells, NEW f, ElfSound(f), P \cap ElfBlocks(f) = {},
           NEW B, B = (P \cap Block) \cup ElfBlocks(f),
           Between(h, AllIn(h, E, F, O), g, B, P),
           Allocation(g, AllIn(h, E, F, O) \cup B, f.struct, 1),
           Allocation(g, AllIn(h, E, F, O) \cup B, f.memory, total_blocks(f.size))
    PROVE  Kept(g, E, F \cup {f}, O) /\ InTable(g, E, F \cup {f}, O)
<1> DEFINE S == AllIn(h, E, F, O)
<1>1. S \subseteq Nat /\ g.mem \in MemType /\ g.mem = h.mem /\ g.leaked = h.leaked \cup P
      /\ Grows(h, S, g, B) /\ B \cap S = {} /\ Holds(g, S \cup B)
    BY DEF InTable, Holds, Kept, Between, Grows
<1>2. P \ {NULL} = P \cap Block /\ P \cap S = {} /\ P \in SUBSET BlockOrNull
  <2>1. Block \subseteq Nat /\ NULL \notin Nat
      BY BlockFacts DEF NULL
  <2> HIDE DEF S
  <2> QED  BY <1>1, <2>1 DEF Cells, BlockOrNull
<1>3. Kept(g, E, F, O) /\ AllIn(g, E, F, O) = S \cup (P \ {NULL})
    BY <1>1, <1>2, KeptOn
<1>4. ElfBlocks(f) \cap AllIn(g, E, F, O) = {}
    BY <1>1, <1>2, <1>3
<1>5. /\ Kept(g, E, F \cup {f}, O)
      /\ AllIn(g, E, F \cup {f}, O) = AllIn(g, E, F, O) \cup ElfBlocks(f)
    BY <1>3, <1>4, KeptFile
<1>6. AllIn(g, E, F \cup {f}, O) = S \cup B
    BY <1>2, <1>3, <1>5
<1>7. ASSUME NEW e \in F
      PROVE  /\ Allocation(g, S \cup B, e.struct, 1)
             /\ Allocation(g, S \cup B, e.memory, total_blocks(e.size))
  <2>1. Allocation(h, S, e.struct, 1) /\ Allocation(h, S, e.memory, total_blocks(e.size))
      BY DEF InTable
  <2> QED  BY <1>1, <2>1, AllocationGrown
<1>8. InTable(g, E, F \cup {f}, O)
  <2> HIDE DEF S
  <2>1. /\ Allocation(g, S \cup B, f.struct, 1)
        /\ Allocation(g, S \cup B, f.memory, total_blocks(f.size))
      BY DEF S
  <2> QED  BY <1>1, <1>6, <1>7, <2>1 DEF InTable
<1> QED  BY <1>5, <1>8

\* A machine that is lost has its processes and files still.
LEMMA ElfLosesOn ==
    ASSUME NEW h, NEW E, NEW F, NEW O, Kept(h, E, F, O), InTable(h, E, F, O), NEW g,
           NEW A, NEW P \in SUBSET Cells, P \cap Block \subseteq A,
           Between(h, AllIn(h, E, F, O), g, A, P)
    PROVE  Kept(g, E, F, O)
<1> DEFINE S == AllIn(h, E, F, O)
<1>1. S \subseteq Nat /\ g.mem \in MemType /\ g.mem = h.mem /\ g.leaked = h.leaked \cup P
      /\ A \cap S = {}
    BY DEF InTable, Holds, Kept, Between, Grows
<1>2. P \cap S = {} /\ P \in SUBSET BlockOrNull
  <2>1. Block \subseteq Nat /\ NULL \notin Nat
      BY BlockFacts DEF NULL
  <2> HIDE DEF S
  <2> QED  BY <1>1, <2>1 DEF Cells, BlockOrNull
<1> QED  BY <1>1, <1>2, KeptOn

\* elf_load, with its errors in the order of the code.
LEMMA ElfLoadStep ==
    ASSUME Inv, NEW file \in ElfFiles, elf_load(file)
    PROVE  Inv'
<1>1. PICK h, E, F, O : h = heap /\ E = Ever /\ F = elf_files /\ O = occupied
    OBVIOUS
<1>2. mode = "running" /\ Kept(h, E, F, O) /\ InTable(h, E, F, O) /\ DOMAIN processes = Slot
    BY <1>1 DEF elf_load, Call, Inv
<1>3. processes' = processes /\ Ever' = E /\ occupied' = O
    BY <1>1 DEF elf_load, Ever, Loaded
<1>4. ASSUME Kept(heap', E, elf_files', O),
             mode' = "running" => InTable(heap', E, elf_files', O)
      PROVE  Inv'
  <2>1. DOMAIN processes' = Slot /\ Kept(heap', Ever', elf_files', occupied')
        /\ (mode' = "running" => InTable(heap', Ever', elf_files', occupied'))
      BY <1>2, <1>3, <1>4
  <2> QED  BY <2>1 DEF Inv
<1> DEFINE S == AllIn(h, E, F, O)
           z == kzalloc(h, 1)
           s == z.ptr
           open == fopen(z.h)
           memory == kzalloc(open.h, file.size)
           loaded == elf_process_loaded(file.header)
           f == [struct |-> s, memory |-> memory.ptr, size |-> file.size,
                 header |-> file.header, bounds |-> loaded.bounds]
           Returns(k, ptr) == heap' = elf_file_free(k, s, ptr) /\ elf_files' = F /\ mode' = mode
           Loses(k) == heap' = k /\ mode' = "lost" /\ elf_files' = F
<1>5. \/ s = NULL /\ Loses(h)
      \/ s # NULL /\ Returns(z.h, NULL)
      \/ s # NULL /\ Returns(fclose(open.h, open.file), NULL)
      \/ s # NULL /\ file.size > 0 /\ memory.ptr = NULL /\ Loses(memory.h)
      \/ /\ s # NULL /\ (file.size = 0 \/ memory.ptr # NULL)
         /\ Returns(fclose(memory.h, open.file), memory.ptr)
      \/ /\ s # NULL /\ file.size > 0 /\ memory.ptr # NULL /\ loaded.res = 0
         /\ heap' = fclose(memory.h, open.file) /\ elf_files' = F \cup {f} /\ mode' = mode
    BY <1>1 DEF elf_load
<1>6. Holds(h, S) /\ S \subseteq Nat
    BY <1>2 DEF InTable, Holds
<1>7. Fits(file.size) /\ HeaderType(file.header) /\ file.size \in Nat
    BY LoaderAssumption DEF Fits
<1> HIDE DEF f, loaded
<1>8. CASE s = NULL /\ Loses(h)
    BY <1>2, <1>4, <1>8
<1>9. ASSUME s # NULL
      PROVE  /\ s \in Block \ S /\ Between(h, S, z.h, {s}, {})
             /\ Allocation(z.h, S \cup {s}, s, 1)
             /\ \E P \in SUBSET Cells : ElfOpened(h, S, s, open, P)
  <2>1. z = kzalloc(h, 1) /\ z.ptr # NULL
      BY <1>9
  <2> HIDE DEF S, z
  <2> QED  BY <1>6, <2>1, ElfOpens
<1> HIDE DEF z, s
<1>10. CASE s # NULL /\ Returns(z.h, NULL)
  <2>1. heap' = kfree(z.h, s) /\ elf_files' = F /\ mode' = mode
      BY <1>10 DEF elf_file_free
  <2>2. Between(h, S, kfree(z.h, s), {s} \ {s}, {})
    <3> DEFINE A == {s}
               a == z.h
    <3>1. Between(h, S, a, A, {}) /\ s \in A /\ Allocation(a, S \cup A, s, 1)
        BY <1>9, <1>10
    <3> HIDE DEF A, S, a
    <3>2. Between(h, S, kfree(a, s), A \ {s}, {})
        BY <3>1, ElfFreesOne
    <3> QED  BY <3>2 DEF A, a
  <2>3. {s} \ {s} = {} \cap Block /\ {} \in SUBSET Cells
      OBVIOUS
  <2>4. Kept(kfree(z.h, s), E, F, O) /\ InTable(kfree(z.h, s), E, F, O)
      BY <1>2, <2>2, <2>3, ElfFails
  <2> QED  BY <1>4, <2>1, <2>4
<1>11. CASE s # NULL /\ Returns(fclose(open.h, open.file), NULL)
  <2>1. PICK P \in SUBSET Cells : ElfOpened(h, S, s, open, P)
      BY <1>9, <1>11
  <2> DEFINE g == kfree(fclose(open.h, open.file), s)
  <2>2. heap' = g /\ elf_files' = F /\ mode' = mode
      BY <1>11 DEF elf_file_free
  <2>3. Between(h, S, g, P \cap Block, P)
    <3> HIDE DEF S, open
    <3> QED  BY <2>1, ElfCloses
  <2> HIDE DEF g
  <2>4. Kept(g, E, F, O) /\ InTable(g, E, F, O)
      BY <1>2, <2>3, ElfFails
  <2> QED  BY <1>4, <2>2, <2>4
<1>12. CASE s # NULL /\ file.size > 0 /\ memory.ptr = NULL /\ Loses(memory.h)
  <2>1. PICK P \in SUBSET Cells : ElfOpened(h, S, s, open, P)
      BY <1>9, <1>12
  <2> DEFINE A == {s} \cup ((P \cap Block) \cup (open.file \cap Block))
             o == open.h
             size == file.size
  <2>2. Between(h, S, o, A, P) /\ P \cap Block \subseteq A
      BY <2>1 DEF ElfOpened
  <2>3. memory.h = o
    <3>1. Holds(o, S \cup A) /\ Fits(size) /\ size > 0
        BY <1>7, <1>12, <2>2 DEF Between, Grows
    <3>2. memory = kzalloc(o, size)
        OBVIOUS
    <3> HIDE DEF S, A, o, size, memory
    <3>3. (kzalloc(o, size).ptr = NULL /\ kzalloc(o, size).h = o) \/ kzalloc(o, size).ptr \in Block
        BY <3>1, Kzalloc
    <3>4. NULL \notin Block
        BY BlockFacts
    <3> QED  BY <1>12, <3>2, <3>3, <3>4
  <2> HIDE DEF A, o
  <2>4. Kept(o, E, F, O)
      BY <1>2, <2>2, ElfLosesOn
  <2>5. heap' = o /\ elf_files' = F /\ ~ (mode' = "running")
      BY <1>12, <2>3
  <2> QED  BY <1>4, <2>4, <2>5
<1>13. CASE /\ s # NULL /\ (file.size = 0 \/ memory.ptr # NULL)
            /\ Returns(fclose(memory.h, open.file), memory.ptr)
  <2>1. PICK P \in SUBSET Cells : ElfOpened(h, S, s, open, P)
      BY <1>9, <1>13
  <2> DEFINE g == elf_file_free(fclose(memory.h, open.file), s, memory.ptr)
  <2>2. heap' = g /\ elf_files' = F /\ mode' = mode
      BY <1>13
  <2>3. Between(h, S, g, P \cap Block, P)
    <3>1. CASE file.size = 0
      <4>1. memory = kzalloc(open.h, 0) /\ Fits(0)
          BY <1>7, <3>1
      <4> HIDE DEF S, open, memory
      <4> QED  BY <2>1, <4>1, ElfEmpty
    <3>2. CASE file.size # 0
      <4>1. /\ memory = kzalloc(open.h, file.size) /\ Fits(file.size) /\ file.size > 0
            /\ memory.ptr # NULL
          BY <1>7, <1>13, <3>2
      <4>2. g = kfree(kfree(fclose(memory.h, open.file), memory.ptr), s)
          BY <4>1 DEF elf_file_free
      <4> HIDE DEF S, open, memory, g
      <4>3. ElfRead(h, S, s, open, P, file.size, memory)
          BY <2>1, <4>1, ElfReads
      <4> QED  BY <4>2, <4>3 DEF ElfRead
    <3> QED  BY <3>1, <3>2
  <2> HIDE DEF g
  <2>4. Kept(g, E, F, O) /\ InTable(g, E, F, O)
      BY <1>2, <2>3, ElfFails
  <2> QED  BY <1>4, <2>2, <2>4
<1>14. CASE /\ s # NULL /\ file.size > 0 /\ memory.ptr # NULL /\ loaded.res = 0
            /\ heap' = fclose(memory.h, open.file) /\ elf_files' = F \cup {f} /\ mode' = mode
  <2>1. PICK P \in SUBSET Cells : ElfOpened(h, S, s, open, P)
      BY <1>9, <1>14
  <2> DEFINE g == fclose(memory.h, open.file)
             M == BlocksAt(memory.ptr, file.size)
             B == (P \cap Block) \cup ({s} \cup M)
  <2>2. /\ memory.ptr \in Block /\ s \notin M /\ P \cap ({s} \cup M) = {}
        /\ Between(h, S, g, B, P) /\ Allocation(g, S \cup B, s, 1)
        /\ Allocation(g, S \cup B, memory.ptr, total_blocks(file.size))
    <3>1. /\ memory = kzalloc(open.h, file.size) /\ Fits(file.size) /\ file.size > 0
          /\ memory.ptr # NULL
        BY <1>7, <1>14
    <3> HIDE DEF S, open, memory
    <3>2. ElfRead(h, S, s, open, P, file.size, memory)
        BY <2>1, <3>1, ElfReads
    <3> QED  BY <3>2 DEF ElfRead
  <2>3. /\ f.struct = s /\ f.memory = memory.ptr /\ f.size = file.size
        /\ f.header = file.header /\ f.bounds = loaded.bounds
      BY DEF f
  <2>4. file.header.phoff # 0 /\ BoundsExact(file.header, loaded.bounds)
    <3> DEFINE header == file.header
    <3>1. HeaderType(header) /\ elf_process_loaded(header).res = 0
        BY <1>7, <1>14 DEF loaded
    <3> HIDE DEF header
    <3>2. header.phoff # 0 /\ BoundsExact(header, elf_process_loaded(header).bounds)
        BY <3>1, ElfAccepted
    <3> QED  BY <3>2 DEF header, loaded
  <2>5. s \in Block
      BY <1>9, <1>14
  <2> HIDE DEF memory
  <2>6. ElfSound(f)
      BY <1>7, <1>14, <2>2, <2>3, <2>4, <2>5 DEF ElfSound
  <2>7. ElfBlocks(f) = {s} \cup M
      BY <2>3 DEF ElfBlocks
  <2> HIDE DEF M, g
  <2>8. Kept(g, E, F \cup {f}, O) /\ InTable(g, E, F \cup {f}, O)
    <3>1. /\ P \cap ElfBlocks(f) = {} /\ B = (P \cap Block) \cup ElfBlocks(f)
          /\ Allocation(g, S \cup B, f.struct, 1)
          /\ Allocation(g, S \cup B, f.memory, total_blocks(f.size))
        BY <2>2, <2>3, <2>7
    <3> HIDE DEF B
    <3> QED  BY <1>2, <2>2, <2>6, <3>1, ElfLoads
  <2>9. heap' = g /\ elf_files' = F \cup {f} /\ mode' = mode
      BY <1>14 DEF g
  <2> QED  BY <1>4, <2>8, <2>9
<1> HIDE DEF Returns, Loses, open, memory, S
<1> QED  BY <1>5, <1>8, <1>10, <1>11, <1>12, <1>13, <1>14

\* elf_close frees the memory and then the structure.
LEMMA ElfCloseStep ==
    ASSUME Inv, NEW file \in elf_files, elf_close(file)
    PROVE  Inv'
<1>1. PICK h, E, F, O, f : h = heap /\ E = Ever /\ F = elf_files /\ O = occupied /\ f = file
    OBVIOUS
<1>2. /\ f \in F /\ Kept(h, E, F, O) /\ InTable(h, E, F, O) /\ DOMAIN processes = Slot
    BY <1>1 DEF elf_close, Inv
<1> DEFINE g == kfree(kfree(h, f.memory), f.struct)
<1>3. /\ processes' = processes /\ Ever' = E /\ occupied' = O
      /\ heap' = g /\ elf_files' = F \ {f} /\ mode' = mode
    BY <1>1 DEF elf_close, Ever, Loaded
<1>4. Kept(g, E, F \ {f}, O) /\ InTable(g, E, F \ {f}, O)
    BY <1>2, ElfClosed
<1> HIDE DEF g
<1>5. DOMAIN processes' = Slot /\ Kept(heap', Ever', elf_files', occupied')
      /\ InTable(heap', Ever', elf_files', occupied')
    BY <1>2, <1>3, <1>4
<1> QED  BY <1>5 DEF Inv

\* Every step keeps the invariant.
LEMMA NextInv == Inv /\ [Next]_vars => Inv'
<1> SUFFICES ASSUME Inv, [Next]_vars PROVE Inv'
    OBVIOUS
<1>1. ASSUME NEW file \in Programs, process_load(file)
      PROVE  Inv'
    BY <1>1, LoadStep
<1>2. ASSUME NEW slot \in Slot, process_terminate(slot)
      PROVE  Inv'
    BY <1>2, TerminateStep
<1>3. ASSUME NEW file \in ElfFiles, elf_load(file)
      PROVE  Inv'
    BY <1>3, ElfLoadStep
<1>4. ASSUME NEW file \in elf_files, elf_close(file)
      PROVE  Inv'
    BY <1>4, ElfCloseStep
<1>5. CASE Lost \/ UNCHANGED vars
  <2>1. UNCHANGED vars
      BY <1>5 DEF Lost
  <2>2. processes' = processes /\ heap' = heap /\ Ever' = Ever /\ elf_files' = elf_files
        /\ occupied' = occupied /\ mode' = mode
      BY <2>1 DEF vars, Ever, Loaded
  <2>3. DOMAIN processes' = Slot /\ Kept(heap', Ever', elf_files', occupied')
        /\ (mode' = "running" => InTable(heap', Ever', elf_files', occupied'))
      BY <2>2 DEF Inv
  <2> QED  BY <2>3 DEF Inv
<1> QED  BY <1>1, <1>2, <1>3, <1>4, <1>5 DEF Next
-----------------------------------------------------------------------------
(* The properties *)

\* process.c:230-246, 477-571, elfloader.c:190-239.  Whatever is loaded, closed and terminated in
\* whatever order, and whichever allocation fails, every process and every ELF file
\* has what it was loaded with, no block has two owners, and the table has exactly
\* the blocks that are owned or lost.
THEOREM LoaderInvariant == Spec => []Inv
BY InitInv, NextInv, PTL DEF Spec

\* The tables of a directory, the directory and the chunk are N + 2 blocks.
LEMMA WholeCounted ==
    ASSUME NEW m, NEW p, Whole(m, p.directory, p.chunk)
    PROVE  TablesIn(m, p) \subseteq Block /\ Cardinality(TablesIn(m, p)) = N + 2
<1> DEFINE d == p.directory
           c == p.chunk
           T == {m[d][i].base : i \in Index}
           f == [i \in Index |-> m[d][i].base]
<1>1. /\ d \in Block /\ c \in Block /\ c # d
      /\ \A i \in Index : m[d][i].base \in Block \ {c, d}
      /\ \A i, j \in Index : m[d][i].base = m[d][j].base => i = j
    BY DEF Whole
<1>2. TablesIn(m, p) = (T \cup {d}) \cup {c} /\ TablesIn(m, p) \subseteq Block
    BY <1>1 DEF TablesIn
<1>3. IsFiniteSet(Index) /\ Cardinality(Index) = N
  <2>1. N \in Nat \ {0} /\ Index = 0 .. N - 1 /\ 0 \in Int /\ N - 1 \in Int
      BY SpaceSizes
  <2>2. IsFiniteSet(0 .. N - 1) /\ Cardinality(0 .. N - 1) = IF 0 > N - 1 THEN 0 ELSE (N - 1) - 0 + 1
      BY <2>1, FS_Interval
  <2> QED  BY <2>1, <2>2
<1>4. ExistsBijection(Index, T)
  <2>1. f \in [Index -> T] /\ \A t \in T : \E i \in Index : f[i] = t
      OBVIOUS
  <2>2. \A i, j \in Index : f[i] = f[j] => i = j
      BY <1>1
  <2> HIDE DEF f, T
  <2>3. f \in Bijection(Index, T)
      BY <2>1, <2>2 DEF Bijection, Injection, Surjection, IsInjective
  <2> QED  BY <2>3 DEF ExistsBijection
<1>5. d \notin T /\ c \notin T
    BY <1>1
<1> HIDE DEF T
<1>6. IsFiniteSet(T) /\ Cardinality(T) = N
    BY <1>3, <1>4, FS_Bijection
<1>7. IsFiniteSet(T \cup {d}) /\ Cardinality(T \cup {d}) = N + 1
    BY <1>5, <1>6, FS_AddElement
<1>8. c \notin T \cup {d}
    BY <1>1, <1>5
<1> DEFINE U == T \cup {d}
<1> HIDE DEF U
<1>9. Cardinality(U \cup {c}) = (N + 1) + 1
    BY <1>7, <1>8, FS_AddElement DEF U
<1>10. (N + 1) + 1 = N + 2
    BY SpaceSizes
<1> QED  BY <1>2, <1>9, <1>10 DEF U

\* paging.c:7-27, task.c:217-224.  No task has a partial directory: as the chunk is
\* allocated last and checked, all before it were there.
THEOREM NoPartialDirectory == Spec => []DirectoriesWhole
<1>1. Inv => DirectoriesWhole
  <2> SUFFICES ASSUME Inv, NEW p \in Ever
               PROVE  Tables(p) \subseteq Block /\ Cardinality(Tables(p)) = N + 2
      BY DEF DirectoriesWhole
  <2>1. Whole(heap.mem, p.directory, p.chunk)
      BY DEF Inv, Kept, Sound
  <2>2. Tables(p) = TablesIn(heap.mem, p)
      BY DEF Tables, TablesIn
  <2> QED  BY <2>1, <2>2, WholeCounted
<1> QED  BY <1>1, LoaderInvariant, PTL

\* process.c:376-461, kernel.c:133.  A program finds its image and its stack where
\* they should be, writable, and every other page is the kernel's, from its load on
\* and whatever is loaded, closed or terminated after it.
THEOREM ProgramsMappedExactly == Spec => []MappedExactly
<1>1. Inv => MappedExactly
  <2> SUFFICES ASSUME Inv, NEW p \in Ever
               PROVE  \A page \in Page :
                        LET i == page - PageOf(ProgramAddr)
                            j == page - PageOf(StackEnd)
                        IN  Translate(p, page) =
                                IF p.filetype = "BINARY" /\ i \in 0 .. Cardinality(Image(p)) - 1
                                THEN Entry(heap_block_to_address(p.ptr + i), UserData)
                                ELSE IF j \in 0 .. Cardinality(Stack(p)) - 1
                                THEN Entry(heap_block_to_address(p.stack + j), UserData)
                                ELSE Entry(page * PageSize, UserPage)
      BY DEF MappedExactly
  <2>1. MappedIn(heap.mem, p)
      BY DEF Inv, Kept, Sound
  <2> QED  BY <2>1 DEF MappedIn, Translate
<1> QED  BY <1>1, LoaderInvariant, PTL

\* A page that a program can write is one of its image or its stack.
LEMMA WritableBlock ==
    ASSUME NEW m, NEW p, Sound(m, p), NEW page \in Page,
           "W" \in paging_get(m, p.directory, page * PageSize).flags
    PROVE  \E b \in Image(p) \cup Stack(p) :
                PageOf(paging_get(m, p.directory, page * PageSize).base) = BlockPage(b)
<1> DEFINE i == page - PageOf(ProgramAddr)
           j == page - PageOf(StackEnd)
           n == Cardinality(Image(p))
           k == Cardinality(Stack(p))
           w == paging_get(m, p.directory, page * PageSize)
<1>1. w = IF p.filetype = "BINARY" /\ i \in 0 .. n - 1
          THEN Entry(heap_block_to_address(p.ptr + i), UserData)
          ELSE IF j \in 0 .. k - 1
          THEN Entry(heap_block_to_address(p.stack + j), UserData)
          ELSE Entry(page * PageSize, UserPage)
    BY DEF Sound, MappedIn
<1>2. Fields(p)
    BY DEF Sound
<1>3. p.stack \in Block /\ p.stack \in Nat /\ Fits(StackSize)
    BY <1>2, BlockFacts, LoaderAssumption DEF Fields
<1>4. k = total_blocks(StackSize) /\ k \in Nat /\ Stack(p) = p.stack .. p.stack + k - 1
    BY <1>3, BlocksCounted, BlocksAtIs, RoundUp DEF Stack, Ext
<1>5. ASSUME p.filetype = "BINARY"
      PROVE  p.ptr \in Nat /\ n \in Nat /\ Image(p) = p.ptr .. p.ptr + n - 1
  <2>1. p.ptr \in Block /\ p.ptr \in Nat /\ Fits(p.size)
      BY <1>2, <1>5, BlockFacts DEF Fields, ImageFields
  <2> QED  BY <2>1, BlocksCounted, BlocksAtIs, RoundUp DEF Image, Ext
<1> HIDE DEF i, j, n, k, w
<1>6. CASE p.filetype = "BINARY" /\ i \in 0 .. n - 1
  <2>1. w.base = heap_block_to_address(p.ptr + i)
      BY <1>1, <1>6 DEF Entry
  <2>2. p.ptr + i \in Image(p)
      BY <1>5, <1>6
  <2> QED  BY <2>1, <2>2 DEF BlockPage, w
<1>7. CASE ~ (p.filetype = "BINARY" /\ i \in 0 .. n - 1) /\ j \in 0 .. k - 1
  <2>1. w.base = heap_block_to_address(p.stack + j)
      BY <1>1, <1>7 DEF Entry
  <2>2. p.stack + j \in Stack(p)
      BY <1>3, <1>4, <1>7
  <2> QED  BY <2>1, <2>2 DEF BlockPage, w
<1>8. ASSUME ~ (p.filetype = "BINARY" /\ i \in 0 .. n - 1), ~ (j \in 0 .. k - 1)
      PROVE  FALSE
  <2>1. w.flags = UserPage
      BY <1>1, <1>8 DEF Entry
  <2>2. "W" \notin UserPage
      BY DEF UserPage
  <2> QED  BY <2>1, <2>2 DEF w
<1> QED  BY <1>6, <1>7, <1>8

\* The blocks of a process are numbers, and different blocks are different pages.
LEMMA OwnAreNumbers ==
    ASSUME NEW m, NEW p, Sound(m, p)
    PROVE  OwnIn(m, p) \subseteq Nat
<1>1. \A ptr \in Block : \A size : Fits(size) => BlocksAt(ptr, size) \subseteq Nat
  <2> SUFFICES ASSUME NEW ptr \in Block, NEW size, Fits(size)
               PROVE  BlocksAt(ptr, size) \subseteq Nat
      OBVIOUS
  <2>1. BlocksAt(ptr, size) = ptr .. ptr + total_blocks(size) - 1
      BY BlocksAtIs DEF Ext
  <2>2. ptr \in Nat /\ total_blocks(size) \in Nat
      BY BlockFacts, RoundUp
  <2> QED  BY <2>1, <2>2
<1>2. BlocksAt(NULL, 0) = {}
    BY DEF BlocksAt
<1>3. Fields(p) /\ Whole(m, p.directory, p.chunk)
    BY DEF Sound
<1>4. Image(p) \subseteq Nat
    BY <1>1, <1>2, <1>3 DEF Fields, ImageFields, Image
<1>5. Stack(p) \subseteq Nat /\ BlocksAt(p.struct, ProcessSize) \subseteq Nat
    BY <1>1, <1>3, LoaderAssumption DEF Fields, Stack
<1>6. p.task \in Nat
    BY <1>3, BlockFacts DEF Fields
<1>7. TablesIn(m, p) \subseteq Nat
    BY <1>3, BlockFacts DEF Whole, TablesIn
<1> QED  BY <1>4, <1>5, <1>6, <1>7 DEF OwnIn

\* Different blocks are different pages.
LEMMA PagesApart ==
    ASSUME NEW A \in SUBSET Nat, NEW B \in SUBSET Nat, A \cap B = {}
    PROVE  {BlockPage(b) : b \in A} \cap {BlockPage(b) : b \in B} = {}
<1>1. \A a, b \in Nat : BlockPage(a) = BlockPage(b) => a = b
    BY BlockPages
<1> QED  BY <1>1

\* heap.c:95-170, process.c:400-461.  A program writes its image and its stack and
\* nothing that it, another program, terminated or not, or an ELF file needs.
THEOREM ProgramsWriteTheirOwn == Spec => []WritableIsOwn
<1>1. Inv => WritableIsOwn
  <2> SUFFICES ASSUME Inv, NEW p \in Ever
               PROVE  LET writable == {page \in Page : "W" \in Translate(p, page).flags}
                          written == {PageOf(Translate(p, page).base) : page \in writable}
                      IN  /\ written \subseteq {BlockPage(b) : b \in Image(p) \cup Stack(p)}
                          /\ written \cap {BlockPage(b) : b \in {p.task} \cup Tables(p)
                                                \cup BlocksAt(p.struct, ProcessSize)} = {}
                          /\ \A q \in Ever \ {p} :
                                written \cap {BlockPage(b) : b \in OwnBlocks(q)} = {}
                          /\ \A f \in elf_files :
                                written \cap {BlockPage(b) : b \in ElfBlocks(f)} = {}
      BY DEF WritableIsOwn
  <2> DEFINE m == heap.mem
             writable == {page \in Page : "W" \in Translate(p, page).flags}
             written == {PageOf(Translate(p, page).base) : page \in writable}
             Pages(A) == {BlockPage(b) : b \in A}
             D == Image(p) \cup Stack(p)
             R == {p.task} \cup Tables(p) \cup BlocksAt(p.struct, ProcessSize)
  <2>1. Kept(heap, Ever, elf_files, occupied)
      BY DEF Inv
  <2>2. \A q \in Ever : Sound(m, q) /\ OwnBlocks(q) = OwnIn(m, q) /\ Tables(q) = TablesIn(m, q)
    <3>1. \A q \in Ever : Sound(m, q)
        BY <2>1 DEF Kept
    <3> QED  BY <3>1 DEF OwnBlocks, OwnIn, Tables, TablesIn
  <2>3. \A q \in Ever : OwnBlocks(q) \subseteq Nat
    <3>1. ASSUME NEW q \in Ever
          PROVE  OwnBlocks(q) \subseteq Nat
      <4>1. Sound(m, q) /\ OwnBlocks(q) = OwnIn(m, q)
          BY <2>2
      <4> HIDE DEF m
      <4> QED  BY <4>1, OwnAreNumbers
    <3> QED  BY <3>1
  <2>4. written \subseteq Pages(D)
    <3>1. ASSUME NEW page \in writable
          PROVE  \E b \in D : PageOf(Translate(p, page).base) = BlockPage(b)
      <4>1. Translate(p, page) = paging_get(m, p.directory, page * PageSize)
          BY DEF Translate
      <4>2. Sound(m, p) /\ page \in Page
            /\ "W" \in paging_get(m, p.directory, page * PageSize).flags
          BY <2>2, <4>1
      <4> HIDE DEF m
      <4> QED  BY <4>1, <4>2, WritableBlock
    <3> QED  BY <3>1
  <2>5. D \subseteq OwnBlocks(p) /\ R \subseteq OwnBlocks(p) /\ D \cap R = {}
    <3>1. D \cap (BlocksAt(p.struct, ProcessSize) \cup {p.task} \cup TablesIn(m, p)) = {}
        BY <2>2 DEF Sound
    <3> QED  BY <2>2, <3>1 DEF OwnBlocks
  <2> HIDE DEF written, D, R, m
  <2>6. ASSUME NEW A, A \subseteq Nat, D \cap A = {}
        PROVE  written \cap Pages(A) = {}
    <3>1. D \subseteq Nat
        BY <2>3, <2>5
    <3>2. Pages(D) \cap Pages(A) = {}
        BY <2>6, <3>1, PagesApart
    <3> QED  BY <2>4, <3>2
  <2>7. written \cap Pages(R) = {}
      BY <2>3, <2>5, <2>6
  <2>8. ASSUME NEW q \in Ever \ {p}
        PROVE  written \cap Pages(OwnBlocks(q)) = {}
    <3>1. OwnIn(m, p) \cap OwnIn(m, q) = {}
        BY <2>1 DEF Kept, Apart, m
    <3>2. OwnBlocks(p) \cap OwnBlocks(q) = {}
        BY <2>2, <3>1
    <3> QED  BY <2>3, <2>5, <2>6, <3>2
  <2>9. ASSUME NEW f \in elf_files
        PROVE  written \cap Pages(ElfBlocks(f)) = {}
    <3>1. ElfBlocks(f) \cap OthersIn(heap, Ever, occupied) = {}
        BY <2>1 DEF Kept, Apart
    <3>2. OwnBlocks(p) \subseteq OthersIn(heap, Ever, occupied)
      <4>1. NULL \notin OwnBlocks(p)
          BY <2>3 DEF NULL
      <4> QED  BY <2>2, <4>1 DEF OthersIn, m
    <3>3. ElfBlocks(f) \subseteq Nat
      <4>1. ElfSound(f)
          BY <2>1 DEF Kept
      <4>2. f.struct \in Nat /\ f.memory \in Block /\ f.memory \in Nat /\ Fits(f.size)
          BY <4>1, BlockFacts DEF ElfSound
      <4>3. BlocksAt(f.memory, f.size) = f.memory .. f.memory + total_blocks(f.size) - 1
            /\ total_blocks(f.size) \in Nat
          BY <4>2, BlocksAtIs, RoundUp DEF Ext
      <4> QED  BY <4>2, <4>3 DEF ElfBlocks
    <3> QED  BY <2>5, <2>6, <3>1, <3>2, <3>3
  <2> QED  BY <2>4, <2>7, <2>8, <2>9 DEF D, R, written
<1> QED  BY <1>1, LoaderInvariant, PTL

\* process.c:190-246, 500-571.  Every taken block has an owner or is lost, and what an
\* owner has is taken.
THEOREM EveryBlockAccounted == Spec => []BlocksAccounted
<1>1. Inv => BlocksAccounted
  <2> SUFFICES ASSUME Inv, mode = "running"
               PROVE  {b \in Block : ~ IsFree(heap.table, b)}
                        = (occupied \cup heap.leaked \cup (UNION {OwnBlocks(p) : p \in Ever})
                            \cup UNION {ElfBlocks(f) : f \in elf_files}) \cap Block
      BY DEF BlocksAccounted
  <2> DEFINE S == AllIn(heap, Ever, elf_files, occupied)
  <2>1. Holds(heap, S)
      BY DEF Inv, InTable
  <2>2. \A b \in Block : ~ IsFree(heap.table, b) <=> b \in S
    <3>1. \A b \in Block : IF b \in S THEN "TAKEN" \in heap.table[b] ELSE heap.table[b] = FREE
        BY <2>1 DEF Holds
    <3> HIDE DEF S
    <3> QED  BY <3>1 DEF IsFree, FREE
  <2>3. \A p : OwnBlocks(p) = OwnIn(heap.mem, p)
      BY DEF OwnBlocks, OwnIn, Tables, TablesIn
  <2>4. {OwnBlocks(p) : p \in Ever} = {OwnIn(heap.mem, p) : p \in Ever}
      BY <2>3
  <2>5. NULL \notin Block
      BY BlockFacts
  <2>6. S \cap Block = (occupied \cup heap.leaked \cup (UNION {OwnBlocks(p) : p \in Ever})
                            \cup UNION {ElfBlocks(f) : f \in elf_files}) \cap Block
      BY <2>4, <2>5 DEF AllIn, OthersIn
  <2> HIDE DEF S
  <2>7. {b \in Block : ~ IsFree(heap.table, b)} = S \cap Block
      BY <2>2
  <2> QED  BY <2>6, <2>7
<1> QED  BY <1>1, LoaderInvariant, PTL

\* elfloader.c:112-154.  The bounds that the loop over the program headers leaves are
\* those of the segments, whatever their number and order.
THEOREM ElfBoundsAreExact == Spec => []ElfBoundsExact
<1>1. Inv => ElfBoundsExact
    BY DEF Inv, Kept, ElfSound, ElfBoundsExact
<1> QED  BY <1>1, LoaderInvariant, PTL
=============================================================================
