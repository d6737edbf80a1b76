---------------------------- MODULE PagingProofs ----------------------------
(***************************************************************************)
(* The two-level tables translate as the calls say, for every table size,  *)
(* page size and number of heap blocks.                                    *)
(***************************************************************************)
EXTENDS Paging, FiniteSetTheorems, WellFoundedInduction, TLAPS

(* Arithmetic *)

LEMMA Positive ==
    ASSUME NEW a \in Nat \ {0}, NEW b \in Nat \ {0}
    PROVE  a * b \in Nat \ {0} /\ a * b = b * a
  OBVIOUS

LEMMA AtLeast ==
    ASSUME NEW a \in Nat, NEW b \in Int, NEW c \in Int, b <= c
    PROVE  a * b <= a * c /\ a * b \in Int /\ a * c \in Int
  OBVIOUS

\* Quotient and remainder are the only numbers of their kind.
LEMMA DivMod ==
    ASSUME NEW b \in Nat \ {0}, NEW q \in Int, NEW r \in 0 .. b - 1, NEW a \in Int,
           a = b * q + r
    PROVE  a \div b = q /\ a % b = r
<1> DEFINE q1 == a \div b
           r1 == a % b
<1>1. q1 \in Int /\ r1 \in 0 .. b - 1 /\ a = b * q1 + r1
    OBVIOUS
<1> HIDE DEF q1, r1
<1>2. CASE q < q1
  <2>1. b * (q + 1) <= b * q1
      BY <1>1, <1>2, AtLeast
  <2>2. b * (q + 1) = b * q + b
      OBVIOUS
  <2> QED  BY <1>1, <2>1, <2>2
<1>3. CASE q1 < q
  <2>1. b * (q1 + 1) <= b * q
      BY <1>1, <1>3, AtLeast
  <2>2. b * (q1 + 1) = b * q1 + b
      BY <1>1
  <2> QED  BY <1>1, <2>1, <2>2
<1>4. CASE q = q1
    BY <1>1, <1>4 DEF q1, r1
<1> QED  BY <1>1, <1>2, <1>3, <1>4

LEMMA Sizes ==
    /\ N \in Nat \ {0} /\ PageSize \in Nat \ {0}
    /\ N * N \in Nat \ {0} /\ N * PageSize \in Nat \ {0}
    /\ Space \in Nat \ {0} /\ Space = (N * N) * PageSize
    /\ Page = 0 .. N * N - 1 /\ Index = 0 .. N - 1
<1>1. N \in Nat \ {0} /\ PageSize \in Nat \ {0}
    BY PageTablesAssumption
<1>2. N * N \in Nat \ {0} /\ N * PageSize \in Nat \ {0}
    BY <1>1, Positive
<1>3. (N * N) * PageSize \in Nat \ {0}
    BY <1>1, <1>2, Positive
<1>4. N * N * PageSize = (N * N) * PageSize
    OBVIOUS
<1> QED  BY <1>1, <1>2, <1>3, <1>4 DEF Space, Page, Index

\* A page is a table and a place in it.
LEMMA PageParts ==
    ASSUME NEW p \in Page
    PROVE  p \div N \in Index /\ p % N \in Index /\ p = N * (p \div N) + (p % N)
<1>1. N \in Nat \ {0} /\ p \in Nat /\ p < N * N /\ N * N \in Nat
    BY Sizes
<1> DEFINE q == p \div N
           r == p % N
<1>2. q \in Int /\ r \in 0 .. N - 1 /\ p = N * q + r
    BY <1>1
<1> HIDE DEF q, r
<1>3. q < N
  <2> SUFFICES ASSUME N <= q PROVE FALSE
      BY <1>1, <1>2
  <2>1. N * N <= N * q
      BY <1>1, <1>2, AtLeast
  <2> QED  BY <1>1, <1>2, <2>1
<1>4. q >= 0
  <2> SUFFICES ASSUME q <= -1 PROVE FALSE
      BY <1>2
  <2>1. N * q <= N * (-1) /\ N * q \in Int
      BY <1>1, <1>2, AtLeast
  <2>2. N * (-1) = -N
      BY <1>1
  <2> QED  BY <1>1, <1>2, <2>1, <2>2
<1> QED  BY <1>1, <1>2, <1>3, <1>4, Sizes DEF q, r

\* The index computation on the address of a page.
LEMMA PageIndexes ==
    ASSUME NEW p \in Page
    PROVE  /\ paging_get_indexes(p * PageSize).directory = p \div N
           /\ paging_get_indexes(p * PageSize).table = p % N
<1> DEFINE q == p \div N
           r == p % N
           a == p * PageSize
           B == N * PageSize
<1>1. /\ N \in Nat \ {0} /\ PageSize \in Nat \ {0} /\ B \in Nat \ {0} /\ p \in Nat
    BY Sizes
<1>2. q \in 0 .. N - 1 /\ r \in 0 .. N - 1 /\ p = N * q + r
    BY PageParts, Sizes
<1> HIDE DEF q, r
<1>3. a \in Int /\ r * PageSize \in Int
    BY <1>1, <1>2
<1>4. (N * q + r) * PageSize = (N * PageSize) * q + r * PageSize
    BY <1>1, <1>2
<1>5. a = B * q + r * PageSize
    BY <1>2, <1>4
<1>6. 0 <= r * PageSize
    BY <1>1, <1>2
<1>7. r * PageSize < B
  <2>1. PageSize * (r + 1) <= PageSize * N
      BY <1>1, <1>2, AtLeast
  <2>2. PageSize * (r + 1) = r * PageSize + PageSize
      BY <1>1, <1>2
  <2>3. PageSize * N = B
      BY <1>1
  <2> QED  BY <1>1, <1>3, <2>1, <2>2, <2>3
<1>8. r * PageSize \in 0 .. B - 1
    BY <1>1, <1>3, <1>6, <1>7
<1> HIDE DEF a, B
<1>9. a \div B = q /\ a % B = r * PageSize
  <2> DEFINE t == r * PageSize
  <2>1. B \in Nat \ {0} /\ q \in Int /\ t \in 0 .. B - 1 /\ a \in Int /\ a = B * q + t
      BY <1>1, <1>2, <1>3, <1>5, <1>8
  <2> HIDE DEF t
  <2>2. a \div B = q /\ a % B = t
      BY <2>1, DivMod
  <2> QED  BY <2>2 DEF t
<1>10. (r * PageSize) \div PageSize = r
  <2>1. r * PageSize = PageSize * r + 0 /\ 0 \in 0 .. PageSize - 1
      BY <1>1, <1>2
  <2> QED  BY <1>1, <1>2, <1>3, <2>1, DivMod
<1> QED  BY <1>9, <1>10 DEF paging_get_indexes, a, B, q, r

\* Addresses wrap as pages do.
LEMMA WrapPage ==
    ASSUME NEW v \in Page, NEW i \in Nat
    PROVE  /\ (v * PageSize + i * PageSize) % Space = ((v + i) % (N * N)) * PageSize
           /\ (v + i) % (N * N) \in Page
<1> DEFINE M == N * N
           q == (v + i) \div M
           r == (v + i) % M
           t == r * PageSize
           a == v * PageSize + i * PageSize
<1>1. M \in Nat \ {0} /\ PageSize \in Nat \ {0} /\ Space \in Nat \ {0} /\ Space = M * PageSize
      /\ v \in Nat /\ Page = 0 .. M - 1
    BY Sizes
<1> HIDE DEF M
<1>2. q \in Int /\ r \in 0 .. M - 1 /\ v + i = M * q + r
    BY <1>1
<1> HIDE DEF q, r
<1>3. a \in Int /\ a = (v + i) * PageSize
    BY <1>1
<1>4. (M * q + r) * PageSize = (M * PageSize) * q + r * PageSize
    BY <1>1, <1>2
<1>5. t \in Int /\ 0 <= t
    BY <1>1, <1>2
<1>6. t < Space
  <2>1. PageSize * (r + 1) <= PageSize * M
      BY <1>1, <1>2, AtLeast
  <2>2. PageSize * (r + 1) = r * PageSize + PageSize /\ PageSize * M = M * PageSize
      BY <1>1, <1>2
  <2> QED  BY <1>1, <1>5, <2>1, <2>2
<1>7. a = Space * q + t
    BY <1>1, <1>2, <1>3, <1>4
<1> HIDE DEF a, t
<1>8. t \in 0 .. Space - 1
    BY <1>1, <1>5, <1>6
<1>9. a % Space = t
  <2>1. Space \in Nat \ {0} /\ q \in Int /\ a \in Int
      BY <1>1, <1>2, <1>3
  <2> QED  BY ONLY <1>7, <1>8, <2>1, DivMod
<1> QED  BY <1>1, <1>2, <1>9 DEF a, t, r, M

\* The i-th page of a range that starts at v is p exactly if p is i pages behind v.
LEMMA PageBehind ==
    ASSUME NEW M \in Nat \ {0}, NEW v \in 0 .. M - 1, NEW p \in 0 .. M - 1, NEW i \in 0 .. M - 1
    PROVE  /\ (v + i) % M = p <=> (p - v) % M = i
           /\ (p - v) % M \in 0 .. M - 1
<1>1. (v + i) % M = IF v + i < M THEN v + i ELSE v + i - M
  <2>1. CASE v + i < M
      BY <2>1
  <2>2. CASE ~ (v + i < M)
    <3>1. v + i = M * 1 + (v + i - M) /\ v + i - M \in 0 .. M - 1
        BY <2>2
    <3> QED  BY <2>2, <3>1, DivMod
  <2> QED  BY <2>1, <2>2
<1>2. (p - v) % M = IF p - v >= 0 THEN p - v ELSE p - v + M
  <2>1. CASE p - v >= 0
      BY <2>1
  <2>2. CASE ~ (p - v >= 0)
    <3>1. p - v = M * (-1) + (p - v + M) /\ p - v + M \in 0 .. M - 1
        BY <2>2
    <3> QED  BY <2>2, <3>1, DivMod
  <2> QED  BY <2>1, <2>2
<1> QED  BY <1>1, <1>2

\* An aligned address below Space is that of a page.
LEMMA AlignedIsPage ==
    ASSUME NEW a \in 0 .. Space - 1
    PROVE  /\ a \div PageSize \in Page
           /\ paging_align_to_lower_page(a) = (a \div PageSize) * PageSize
           /\ a - paging_align_to_lower_page(a) = a % PageSize
           /\ paging_is_aligned(a) => a = (a \div PageSize) * PageSize
<1> DEFINE q == a \div PageSize
           r == a % PageSize
           M == N * N
<1>1. M \in Nat \ {0} /\ PageSize \in Nat \ {0} /\ Space = M * PageSize /\ Space \in Nat
      /\ Page = 0 .. M - 1
    BY Sizes
<1>2. q \in Int /\ r \in 0 .. PageSize - 1 /\ a = PageSize * q + r
    BY <1>1
<1> HIDE DEF q, r, M
<1>3. q < M
  <2> SUFFICES ASSUME M <= q PROVE FALSE
      BY <1>1, <1>2
  <2>1. PageSize * M <= PageSize * q
      BY <1>1, <1>2, AtLeast
  <2>2. PageSize * M = Space
      BY <1>1
  <2> QED  BY <1>1, <1>2, <2>1, <2>2
<1>4. q >= 0
  <2> SUFFICES ASSUME q <= -1 PROVE FALSE
      BY <1>2
  <2>1. PageSize * q <= PageSize * (-1) /\ PageSize * q \in Int
      BY <1>1, <1>2, AtLeast
  <2>2. PageSize * (-1) = -PageSize
      BY <1>1
  <2> QED  BY <1>1, <1>2, <2>1, <2>2
<1>5. a - r = q * PageSize /\ a - (a - r) = r
    BY <1>1, <1>2
<1> QED  BY <1>1, <1>2, <1>3, <1>4, <1>5 DEF paging_align_to_lower_page, paging_is_aligned, q, r

LEMMA LeastNumber ==
    ASSUME NEW S, S \subseteq Nat, S # {}
    PROVE  \E x \in S : \A y \in S : x <= y
<1> DEFINE R == OpToRel(<, Nat)
<1>1. IsWellFoundedOn(R, Nat)
    BY NatLessThanWellFounded
<1>2. PICK x \in S : \A y \in S : ~ (<<y, x>> \in R)
  <2> HIDE DEF R
  <2> QED  BY <1>1, WFMin
<1>3. \A y \in S : x <= y
  <2>1. SUFFICES ASSUME NEW y \in S, y < x PROVE FALSE
      OBVIOUS
  <2>2. <<y, x>> \in R
      BY <2>1 DEF OpToRel
  <2> QED  BY <1>2, <2>2
<1> QED  BY <1>3

-----------------------------------------------------------------------------
(* Mapping a range of pages *)

FlagSets == NewFlags \cup MapFlags \cup {fl \cup {PAGING_IS_WRITEABLE} : fl \in NewFlags} \cup {{}}
Word == [base : Nat, flags : FlagSets]
MemType == [Frame -> [Index -> Word]]

\* d is a directory with tables of its own in m.
Directory(m, d) ==
    /\ d \in Frame
    /\ \A i \in Index : m[d][i].base \in Frame /\ m[d][i].base # d
    /\ \A i, j \in Index : m[d][i].base = m[d][j].base => i = j

\* paging_set changes the word of its page and no other.
LEMMA SetPage ==
    ASSUME NEW m \in MemType, NEW d, Directory(m, d), NEW p0 \in Page, NEW val \in Word
    PROVE  LET n == paging_set(m, d, p0 * PageSize, val)
           IN  /\ n \in MemType
               /\ \A x \in Frame : (\A j \in Index : x # m[d][j].base) => n[x] = m[x]
               /\ \A p \in Page : paging_get(n, d, p * PageSize)
                        = IF p = p0 THEN val ELSE paging_get(m, d, p * PageSize)
<1> DEFINE n == paging_set(m, d, p0 * PageSize, val)
           t0 == m[d][p0 \div N].base
<1>1. p0 \div N \in Index /\ p0 % N \in Index /\ p0 = N * (p0 \div N) + (p0 % N)
    BY PageParts
<1>2. /\ paging_get_indexes(p0 * PageSize).directory = p0 \div N
      /\ paging_get_indexes(p0 * PageSize).table = p0 % N
    BY PageIndexes
<1>3. n = [m EXCEPT ![t0][p0 % N] = val]
    BY <1>2 DEF paging_set
<1>4. d \in Frame /\ t0 \in Frame /\ t0 # d
    BY <1>1 DEF Directory
<1> HIDE DEF n, t0
<1>5. /\ n \in MemType
      /\ \A x \in Frame : x # t0 => n[x] = m[x]
      /\ \A j \in Index : n[t0][j] = IF j = p0 % N THEN val ELSE m[t0][j]
    BY <1>1, <1>3, <1>4 DEF MemType
<1>6. \A x \in Frame : (\A j \in Index : x # m[d][j].base) => n[x] = m[x]
    BY <1>1, <1>5 DEF t0
<1>7. ASSUME NEW p \in Page
      PROVE  paging_get(n, d, p * PageSize)
                = IF p = p0 THEN val ELSE paging_get(m, d, p * PageSize)
  <2> DEFINE t == m[d][p \div N].base
  <2>1. p \div N \in Index /\ p % N \in Index /\ p = N * (p \div N) + (p % N)
      BY PageParts
  <2>2. /\ paging_get_indexes(p * PageSize).directory = p \div N
        /\ paging_get_indexes(p * PageSize).table = p % N
      BY PageIndexes
  <2>3. paging_get(m, d, p * PageSize) = m[t][p % N]
      BY <2>2 DEF paging_get
  <2>4. paging_get(n, d, p * PageSize) = n[n[d][p \div N].base][p % N]
      BY <2>2 DEF paging_get
  <2>5. n[d] = m[d]
      BY <1>4, <1>5
  <2>6. paging_get(n, d, p * PageSize) = n[t][p % N]
      BY <2>4, <2>5
  <2>7. t \in Frame
      BY <2>1 DEF Directory
  <2>8. CASE p = p0
      BY <1>5, <2>1, <2>6, <2>8 DEF t0
  <2>9. CASE p # p0
    <3>1. p \div N # p0 \div N \/ p % N # p0 % N
        BY <1>1, <2>1, <2>9
    <3>2. CASE p \div N # p0 \div N
      <4>1. t # t0
          BY <1>1, <2>1, <3>2 DEF Directory, t0
      <4> QED  BY <1>5, <2>3, <2>6, <2>7, <2>9, <4>1
    <3>3. CASE p \div N = p0 \div N /\ p % N # p0 % N
      <4>1. t = t0
          BY <3>3 DEF t0
      <4> HIDE DEF t
      <4> QED  BY <1>5, <2>1, <2>3, <2>6, <2>9, <3>3, <4>1
    <3> QED  BY <3>1, <3>2, <3>3
  <2> QED  BY <2>8, <2>9
<1> QED  BY <1>5, <1>6, <1>7 DEF n

\* n is m with i pages mapped, the first one v, to the frames behind f.
Mapped(m, n, d, v, f, i, flags) ==
    /\ n \in MemType
    /\ \A x \in Frame : (\A j \in Index : x # m[d][j].base) => n[x] = m[x]
    /\ \A p \in Page : paging_get(n, d, p * PageSize)
            = IF (p - v) % (N * N) < i THEN Entry((f + ((p - v) % (N * N))) * PageSize, flags)
              ELSE paging_get(m, d, p * PageSize)

\* One turn of the loop of paging_map_range.
MapOne(n, d, v, f, i, flags) ==
    paging_set(n, d, (v * PageSize + i * PageSize) % Space,
               Entry((f * PageSize + i * PageSize) % Space, flags))

LEMMA MapOneMore ==
    ASSUME NEW m \in MemType, NEW n, NEW d, Directory(m, d),
           NEW v \in Page, NEW f \in Page, NEW i \in Nat, f + i < N * N,
           NEW flags \in FlagSets, Mapped(m, n, d, v, f, i, flags)
    PROVE  Mapped(m, MapOne(n, d, v, f, i, flags), d, v, f, i + 1, flags)
<1> DEFINE M == N * N
           p0 == (v + i) % M
           val == Entry((f + i) * PageSize, flags)
           k == MapOne(n, d, v, f, i, flags)
<1>1. M \in Nat \ {0} /\ Page = 0 .. M - 1 /\ PageSize \in Nat \ {0} /\ f + i < M
    BY Sizes
<1>2. (v * PageSize + i * PageSize) % Space = p0 * PageSize /\ p0 \in Page
    BY WrapPage
<1>3. (f * PageSize + i * PageSize) % Space = ((f + i) % M) * PageSize
    BY WrapPage
<1> HIDE DEF M
<1>4. f + i \in Nat /\ (f + i) % M = f + i
    BY <1>1
<1>5. val \in Word
  <2>1. (f + i) * PageSize \in Nat
      BY <1>1, <1>4
  <2> QED  BY <2>1 DEF Entry, Word
<1>6. k = paging_set(n, d, p0 * PageSize, val)
    BY <1>2, <1>3, <1>4 DEF MapOne
<1> HIDE DEF p0, val, k
<1>7. /\ n \in MemType
      /\ \A x \in Frame : (\A j \in Index : x # m[d][j].base) => n[x] = m[x]
    BY DEF Mapped
<1>8. n[d] = m[d]
    BY <1>7 DEF Directory
<1>9. Directory(n, d)
    BY <1>8 DEF Directory
<1>10. /\ k \in MemType
       /\ \A x \in Frame : (\A j \in Index : x # n[d][j].base) => k[x] = n[x]
       /\ \A p \in Page : paging_get(k, d, p * PageSize)
                = IF p = p0 THEN val ELSE paging_get(n, d, p * PageSize)
    BY <1>2, <1>5, <1>6, <1>7, <1>9, SetPage
<1>11. \A x \in Frame : (\A j \in Index : x # m[d][j].base) => k[x] = m[x]
    BY <1>7, <1>8, <1>10
<1>12. ASSUME NEW p \in Page
       PROVE  paging_get(k, d, p * PageSize)
                = IF (p - v) % (N * N) < i + 1
                  THEN Entry((f + ((p - v) % (N * N))) * PageSize, flags)
                  ELSE paging_get(m, d, p * PageSize)
  <2>1. i \in 0 .. M - 1
      BY <1>1
  <2>2. (p0 = p <=> (p - v) % M = i) /\ (p - v) % M \in 0 .. M - 1
      BY <1>1, <2>1, PageBehind DEF p0
  <2>3. paging_get(n, d, p * PageSize)
                = IF (p - v) % M < i THEN Entry((f + ((p - v) % M)) * PageSize, flags)
                  ELSE paging_get(m, d, p * PageSize)
      BY DEF Mapped, M
  <2> DEFINE b == (p - v) % M
  <2>4. b \in Nat /\ (p0 = p <=> b = i)
      BY <1>1, <2>2
  <2>5. b < i + 1 <=> b < i \/ b = i
    <3> HIDE DEF b
    <3> QED  BY <2>4
  <2>6. paging_get(k, d, p * PageSize) = IF p = p0 THEN val ELSE paging_get(n, d, p * PageSize)
      BY <1>10
  <2>7. b = i => val = Entry((f + b) * PageSize, flags)
      BY DEF val
  <2>8. paging_get(k, d, p * PageSize)
                = IF b < i + 1 THEN Entry((f + b) * PageSize, flags)
                  ELSE paging_get(m, d, p * PageSize)
    <3>1. paging_get(n, d, p * PageSize)
                = IF b < i THEN Entry((f + b) * PageSize, flags)
                  ELSE paging_get(m, d, p * PageSize)
        BY <2>3
    <3> HIDE DEF b
    <3> QED  BY <2>4, <2>5, <2>6, <2>7, <3>1
  <2> QED  BY <2>8 DEF M
<1> QED  BY <1>10, <1>11, <1>12 DEF Mapped, k

\* The function that paging_map_range defines by recursion exists: a least number
\* of pages without one would be 0, or have one page fewer before it.
LEMMA LoopExists ==
    ASSUME NEW m, NEW d, NEW v, NEW f, NEW flags, NEW count \in Nat
    PROVE  \E h : h = [i \in 0 .. count |->
                    IF i = 0 THEN m ELSE MapOne(h[i - 1], d, v, f, i - 1, flags)]
<1> DEFINE Loop(h, c) == h = [i \in 0 .. c |->
                    IF i = 0 THEN m ELSE MapOne(h[i - 1], d, v, f, i - 1, flags)]
           S == {c \in Nat : ~ \E h : Loop(h, c)}
<1>1. ASSUME S # {}
      PROVE  FALSE
  <2>1. PICK c \in S : \A e \in S : c <= e
    <3>1. S \subseteq Nat
        OBVIOUS
    <3> HIDE DEF S
    <3> QED  BY <1>1, <3>1, LeastNumber
  <2>2. c \in Nat /\ ~ \E h : Loop(h, c)
      OBVIOUS
  <2>3. c # 0
    <3> DEFINE h == [i \in 0 .. 0 |-> m]
    <3>1. Loop(h, 0)
        OBVIOUS
    <3> QED  BY <2>2, <3>1
  <2>4. c - 1 \in Nat /\ c - 1 \notin S
    <3>1. c \in Nat
        BY <2>2
    <3> HIDE DEF S
    <3> QED  BY <2>1, <2>3, <3>1
  <2>5. PICK g : Loop(g, c - 1)
      BY <2>4
  <2> DEFINE h == [i \in 0 .. c |-> IF i = c THEN MapOne(g[c - 1], d, v, f, c - 1, flags) ELSE g[i]]
  <2>6. \A i \in 0 .. c - 1 : h[i] = g[i]
      BY <2>2
  <2>7. \A i \in 0 .. c : h[i] = IF i = 0 THEN m ELSE MapOne(h[i - 1], d, v, f, i - 1, flags)
    <3> SUFFICES ASSUME NEW i \in 0 .. c
                 PROVE  h[i] = IF i = 0 THEN m ELSE MapOne(h[i - 1], d, v, f, i - 1, flags)
        OBVIOUS
    <3>1. CASE i = c
      <4>1. h[i] = MapOne(g[c - 1], d, v, f, c - 1, flags)
          BY <3>1
      <4>2. h[c - 1] = g[c - 1]
          BY <2>4, <2>6
      <4> QED  BY <2>3, <3>1, <4>1, <4>2
    <3>2. CASE i # c
      <4>1. i \in 0 .. c - 1 /\ (i # 0 => i - 1 \in 0 .. c - 1)
          BY <2>2, <3>2
      <4>2. g[i] = IF i = 0 THEN m ELSE MapOne(g[i - 1], d, v, f, i - 1, flags)
          BY <2>5, <4>1
      <4> QED  BY <2>6, <4>1, <4>2
    <3> QED  BY <3>1, <3>2
  <2>8. Loop(h, c)
    <3>1. h = [i \in 0 .. c |-> h[i]]
        OBVIOUS
    <3> HIDE DEF h
    <3> QED  BY <2>7, <3>1
  <2> QED  BY <2>2, <2>8
<1>2. \E h : Loop(h, count)
    BY <1>1
<1> QED  BY <1>2

\* What the loop of paging_map_to has done when it ends.
LEMMA MapRange ==
    ASSUME NEW m \in MemType, NEW d, Directory(m, d),
           NEW v \in Page, NEW f \in Page, NEW count \in Nat, f + count <= N * N,
           NEW flags \in FlagSets
    PROVE  Mapped(m, paging_map_range(m, d, v * PageSize, f * PageSize, count, flags),
                  d, v, f, count, flags)
<1> DEFINE Loop(h) == h = [i \in 0 .. count |->
                    IF i = 0 THEN m ELSE MapOne(h[i - 1], d, v, f, i - 1, flags)]
           mapped == CHOOSE h : Loop(h)
<1>1. paging_map_range(m, d, v * PageSize, f * PageSize, count, flags) = mapped[count]
    BY DEF paging_map_range, MapOne
<1>2. Loop(mapped)
    BY LoopExists
<1> HIDE DEF mapped
<1>3. mapped[0] = m /\ \A i \in 1 .. count :
            mapped[i] = MapOne(mapped[i - 1], d, v, f, i - 1, flags)
    BY <1>2
<1>4. \A p \in Page : (p - v) % (N * N) \in Nat
  <2>1. N * N \in Nat \ {0} /\ Page = 0 .. N * N - 1
      BY Sizes
  <2> QED  BY <2>1
<1>5. Mapped(m, m, d, v, f, 0, flags)
  <2>1. \A p \in Page : ~ ((p - v) % (N * N) < 0)
      BY <1>4
  <2> QED  BY <2>1 DEF Mapped
<1> DEFINE S == {i \in 0 .. count : ~ Mapped(m, mapped[i], d, v, f, i, flags)}
<1>6. ASSUME S # {}
      PROVE  FALSE
  <2>1. PICK i \in S : \A e \in S : i <= e
    <3>1. S \subseteq Nat
        OBVIOUS
    <3> HIDE DEF S
    <3> QED  BY <1>6, <3>1, LeastNumber
  <2>2. i \in 0 .. count /\ ~ Mapped(m, mapped[i], d, v, f, i, flags)
      OBVIOUS
  <2>3. i # 0
      BY <1>3, <1>5, <2>2
  <2>4. i - 1 \in 0 .. count /\ i - 1 \notin S
      BY <2>1, <2>2, <2>3
  <2>5. Mapped(m, mapped[i - 1], d, v, f, i - 1, flags)
      BY <2>4
  <2>6. i - 1 \in Nat /\ f + (i - 1) < N * N /\ (i - 1) + 1 = i
      BY <2>2, <2>3, Sizes
  <2>7. Mapped(m, MapOne(mapped[i - 1], d, v, f, i - 1, flags), d, v, f, (i - 1) + 1, flags)
      BY <2>5, <2>6, MapOneMore
  <2> QED  BY <1>3, <2>2, <2>3, <2>6, <2>7
<1> QED  BY <1>1, <1>6

-----------------------------------------------------------------------------
(* The blocks of the heap *)

\* kzalloc(k) is the free block with k - 1 free ones below it: there is one, as
\* the blocks below a free block are counted differently for each.
LEMMA KthBlock ==
    ASSUME used \subseteq Frame, NEW k \in 1 .. Cardinality(Free)
    PROVE  /\ kzalloc(k) \in Free /\ kzalloc(k) \in Frame /\ kzalloc(k) \notin used
           /\ Cardinality({g \in Free : g < kzalloc(k)}) = k - 1
<1> DEFINE C == Cardinality(Free)
           Below(f) == {g \in Free : g < f}
           rank == [f \in Free |-> Cardinality(Below(f))]
<1>1. IsFiniteSet(Frame) /\ Frame \subseteq Nat
    BY PagingAssumption, FS_Interval DEF Frame
<1>2. IsFiniteSet(Free) /\ C \in Nat /\ Free \subseteq Frame /\ Free \cap used = {}
    BY <1>1, FS_Subset, FS_CardinalityType DEF Free
<1>3. \A f \in Free : IsFiniteSet(Below(f)) /\ Cardinality(Below(f)) \in Nat
    BY <1>2, FS_Subset, FS_CardinalityType
<1>4. ASSUME NEW f \in Free
      PROVE  Cardinality(Below(f)) \in 0 .. C - 1
  <2>1. f \notin Below(f)
      BY <1>1, <1>2
  <2>2. Cardinality(Below(f)) <= C /\ Cardinality(Below(f)) # C
    <3>1. Below(f) \in SUBSET Free /\ Below(f) # Free
        BY <2>1
    <3> HIDE DEF Below
    <3> QED  BY <1>2, <3>1, FS_Subset
  <2> QED  BY <1>2, <1>3, <2>2
<1>5. rank \in [Free -> 0 .. C - 1]
    BY <1>4
<1>6. ASSUME NEW f \in Free, NEW h \in Free, f < h
      PROVE  Cardinality(Below(f)) # Cardinality(Below(h))
  <2>1. Below(f) \in SUBSET Below(h) /\ f \in Below(h) /\ f \notin Below(f)
    <3>1. f \in Nat /\ h \in Nat /\ ~ (f < f) /\ \A g \in Free : g < f => g < h
        BY <1>1, <1>2, <1>6
    <3> QED  BY <1>6, <3>1
  <2>2. IsFiniteSet(Below(h))
      BY <1>3
  <2> HIDE DEF Below
  <2> QED  BY <2>1, <2>2, FS_Subset
<1>7. \A f, h \in Free : rank[f] = rank[h] => f = h
  <2> SUFFICES ASSUME NEW f \in Free, NEW h \in Free, rank[f] = rank[h], f # h
               PROVE  FALSE
      OBVIOUS
  <2>1. f < h \/ h < f
      BY <1>1, <1>2
  <2>2. Cardinality(Below(f)) = Cardinality(Below(h))
      OBVIOUS
  <2> HIDE DEF Below, rank
  <2> QED  BY <1>6, <2>1, <2>2
<1> HIDE DEF rank
<1>8. rank \in Injection(Free, 0 .. C - 1)
    BY <1>5, <1>7 DEF Injection, IsInjective
<1>9. IsFiniteSet(0 .. C - 1) /\ Cardinality(0 .. C - 1) = C
  <2> HIDE DEF C
  <2>1. 0 \in Int /\ C - 1 \in Int /\ C = IF 0 > C - 1 THEN 0 ELSE C - 1 - 0 + 1
      BY <1>2
  <2> QED  BY <2>1, FS_Interval
<1>10. rank \in Surjection(Free, 0 .. C - 1)
    BY <1>8, <1>9, FS_Injection
<1>11. k - 1 \in 0 .. C - 1
    BY <1>2
<1>12. \E f \in Free : rank[f] = k - 1
    BY <1>10, <1>11 DEF Surjection
<1>13. \E f \in Free : Cardinality({g \in Free : g < f}) = k - 1
    BY <1>12 DEF rank
<1>14. kzalloc(k) \in Free /\ Cardinality({g \in Free : g < kzalloc(k)}) = k - 1
    BY <1>13 DEF kzalloc
<1> QED  BY <1>2, <1>14

LEMMA KthDistinct ==
    ASSUME used \subseteq Frame, NEW j \in 1 .. Cardinality(Free), NEW k \in 1 .. Cardinality(Free),
           kzalloc(j) = kzalloc(k)
    PROVE  j = k
<1>1. j - 1 = k - 1
    BY KthBlock
<1>2. IsFiniteSet(Free)
  <2>1. IsFiniteSet(Frame)
      BY PagingAssumption, FS_Interval DEF Frame
  <2> QED  BY <2>1, FS_Subset DEF Free
<1>3. j \in Int /\ k \in Int
    BY <1>2, FS_CardinalityType
<1> QED  BY <1>1, <1>3

\* What does not touch the blocks of a directory does not change what it says.
LEMMA SameBlocks ==
    ASSUME NEW m, NEW n, NEW d, Directory(m, d), n[d] = m[d],
           \A i \in Index : n[m[d][i].base] = m[m[d][i].base]
    PROVE  /\ Directory(n, d)
           /\ \A p \in Page : paging_get(n, d, p * PageSize) = paging_get(m, d, p * PageSize)
<1>1. Directory(n, d)
    BY DEF Directory
<1>2. ASSUME NEW p \in Page
      PROVE  paging_get(n, d, p * PageSize) = paging_get(m, d, p * PageSize)
  <2>1. p \div N \in Index
      BY PageParts
  <2>2. paging_get_indexes(p * PageSize).directory = p \div N
      BY PageIndexes
  <2> QED  BY <2>1, <2>2 DEF paging_get
<1> QED  BY <1>1, <1>2

-----------------------------------------------------------------------------
(* The inductive invariant *)

MemInv ==
    /\ mem \in MemType
    /\ directory_entry \in [Chunk -> Frame]
    /\ view \in [Chunk -> [Page -> Word]]

\* The blocks of a chunk are different from each other.
OwnInv ==
    \A c \in Chunk :
        /\ c \in Frame /\ Directory(mem, directory_entry[c])
        /\ c # directory_entry[c]
        /\ \A i \in Index : mem[directory_entry[c]][i].base # c

\* The blocks handed out are those of the chunks, and each belongs to one chunk.
ShareInv ==
    /\ \A c, e \in Chunk : c # e => BlocksOf(c) \cap BlocksOf(e) = {}
    /\ used = UNION {BlocksOf(c) : c \in Chunk}

CurrentInv ==
    current_directory \in {directory_entry[c] : c \in Chunk} \cup {NULL}

ViewInv ==
    \A c \in Chunk : \A p \in Page :
        paging_get(mem, directory_entry[c], p * PageSize) = view[c][p]

Inv == MemInv /\ OwnInv /\ ShareInv /\ CurrentInv /\ ViewInv

LEMMA BlockFacts ==
    ASSUME OwnInv, ShareInv
    PROVE  /\ used \subseteq Frame
           /\ \A c \in Chunk : BlocksOf(c) \subseteq used /\ BlocksOf(c) \subseteq Frame
           /\ \A c \in Chunk : /\ c \in BlocksOf(c) /\ directory_entry[c] \in BlocksOf(c)
                               /\ TablesOf(c) \subseteq BlocksOf(c)
                               /\ \A i \in Index : mem[directory_entry[c]][i].base \in BlocksOf(c)
<1>1. \A c \in Chunk : BlocksOf(c) \subseteq Frame
    BY DEF OwnInv, Directory, BlocksOf, TablesOf
<1>2. \A c \in Chunk : BlocksOf(c) \subseteq used
    BY DEF ShareInv
<1>3. used \subseteq Frame
    BY <1>1 DEF ShareInv
<1>4. \A c \in Chunk : /\ c \in BlocksOf(c) /\ directory_entry[c] \in BlocksOf(c)
                       /\ TablesOf(c) \subseteq BlocksOf(c)
                       /\ \A i \in Index : mem[directory_entry[c]][i].base \in BlocksOf(c)
    BY DEF BlocksOf, TablesOf
<1> QED  BY <1>1, <1>2, <1>3, <1>4

LEMMA InvInit == Init => Inv
<1> SUFFICES ASSUME Init PROVE Inv
    OBVIOUS
<1>1. Chunk = {}
    BY DEF Init, Chunk
<1>2. mem \in MemType
    BY DEF Init, MemType, Zeroed, Entry, Word, FlagSets
<1>3. view = [c \in {} |-> NULL] /\ directory_entry = [c \in {} |-> NULL]
    BY DEF Init
<1>4. MemInv
    BY <1>1, <1>2, <1>3 DEF MemInv
<1> QED  BY <1>1, <1>4 DEF Init, Inv, OwnInv, ShareInv, CurrentInv, ViewInv

-----------------------------------------------------------------------------
(* The steps *)

LEMMA SwitchStep ==
    ASSUME Inv, NEW c \in Chunk, paging_switch(c)
    PROVE  Inv'
<1>1. UNCHANGED <<mem, used, directory_entry, maps, view>> /\ Chunk' = Chunk
    BY DEF paging_switch, Chunk
<1>2. \A e : BlocksOf(e)' = BlocksOf(e)
    BY <1>1 DEF BlocksOf, TablesOf
<1>3. MemInv' /\ OwnInv' /\ ViewInv'
    BY <1>1 DEF Inv, MemInv, OwnInv, ViewInv
<1>4. ShareInv'
    BY <1>1, <1>2 DEF Inv, ShareInv
<1>5. CurrentInv'
    BY <1>1 DEF paging_switch, CurrentInv
<1> QED  BY <1>3, <1>4, <1>5 DEF Inv

LEMMA FreeStep ==
    ASSUME Inv, NEW c \in Chunk, directory_entry[c] # current_directory, paging_free_4gb(c)
    PROVE  Inv'
<1>1. /\ used' = used \ BlocksOf(c) /\ mem' = mem
      /\ current_directory' = current_directory
      /\ directory_entry' = [e \in Chunk \ {c} |-> directory_entry[e]]
      /\ view' = [e \in Chunk \ {c} |-> view[e]]
    BY DEF paging_free_4gb, BlocksOf, Restrict
<1>2. Chunk' = Chunk \ {c}
    BY <1>1 DEF Chunk
<1>3. \A e \in Chunk' : directory_entry'[e] = directory_entry[e] /\ view'[e] = view[e] /\ e \in Chunk
    BY <1>1, <1>2
<1>4. \A e \in Chunk' : BlocksOf(e)' = BlocksOf(e)
    BY <1>1, <1>3 DEF BlocksOf, TablesOf
<1>5. MemInv'
    BY <1>1, <1>2 DEF Inv, MemInv
<1>6. OwnInv' /\ ViewInv'
  <2>1. mem' = mem
      BY <1>1
  <2>2. OwnInv /\ ViewInv
      BY DEF Inv
  <2>3. OwnInv'
      BY <1>3, <2>1, <2>2 DEF OwnInv
  <2>4. ViewInv'
    <3> SUFFICES ASSUME NEW e \in Chunk', NEW p \in Page
                 PROVE  paging_get(mem', directory_entry'[e], p * PageSize) = view'[e][p]
        BY DEF ViewInv
    <3>1. paging_get(mem, directory_entry[e], p * PageSize) = view[e][p]
        BY <1>3, <2>2 DEF ViewInv
    <3> QED  BY <1>3, <2>1, <3>1
  <2> QED  BY <2>3, <2>4
<1>7. ShareInv'
  <2>1. \A e, g \in Chunk' : e # g => BlocksOf(e)' \cap BlocksOf(g)' = {}
      BY <1>3, <1>4 DEF Inv, ShareInv
  <2>2. UNION {BlocksOf(e)' : e \in Chunk'} = UNION {BlocksOf(e) : e \in Chunk \ {c}}
      BY <1>2, <1>4
  <2>3. \A e \in Chunk \ {c} : BlocksOf(e) \cap BlocksOf(c) = {}
      BY DEF Inv, ShareInv
  <2>4. used = UNION {BlocksOf(e) : e \in Chunk}
      BY DEF Inv, ShareInv
  <2>5. UNION {BlocksOf(e) : e \in Chunk \ {c}} = used \ BlocksOf(c)
      BY <2>3, <2>4
  <2> QED  BY <1>1, <2>1, <2>2, <2>5 DEF ShareInv
<1>8. CurrentInv'
    BY <1>1, <1>2, <1>3 DEF Inv, CurrentInv
<1> QED  BY <1>5, <1>6, <1>7, <1>8 DEF Inv

LEMMA MapStep ==
    ASSUME Inv, NEW c \in Chunk, NEW virt \in Addrs, NEW phys \in Addrs, NEW phys_end \in Addrs,
           NEW flags \in MapFlags, paging_map_to(c, virt, phys, phys_end, flags)
    PROVE  Inv'
<1> DEFINE d == directory_entry[c]
           v == virt \div PageSize
           f == phys \div PageSize
           g == phys_end \div PageSize
           count == (phys_end - phys) \div PageSize
<1>1. UNCHANGED <<used, directory_entry, current_directory>> /\ Chunk' = Chunk
    BY DEF paging_map_to, Chunk
<1>2. CASE ~ Mappable(virt, phys, phys_end)
  <2>1. mem' = mem /\ view' = view
      BY <1>2 DEF paging_map_to
  <2>2. \A e : BlocksOf(e)' = BlocksOf(e)
      BY <1>1, <2>1 DEF BlocksOf, TablesOf
  <2>3. MemInv' /\ OwnInv' /\ ViewInv' /\ CurrentInv'
      BY <1>1, <2>1 DEF Inv, MemInv, OwnInv, ViewInv, CurrentInv
  <2>4. ShareInv'
      BY <1>1, <2>2 DEF Inv, ShareInv
  <2> QED  BY <2>3, <2>4 DEF Inv
<1>3. CASE Mappable(virt, phys, phys_end)
  <2>1. /\ mem' = paging_map_range(mem, d, virt, phys, count, flags)
        /\ view' = [view EXCEPT ![c] = MappedView(@, virt, phys, phys_end, flags)]
      BY <1>3 DEF paging_map_to
  <2>2. virt \in 0 .. Space - 1 /\ phys \in 0 .. Space - 1 /\ phys_end \in 0 .. Space - 1
      BY PagingAssumption DEF Space
  <2>3. /\ v \in Page /\ f \in Page /\ g \in Page
        /\ virt = v * PageSize /\ phys = f * PageSize /\ phys_end = g * PageSize
      BY <1>3, <2>2, AlignedIsPage DEF Mappable
  <2>4. phys <= phys_end
      BY <1>3 DEF Mappable
  <2>5. N * N \in Nat \ {0} /\ PageSize \in Nat \ {0} /\ Page = 0 .. N * N - 1
      BY Sizes
  <2>6. count = g - f
    <3> HIDE DEF f, g
    <3>1. f \in Int /\ g \in Int
        BY <2>3, <2>5
    <3>2. phys_end - phys = PageSize * (g - f) + 0 /\ 0 \in 0 .. PageSize - 1
        BY <2>3, <2>5, <3>1
    <3>3. phys_end - phys \in Int /\ g - f \in Int
        BY <2>5, <3>1, <3>2
    <3> QED  BY <2>5, <3>2, <3>3, DivMod
  <2>7. f <= g
    <3> HIDE DEF f, g
    <3> SUFFICES ASSUME g + 1 <= f PROVE FALSE
        BY <2>3, <2>5
    <3>1. f \in Int /\ g \in Int
        BY <2>3, <2>5
    <3>2. PageSize * (g + 1) <= PageSize * f
        BY <2>5, <3>1, AtLeast
    <3>3. PageSize * (g + 1) = g * PageSize + PageSize /\ PageSize * f = f * PageSize
        BY <2>5, <3>1
    <3>4. g * PageSize \in Int /\ f * PageSize \in Int
        BY <2>5, <3>1
    <3> QED  BY <2>3, <2>4, <2>5, <3>2, <3>3, <3>4
  <2> HIDE DEF d, v, f, g, count
  <2>8. count \in Nat /\ f + count <= N * N
      BY <2>3, <2>5, <2>6, <2>7
  <2>9. flags \in FlagSets
      BY DEF FlagSets
  <2>10. mem \in MemType /\ Directory(mem, d)
      BY DEF Inv, MemInv, OwnInv, d
  <2>11. Mapped(mem, mem', d, v, f, count, flags)
      BY <2>1, <2>3, <2>8, <2>9, <2>10, MapRange
  <2>12. /\ mem' \in MemType
         /\ \A x \in Frame : (\A j \in Index : x # mem[d][j].base) => mem'[x] = mem[x]
         /\ \A p \in Page : paging_get(mem', d, p * PageSize)
                = IF (p - v) % (N * N) < count THEN Entry((f + ((p - v) % (N * N))) * PageSize, flags)
                  ELSE paging_get(mem, d, p * PageSize)
      BY <2>11 DEF Mapped
  <2>13. mem'[d] = mem[d]
      BY <2>10, <2>12 DEF Directory
  <2>14. /\ \A e \in Chunk : BlocksOf(e) \subseteq Frame /\ TablesOf(e) \subseteq BlocksOf(e)
                            /\ directory_entry[e] \in BlocksOf(e)
                            /\ \A i \in Index : mem[directory_entry[e]][i].base \in BlocksOf(e)
      BY BlockFacts DEF Inv
  <2>15. ASSUME NEW e \in Chunk, e # c
         PROVE  \A x \in BlocksOf(e) : mem'[x] = mem[x]
    <3>1. BlocksOf(e) \cap BlocksOf(c) = {}
        BY <2>15 DEF Inv, ShareInv
    <3>2. \A j \in Index : mem[d][j].base \in BlocksOf(c)
        BY <2>14 DEF d
    <3> QED  BY <2>12, <2>14, <3>1, <3>2
  <2>16. ASSUME NEW e \in Chunk, e # c
         PROVE  /\ Directory(mem', directory_entry[e])
                /\ mem'[directory_entry[e]] = mem[directory_entry[e]]
                /\ \A p \in Page : paging_get(mem', directory_entry[e], p * PageSize)
                                    = paging_get(mem, directory_entry[e], p * PageSize)
    <3>1. Directory(mem, directory_entry[e])
        BY DEF Inv, OwnInv
    <3>2. mem'[directory_entry[e]] = mem[directory_entry[e]]
        BY <2>14, <2>15, <2>16
    <3>3. \A i \in Index : mem'[mem[directory_entry[e]][i].base] = mem[mem[directory_entry[e]][i].base]
        BY <2>14, <2>15, <2>16
    <3> QED  BY <3>1, <3>2, <3>3, SameBlocks
  <2>17. Directory(mem', d)
      BY <2>10, <2>13 DEF Directory
  <2>18. \A e \in Chunk : mem'[directory_entry[e]] = mem[directory_entry[e]]
      BY <2>13, <2>16 DEF d
  <2>19. \A e \in Chunk : BlocksOf(e)' = BlocksOf(e)
      BY <1>1, <2>18 DEF BlocksOf, TablesOf
  <2>20. OwnInv'
      BY <1>1, <2>16, <2>17, <2>18 DEF Inv, OwnInv, d
  <2>21. ShareInv'
      BY <1>1, <2>19 DEF Inv, ShareInv
  <2>22. CurrentInv'
      BY <1>1 DEF Inv, CurrentInv
  <2>23. view \in [Chunk -> [Page -> Word]]
      BY DEF Inv, MemInv
  <2>24. /\ \A e \in Chunk \ {c} : view'[e] = view[e]
         /\ view'[c] = MappedView(view[c], virt, phys, phys_end, flags)
         /\ view' = [e \in Chunk |-> IF e = c THEN MappedView(view[c], virt, phys, phys_end, flags)
                                     ELSE view[e]]
      BY <2>1, <2>23
  <2>25. ASSUME NEW p \in Page
         PROVE  /\ view'[c][p] = IF (p - v) % (N * N) < count
                        THEN Entry((f + ((p - v) % (N * N))) * PageSize, flags) ELSE view[c][p]
                /\ view'[c][p] \in Word
    <3> DEFINE b == (p - v) % (N * N)
    <3>1. b \in Nat
      <4> DEFINE M == N * N
      <4>1. M \in Nat \ {0} /\ p - v \in Int
          BY <2>3, <2>5
      <4> HIDE DEF M
      <4>2. (p - v) % M \in Nat
          BY <4>1
      <4> QED  BY <4>2 DEF M
    <3>2. view'[c][p] = IF b < count THEN Entry(phys + b * PageSize, flags) ELSE view[c][p]
        BY <2>24 DEF MappedView, v, count
    <3> HIDE DEF b
    <3>3. phys + b * PageSize = (f + b) * PageSize /\ (f + b) * PageSize \in Nat
      <4>1. f \in Nat
          BY <2>3, <2>5
      <4> QED  BY <2>3, <2>5, <3>1, <4>1
    <3>4. Entry((f + b) * PageSize, flags) \in Word
        BY <2>9, <3>3 DEF Entry, Word
    <3>5. view[c][p] \in Word
        BY <2>23
    <3> QED  BY <3>2, <3>3, <3>4, <3>5 DEF b
  <2>26. MemInv'
    <3>1. MappedView(view[c], virt, phys, phys_end, flags) \in [Page -> Word]
        BY <2>24, <2>25 DEF MappedView
    <3> QED  BY <1>1, <2>12, <2>23, <2>24, <3>1 DEF Inv, MemInv
  <2>27. ViewInv'
    <3> SUFFICES ASSUME NEW e \in Chunk, NEW p \in Page
                 PROVE  paging_get(mem', directory_entry[e], p * PageSize) = view'[e][p]
        BY <1>1 DEF ViewInv
    <3>1. paging_get(mem, directory_entry[e], p * PageSize) = view[e][p]
        BY DEF Inv, ViewInv
    <3>2. CASE e = c
        BY <2>12, <2>25, <3>1, <3>2 DEF d
    <3>3. CASE e # c
        BY <2>16, <2>24, <3>1, <3>3
    <3> QED  BY <3>2, <3>3
  <2> QED  BY <2>20, <2>21, <2>22, <2>26, <2>27 DEF Inv
<1> QED  BY <1>2, <1>3

\* The memory m with a directory d, its tables tb and a chunk c written into it.
NewMem(m, d, c, tb, flags) ==
    [x \in Frame |->
        IF x = d THEN [i \in Index |-> Entry(tb[i], flags \cup {PAGING_IS_WRITEABLE})]
        ELSE IF \E i \in Index : x = tb[i]
            THEN [b \in Index |->
                    LET i == CHOOSE j \in Index : x = tb[j]
                    IN  Entry((i * N + b) * PageSize, flags)]
        ELSE IF x = c THEN Zeroed ELSE m[x]]

LEMMA NewStep ==
    ASSUME Inv, NEW flags \in NewFlags, paging_new_4gb(flags)
    PROVE  Inv'
<1>1. /\ used \subseteq Frame
      /\ \A e \in Chunk : /\ BlocksOf(e) \subseteq used /\ BlocksOf(e) \subseteq Frame
                          /\ e \in BlocksOf(e) /\ directory_entry[e] \in BlocksOf(e)
                          /\ \A i \in Index : mem[directory_entry[e]][i].base \in BlocksOf(e)
    BY BlockFacts DEF Inv
\* The directory, the tables and the chunk are free blocks, all different.
<1>2. PICK d \in Frame, c \in Frame, tb \in [Index -> Frame] :
      /\ mem' = NewMem(mem, d, c, tb, flags)
      /\ used' = used \cup {d, c} \cup {tb[i] : i \in Index}
      /\ directory_entry' = [e \in Chunk \cup {c} |-> IF e = c THEN d ELSE directory_entry[e]]
      /\ view' = [e \in Chunk \cup {c} |-> IF e = c THEN IdentityView(flags) ELSE view[e]]
      /\ current_directory' = current_directory
      /\ d \notin used /\ c \notin used /\ d # c
      /\ \A i \in Index : tb[i] \notin used /\ tb[i] # d /\ tb[i] # c
      /\ \A i, j \in Index : tb[i] = tb[j] => i = j
  <2> DEFINE d == kzalloc(1)
             tb == [i \in Index |-> kzalloc(2 + i)]
             c == kzalloc(N + 2)
  <2>1. N \in Nat \ {0} /\ Index = 0 .. N - 1
      BY Sizes
  <2>2. Cardinality(Free) \in Nat /\ Cardinality(Free) >= N + 2
    <3>1. IsFiniteSet(Frame)
        BY PagingAssumption, FS_Interval DEF Frame
    <3>2. Cardinality(Free) \in Nat
        BY <1>1, <3>1, FS_Subset, FS_CardinalityType DEF Free
    <3> QED  BY <3>2 DEF paging_new_4gb
  <2>3. \A k \in 1 .. N + 2 : k \in 1 .. Cardinality(Free)
      BY <2>1, <2>2
  <2>4. \A k \in 1 .. N + 2 : kzalloc(k) \in Frame /\ kzalloc(k) \notin used
      BY <2>3, <1>1, KthBlock
  <2>5. \A j, k \in 1 .. N + 2 : kzalloc(j) = kzalloc(k) => j = k
      BY <2>3, <1>1, KthDistinct
  <2>6. 1 \in 1 .. N + 2 /\ N + 2 \in 1 .. N + 2 /\ \A i \in Index : 2 + i \in 1 .. N + 2
      BY <2>1
  <2>7. /\ d \in Frame /\ d \notin used /\ c \in Frame /\ c \notin used
        /\ \A i \in Index : tb[i] \in Frame /\ tb[i] \notin used
        /\ tb \in [Index -> Frame]
      BY <2>4, <2>6
  <2>8. d # c /\ \A i \in Index : tb[i] # d /\ tb[i] # c
    <3>1. 1 # N + 2 /\ \A i \in Index : 2 + i # 1 /\ 2 + i # N + 2
        BY <2>1
    <3> QED  BY <2>5, <2>6, <3>1
  <2>9. \A i, j \in Index : tb[i] = tb[j] => i = j
    <3> SUFFICES ASSUME NEW i \in Index, NEW j \in Index, tb[i] = tb[j]
                 PROVE  i = j
        OBVIOUS
    <3>1. 2 + i = 2 + j
        BY <2>5, <2>6
    <3> QED  BY <2>1, <3>1
  <2>10. mem' = NewMem(mem, d, c, tb, flags)
    <3>1. \A x : (CHOOSE j \in Index : x = tb[j]) = (CHOOSE j \in Index : x = kzalloc(2 + j))
        OBVIOUS
    <3> QED  BY <3>1 DEF paging_new_4gb, NewMem
  <2>11. /\ used' = used \cup {d, c} \cup {tb[i] : i \in Index}
         /\ directory_entry' = [e \in Chunk \cup {c} |-> IF e = c THEN d ELSE directory_entry[e]]
         /\ view' = [e \in Chunk \cup {c} |-> IF e = c THEN IdentityView(flags) ELSE view[e]]
         /\ current_directory' = current_directory
    <3>1. {tb[i] : i \in Index} = {kzalloc(2 + i) : i \in Index}
        OBVIOUS
    <3> QED  BY <3>1 DEF paging_new_4gb
  <2> HIDE DEF d, tb, c
  <2> QED  BY <2>7, <2>8, <2>9, <2>10, <2>11
<1> DEFINE new == {d, c} \cup {tb[i] : i \in Index}
           top == flags \cup {PAGING_IS_WRITEABLE}
<1>3. N \in Nat \ {0} /\ Index = 0 .. N - 1 /\ PageSize \in Nat \ {0}
    BY Sizes
<1>9. /\ d \in Frame /\ d \notin used /\ c \in Frame /\ c \notin used
      /\ \A i \in Index : tb[i] \in Frame /\ tb[i] \notin used
    BY <1>2
<1>10. d # c /\ \A i \in Index : tb[i] # d /\ tb[i] # c
    BY <1>2
<1>11. \A i, j \in Index : tb[i] = tb[j] => i = j
    BY <1>2
<1>12. d \in Nat /\ \A i \in Index : tb[i] \in Nat
    BY <1>9, PagingAssumption DEF Frame
<1>13. top \in FlagSets /\ flags \in FlagSets /\ {} \in FlagSets
    BY DEF FlagSets
<1> HIDE DEF top
<1>14. mem'[d] = [i \in Index |-> Entry(tb[i], top)]
    BY <1>2, <1>9 DEF NewMem, top
<1>15. ASSUME NEW i \in Index
       PROVE  mem'[tb[i]] = [b \in Index |-> Entry((i * N + b) * PageSize, flags)]
  <2>1. (CHOOSE j \in Index : tb[i] = tb[j]) = i
      BY <1>11
  <2>2. mem'[tb[i]] = [b \in Index |->
                            LET k == CHOOSE j \in Index : tb[i] = tb[j]
                            IN  Entry((k * N + b) * PageSize, flags)]
      BY <1>2, <1>9, <1>10 DEF NewMem
  <2> QED  BY <2>1, <2>2
<1>16. mem'[c] = Zeroed
    BY <1>2, <1>9, <1>10 DEF NewMem
<1>17. \A x \in Frame : x \notin new => mem'[x] = mem[x]
    BY <1>2 DEF NewMem
<1>18. \A i, b \in Index : (i * N + b) * PageSize \in Nat
    BY <1>3
<1>19. mem' \in MemType
  <2>1. [i \in Index |-> Entry(tb[i], top)] \in [Index -> Word]
      BY <1>12, <1>13 DEF Entry, Word
  <2>2. \A i \in Index : [b \in Index |-> Entry((i * N + b) * PageSize, flags)] \in [Index -> Word]
      BY <1>13, <1>18 DEF Entry, Word
  <2>3. Zeroed \in [Index -> Word]
      BY <1>13 DEF Zeroed, Entry, Word
  <2>4. ASSUME NEW x \in Frame
        PROVE  mem'[x] \in [Index -> Word]
    <3>1. mem[x] \in [Index -> Word]
        BY DEF Inv, MemInv, MemType
    <3>2. CASE x = d
        BY <1>14, <2>1, <3>2
    <3>3. CASE x \in {tb[i] : i \in Index}
        BY <1>15, <2>2, <3>3
    <3>4. CASE x = c
        BY <1>16, <2>3, <3>4
    <3>5. CASE x \notin new
        BY <1>17, <3>1, <3>5
    <3> QED  BY <3>2, <3>3, <3>4, <3>5
  <2>5. mem' = [x \in Frame |-> mem'[x]]
      BY <1>2 DEF NewMem
  <2> HIDE DEF new
  <2> QED  BY <2>4, <2>5 DEF MemType
<1>20. Directory(mem', d)
  <2>1. \A i \in Index : mem'[d][i].base = tb[i]
      BY <1>14 DEF Entry
  <2> QED  BY <1>9, <1>10, <1>11, <2>1 DEF Directory
<1>21. ASSUME NEW p \in Page
       PROVE  paging_get(mem', d, p * PageSize) = Entry(p * PageSize, flags)
  <2>1. p \div N \in Index /\ p % N \in Index /\ p = N * (p \div N) + (p % N)
      BY PageParts
  <2>2. /\ paging_get_indexes(p * PageSize).directory = p \div N
        /\ paging_get_indexes(p * PageSize).table = p % N
      BY PageIndexes
  <2>3. mem'[d][p \div N].base = tb[p \div N]
      BY <1>14, <2>1 DEF Entry
  <2>4. paging_get(mem', d, p * PageSize) = mem'[tb[p \div N]][p % N]
      BY <2>2, <2>3 DEF paging_get
  <2>5. mem'[tb[p \div N]] = [b \in Index |-> Entry(((p \div N) * N + b) * PageSize, flags)]
      BY <1>15, <2>1
  <2>6. mem'[tb[p \div N]][p % N] = Entry(((p \div N) * N + (p % N)) * PageSize, flags)
      BY <2>1, <2>5
  <2>7. (p \div N) * N + (p % N) = p
    <3> DEFINE q == p \div N
               r == p % N
    <3>1. q \in Int /\ r \in Int /\ p = N * q + r
        BY <1>3, <2>1
    <3> HIDE DEF q, r
    <3>2. q * N + r = p
        BY <1>3, <3>1
    <3> QED  BY <3>2 DEF q, r
  <2> QED  BY <2>4, <2>6, <2>7
<1>22. c \notin Chunk
    BY <1>1, <1>9
<1>23. Chunk' = Chunk \cup {c}
    BY <1>2 DEF Chunk
<1>24. /\ directory_entry'[c] = d /\ view'[c] = IdentityView(flags)
       /\ \A e \in Chunk : directory_entry'[e] = directory_entry[e] /\ view'[e] = view[e]
    BY <1>2, <1>22
<1>25. ASSUME NEW e \in Chunk
       PROVE  \A x \in BlocksOf(e) : mem'[x] = mem[x]
    BY <1>1, <1>9, <1>17
<1>26. ASSUME NEW e \in Chunk
       PROVE  /\ Directory(mem', directory_entry[e])
              /\ mem'[directory_entry[e]] = mem[directory_entry[e]]
              /\ \A p \in Page : paging_get(mem', directory_entry[e], p * PageSize)
                                  = paging_get(mem, directory_entry[e], p * PageSize)
  <2>1. Directory(mem, directory_entry[e])
      BY DEF Inv, OwnInv
  <2>2. mem'[directory_entry[e]] = mem[directory_entry[e]]
      BY <1>1, <1>25
  <2>3. \A i \in Index : mem'[mem[directory_entry[e]][i].base] = mem[mem[directory_entry[e]][i].base]
      BY <1>1, <1>25
  <2> QED  BY <2>1, <2>2, <2>3, SameBlocks
<1>27. \A e \in Chunk : BlocksOf(e)' = BlocksOf(e)
    BY <1>24, <1>26 DEF BlocksOf, TablesOf
<1>28. BlocksOf(c)' = new
  <2>1. {mem'[d][i].base : i \in Index} = {tb[i] : i \in Index}
      BY <1>14 DEF Entry
  <2> QED  BY <1>24, <2>1 DEF BlocksOf, TablesOf
<1>29. MemInv'
  <2>1. directory_entry' \in [Chunk' -> Frame]
      BY <1>2, <1>9, <1>23 DEF Inv, MemInv
  <2>2. IdentityView(flags) \in [Page -> Word]
    <3>1. \A p \in Page : p * PageSize \in Nat
        BY <1>3, Sizes
    <3> QED  BY <1>13, <3>1 DEF IdentityView, Entry, Word
  <2>3. view' \in [Chunk' -> [Page -> Word]]
      BY <1>2, <1>23, <2>2 DEF Inv, MemInv
  <2> QED  BY <1>19, <2>1, <2>3 DEF MemInv
<1>30. OwnInv'
  <2> SUFFICES ASSUME NEW e \in Chunk'
               PROVE  /\ e \in Frame /\ Directory(mem', directory_entry'[e])
                      /\ e # directory_entry'[e]
                      /\ \A i \in Index : mem'[directory_entry'[e]][i].base # e
      BY DEF OwnInv
  <2>1. CASE e = c
    <3>1. \A i \in Index : mem'[d][i].base = tb[i]
        BY <1>14 DEF Entry
    <3> QED  BY <1>9, <1>10, <1>20, <1>24, <2>1, <3>1
  <2>2. CASE e \in Chunk
    <3>1. /\ e \in Frame /\ e # directory_entry[e]
          /\ \A i \in Index : mem[directory_entry[e]][i].base # e
        BY <2>2 DEF Inv, OwnInv
    <3> QED  BY <1>24, <1>26, <2>2, <3>1
  <2> QED  BY <1>23, <2>1, <2>2
<1>31. ShareInv'
  <2>1. \A x \in new : x \notin used
      BY <1>9
  <2>2. used = UNION {BlocksOf(e) : e \in Chunk}
        /\ \A e, g \in Chunk : e # g => BlocksOf(e) \cap BlocksOf(g) = {}
      BY DEF Inv, ShareInv
  <2> HIDE DEF new
  <2>3. \A e, g \in Chunk' : e # g => BlocksOf(e)' \cap BlocksOf(g)' = {}
      BY <1>1, <1>23, <1>27, <1>28, <2>1, <2>2
  <2>4. UNION {BlocksOf(e)' : e \in Chunk'} = used \cup new
    <3>1. ASSUME NEW x \in UNION {BlocksOf(e)' : e \in Chunk'}
          PROVE  x \in used \cup new
        BY <1>1, <1>23, <1>27, <1>28
    <3>2. ASSUME NEW x \in used
          PROVE  x \in UNION {BlocksOf(e)' : e \in Chunk'}
        BY <1>23, <1>27, <2>2
    <3>3. ASSUME NEW x \in new
          PROVE  x \in UNION {BlocksOf(e)' : e \in Chunk'}
        BY <1>23, <1>28
    <3> QED  BY <3>1, <3>2, <3>3
  <2>5. used' = used \cup new
      BY <1>2 DEF new
  <2> QED  BY <2>3, <2>4, <2>5 DEF ShareInv
<1>32. CurrentInv'
    BY <1>2, <1>23, <1>24 DEF Inv, CurrentInv
<1>33. ViewInv'
  <2> SUFFICES ASSUME NEW e \in Chunk', NEW p \in Page
               PROVE  paging_get(mem', directory_entry'[e], p * PageSize) = view'[e][p]
      BY DEF ViewInv
  <2>1. CASE e = c
      BY <1>21, <1>24, <2>1 DEF IdentityView
  <2>2. CASE e \in Chunk
    <3>1. paging_get(mem, directory_entry[e], p * PageSize) = view[e][p]
        BY <2>2 DEF Inv, ViewInv
    <3> QED  BY <1>24, <1>26, <2>2, <3>1
  <2> QED  BY <1>23, <2>1, <2>2
<1> QED  BY <1>29, <1>30, <1>31, <1>32, <1>33 DEF Inv

LEMMA InvStep == Inv /\ [Next]_vars => Inv'
<1> SUFFICES ASSUME Inv, [Next]_vars PROVE Inv'
    OBVIOUS
<1>1. CASE UNCHANGED vars
  <2>1. UNCHANGED <<mem, used, directory_entry, current_directory, view, Chunk>>
      BY <1>1 DEF vars, Chunk
  <2>2. MemInv'
      BY <2>1 DEF Inv, MemInv
  <2>3. OwnInv'
      BY <2>1 DEF Inv, OwnInv
  <2>4. ShareInv'
    <3>1. \A c \in Chunk : BlocksOf(c)' = BlocksOf(c)
        BY <2>1 DEF BlocksOf, TablesOf
    <3> QED  BY <2>1, <3>1 DEF Inv, ShareInv
  <2>5. CurrentInv'
      BY <2>1 DEF Inv, CurrentInv
  <2>6. ViewInv'
      BY <2>1 DEF Inv, ViewInv
  <2> QED  BY <2>2, <2>3, <2>4, <2>5, <2>6 DEF Inv
<1>2. ASSUME NEW flags \in NewFlags, paging_new_4gb(flags) PROVE Inv'
    BY <1>2, NewStep
<1>3. ASSUME NEW c \in Chunk, paging_switch(c) PROVE Inv'
    BY <1>3, SwitchStep
<1>4. ASSUME NEW c \in Chunk, directory_entry[c] # current_directory, paging_free_4gb(c)
      PROVE  Inv'
    BY <1>4, FreeStep
<1>5. ASSUME NEW c \in Chunk, NEW virt \in Addrs, NEW phys \in Addrs, NEW phys_end \in Addrs,
             NEW flags \in MapFlags, paging_map_to(c, virt, phys, phys_end, flags)
      PROVE  Inv'
    BY <1>5, MapStep
<1> QED  BY <1>1, <1>2, <1>3, <1>4, <1>5 DEF Next

LEMMA InvHolds == Spec => []Inv
  BY InvInit, InvStep, PTL DEF Spec

-----------------------------------------------------------------------------
(* What follows for every run *)

\* paging.c:7-44.  However many directories are made and freed, the chunks, their
\* directories and tables, and the directory in cr3, are blocks in use.
THEOREM TypeCorrect == Spec => []TypeOK
<1>1. ASSUME Inv PROVE TypeOK
  <2>1. used \subseteq Frame
        /\ \A c \in Chunk : /\ BlocksOf(c) \subseteq used /\ c \in BlocksOf(c)
                            /\ directory_entry[c] \in BlocksOf(c) /\ TablesOf(c) \subseteq BlocksOf(c)
      BY <1>1, BlockFacts DEF Inv
  <2>2. DOMAIN view = Chunk
      BY <1>1 DEF Inv, MemInv
  <2>3. current_directory \in {directory_entry[c] : c \in Chunk} \cup {NULL}
      BY <1>1 DEF Inv, CurrentInv
  <2> QED  BY <2>1, <2>2, <2>3 DEF TypeOK
<1> QED  BY <1>1, InvHolds, PTL

\* paging.c:98-187.  For every table size, page size and sequence of calls, each
\* chunk translates every page and every address as the calls made on it say.
THEOREM Translation == Spec => []TranslationExact
<1>1. ASSUME Inv PROVE TranslationExact
  <2> SUFFICES ASSUME NEW c \in Chunk
               PROVE  /\ \A p \in Page : paging_get(mem, directory_entry[c], p * PageSize) = view[c][p]
                      /\ \A a \in 0 .. Space - 1 :
                            paging_get_physical_address(mem, directory_entry[c], a)
                                = view[c][a \div PageSize].base + (a % PageSize)
      BY DEF TranslationExact
  <2>1. \A p \in Page : paging_get(mem, directory_entry[c], p * PageSize) = view[c][p]
      BY <1>1 DEF Inv, ViewInv
  <2>2. ASSUME NEW a \in 0 .. Space - 1
        PROVE  paging_get_physical_address(mem, directory_entry[c], a)
                    = view[c][a \div PageSize].base + (a % PageSize)
    <3>1. /\ a \div PageSize \in Page
          /\ paging_align_to_lower_page(a) = (a \div PageSize) * PageSize
          /\ a - paging_align_to_lower_page(a) = a % PageSize
        BY AlignedIsPage
    <3>2. paging_get(mem, directory_entry[c], paging_align_to_lower_page(a))
            = view[c][a \div PageSize]
        BY <2>1, <3>1
    <3> QED  BY <3>1, <3>2 DEF paging_get_physical_address
  <2> QED  BY <2>1, <2>2
<1> QED  BY <1>1, InvHolds, PTL

\* paging.c:7-44.  No two chunks ever share a block, and the blocks in use are
\* exactly the N + 2 blocks of each live chunk: paging_free_4gb loses none.
THEOREM BlocksAreAccounted == Spec => []BlocksAccounted
<1>1. ASSUME Inv PROVE BlocksAccounted
  <2>1. ASSUME NEW c \in Chunk
        PROVE  Cardinality(BlocksOf(c)) = N + 2
    <3> DEFINE d == directory_entry[c]
               tables == [i \in Index |-> mem[d][i].base]
               T == TablesOf(c)
    <3>1. /\ d \notin T /\ c \notin T /\ c # d
          /\ \A i, j \in Index : mem[d][i].base = mem[d][j].base => i = j
        BY <1>1 DEF Inv, OwnInv, Directory, TablesOf
    <3>2. tables \in Surjection(Index, T) /\ tables \in Injection(Index, T)
        BY <3>1 DEF TablesOf, Surjection, Injection, IsInjective
    <3>3. IsFiniteSet(Index) /\ Cardinality(Index) = N
        BY Sizes, FS_Interval
    <3> HIDE DEF tables, T, d
    <3>4. IsFiniteSet(T) /\ Cardinality(T) = N
        BY <3>2, <3>3, FS_Surjection
    <3>5. IsFiniteSet(T \cup {d}) /\ Cardinality(T \cup {d}) = N + 1
        BY <3>1, <3>4, FS_AddElement
    <3>6. c \notin T \cup {d}
        BY <3>1
    <3>7. Cardinality((T \cup {d}) \cup {c}) = (N + 1) + 1
        BY <3>5, <3>6, FS_AddElement
    <3>8. BlocksOf(c) = (T \cup {d}) \cup {c}
        BY DEF BlocksOf, T, d
    <3> QED  BY <3>7, <3>8, Sizes
  <2>2. /\ \A c, d \in Chunk : c # d => BlocksOf(c) \cap BlocksOf(d) = {}
        /\ used = UNION {BlocksOf(c) : c \in Chunk}
      BY <1>1 DEF Inv, ShareInv
  <2> QED  BY <2>1, <2>2 DEF BlocksAccounted
<1> QED  BY <1>1, InvHolds, PTL
=============================================================================
