--------------------------- MODULE FatReadProofs ---------------------------
(***************************************************************************)
(* What fread delivers, for every size of sector and cluster, every disk   *)
(* whose bytes have positions that an int holds, every chain of clusters   *)
(* and every sequence of reads and seeks.                                  *)
(***************************************************************************)
EXTENDS FatRead, FiniteSetTheorems, WellFoundedInduction, TLAPS

-----------------------------------------------------------------------------
(* Division *)

\* Quotient and remainder.
LEMMA DivMod ==
    ASSUME NEW x \in Nat, NEW d \in Nat \ {0}
    PROVE  /\ x \div d \in Nat /\ x % d \in 0 .. d - 1
           /\ x = d * (x \div d) + (x % d)
  OBVIOUS

\* They are the only numbers of their kind.
LEMMA DivModIs ==
    ASSUME NEW d \in Nat \ {0}, NEW q \in Nat, NEW r \in 0 .. d - 1
    PROVE  (d * q + r) \div d = q /\ (d * q + r) % d = r
<1> DEFINE x == d * q + r
<1>1. x \in Nat
    OBVIOUS
<1>2. x = d * q + r
    OBVIOUS
<1> HIDE DEF x
<1> DEFINE p == x \div d
           s == x % d
<1>3. p \in Nat /\ s \in 0 .. d - 1 /\ x = d * p + s
    BY <1>1, DivMod
<1> HIDE DEF p, s
<1>4. ASSUME p > q PROVE FALSE
  <2>1. d * p >= d * (q + 1)
      BY <1>3, <1>4
  <2> QED  BY <1>2, <1>3, <2>1
<1>5. ASSUME p < q PROVE FALSE
  <2>1. d * q >= d * (p + 1)
      BY <1>3, <1>5
  <2> QED  BY <1>2, <1>3, <2>1
<1>6. p = q
    BY <1>3, <1>4, <1>5
<1>7. s = r
    BY <1>2, <1>3, <1>6
<1> QED  BY <1>6, <1>7 DEF p, s, x

\* k times the divisor more.
LEMMA DivModShift ==
    ASSUME NEW x \in Nat, NEW d \in Nat \ {0}, NEW k \in Nat
    PROVE  /\ (x + k * d) \div d = (x \div d) + k
           /\ (x + k * d) % d = x % d
<1> DEFINE q == x \div d
           r == x % d
<1>1. q \in Nat /\ r \in 0 .. d - 1 /\ x = d * q + r
    BY DivMod
<1> HIDE DEF q, r
<1>2. x + k * d = d * (q + k) + r
    BY <1>1
<1>3. q + k \in Nat
    BY <1>1
<1>4. (d * (q + k) + r) \div d = q + k /\ (d * (q + k) + r) % d = r
    BY <1>1, <1>3, DivModIs
<1> QED  BY <1>2, <1>4 DEF q, r

\* The quotient of a multiple.
LEMMA MulDiv ==
    ASSUME NEW d \in Nat \ {0}, NEW k \in Nat
    PROVE  (k * d) \div d = k /\ (k * d) % d = 0
<1>1. k * d = d * k + 0 /\ 0 \in 0 .. d - 1
    OBVIOUS
<1> QED  BY <1>1, DivModIs

\* A product is at least as large as its factor's bound allows.
LEMMA DivBelow ==
    ASSUME NEW x \in Nat, NEW d \in Nat \ {0}, NEW k \in Nat, x < d * k
    PROVE  x \div d < k
<1> DEFINE q == x \div d
           r == x % d
<1>1. q \in Nat /\ r \in 0 .. d - 1 /\ x = d * q + r
    BY DivMod
<1> HIDE DEF q, r
<1>2. ASSUME q >= k PROVE FALSE
  <2>1. d * q >= d * k
      BY <1>1, <1>2
  <2> QED  BY <1>1, <2>1
<1> QED  BY <1>1, <1>2 DEF q

\* A later byte is not in an earlier cluster.
LEMMA DivMonotone ==
    ASSUME NEW x \in Nat, NEW y \in Nat, NEW d \in Nat \ {0}, x <= y
    PROVE  x \div d <= y \div d
<1> DEFINE q == y \div d
           r == y % d
<1>1. q \in Nat /\ r \in 0 .. d - 1 /\ y = d * q + r
    BY DivMod
<1> HIDE DEF q, r
<1>2. x < d * (q + 1)
    BY <1>1
<1>3. x \div d < q + 1
    BY <1>1, <1>2, DivBelow
<1> QED  BY <1>1, <1>3, DivMod DEF q

-----------------------------------------------------------------------------
(* Recursion *)

\* Induction up to n, on a set instead of a predicate.
LEMMA UpTo ==
    ASSUME NEW n \in Nat, NEW P, 0 \in P, \A i \in 1 .. n : i - 1 \in P => i \in P
    PROVE  0 .. n \subseteq P
<1> DEFINE R == OpToRel(<, Nat)
           S == {i \in 0 .. n : i \notin P}
<1>1. IsWellFoundedOn(R, Nat)
    BY NatLessThanWellFounded
<1>2. ASSUME S # {}
      PROVE  FALSE
  <2>1. S \subseteq Nat
      OBVIOUS
  <2>2. PICK x \in S : \A y \in S : ~ (<<y, x>> \in R)
    <3> HIDE DEF R, S
    <3> QED  BY <1>1, <1>2, <2>1, WFMin
  <2>3. x \in 1 .. n /\ x - 1 \in 0 .. n /\ x - 1 < x
      OBVIOUS
  <2>4. <<x - 1, x>> \in R
      BY <2>3 DEF OpToRel
  <2>5. x - 1 \in P
      BY <2>2, <2>3, <2>4
  <2> QED  BY <2>3, <2>5
<1> QED  BY <1>2

\* A least element, as the first failure and the length of the chain are.
LEMMA MinIs ==
    ASSUME NEW S, S \subseteq Nat, S # {}
    PROVE  Min(S) \in S /\ \A y \in S : Min(S) <= y
<1> DEFINE R == OpToRel(<, Nat)
<1>1. IsWellFoundedOn(R, Nat)
    BY NatLessThanWellFounded
<1>2. PICK x \in S : \A y \in S : ~ (<<y, x>> \in R)
  <2> HIDE DEF R
  <2> QED  BY <1>1, WFMin
<1>3. ASSUME NEW y \in S, y < x
      PROVE  FALSE
  <2>1. <<y, x>> \in R
      BY <1>3 DEF OpToRel
  <2> QED  BY <1>2, <2>1
<1>4. \A y \in S : x <= y
    BY <1>3
<1> QED  BY <1>4 DEF Min

\* A function on the integers, and what it makes of x when it is applied up to n
\* times.
Maps == [Int -> Int]
Applied(h, n, x, g) ==
    /\ h \in [0 .. n -> Int] /\ h[0] = x
    /\ \A i \in 1 .. n : h[i] = g[h[i - 1]]

\* The function that Times defines exists...
LEMMA AppliedExists ==
    ASSUME NEW x \in Int, NEW g, g \in Maps, NEW n \in Nat
    PROVE  \E h : Applied(h, n, x, g)
<1>0. \A y \in Int : g[y] \in Int
    BY DEF Maps
<1> DEFINE P == {k \in 0 .. n : \E h : Applied(h, k, x, g)}
<1>1. 0 \in P
  <2> DEFINE h == [i \in 0 .. 0 |-> x]
  <2>1. Applied(h, 0, x, g)
      BY DEF Applied
  <2> QED  BY <2>1
<1>2. ASSUME NEW k \in 1 .. n, k - 1 \in P
      PROVE  k \in P
  <2>1. PICK f : Applied(f, k - 1, x, g)
      BY <1>2
  <2> DEFINE h == [i \in 0 .. k |-> IF i = k THEN g[f[k - 1]] ELSE f[i]]
  <2>2. f \in [0 .. k - 1 -> Int] /\ f[0] = x /\ f[k - 1] \in Int
      BY <2>1 DEF Applied
  <2>3. g[f[k - 1]] \in Int
      BY <1>0, <2>2
  <2>4. h \in [0 .. k -> Int] /\ h[0] = x
      BY <2>2, <2>3
  <2>5. ASSUME NEW i \in 1 .. k
        PROVE  h[i] = g[h[i - 1]]
    <3>1. h[i - 1] = f[i - 1]
        OBVIOUS
    <3>2. CASE i = k
        BY <3>1, <3>2
    <3>3. CASE i # k
      <4>1. f[i] = g[f[i - 1]]
          BY <2>1, <3>3 DEF Applied
      <4> QED  BY <3>1, <3>3, <4>1
    <3> QED  BY <3>2, <3>3
  <2> HIDE DEF h
  <2>6. Applied(h, k, x, g)
      BY <2>4, <2>5 DEF Applied
  <2> QED  BY <2>6
<1>3. \A i \in 1 .. n : i - 1 \in P => i \in P
    BY <1>2
<1> HIDE DEF P
<1>4. 0 .. n \subseteq P
    BY <1>1, <1>3, UpTo
<1>5. n \in P
    BY <1>4
<1> QED  BY <1>5 DEF P

\* ...and agrees with a longer or shorter one...
LEMMA AppliedOnce ==
    ASSUME NEW x, NEW g, NEW n \in Nat, NEW m \in Nat,
           NEW h, NEW f, Applied(h, n, x, g), Applied(f, m, x, g),
           NEW i \in Nat, i <= n, i <= m
    PROVE  h[i] = f[i]
<1> DEFINE P == {j \in 0 .. i : h[j] = f[j]}
<1>1. 0 \in P
    BY DEF Applied
<1>2. ASSUME NEW j \in 1 .. i, j - 1 \in P
      PROVE  j \in P
  <2>1. h[j] = g[h[j - 1]] /\ f[j] = g[f[j - 1]]
      BY DEF Applied
  <2>2. h[j - 1] = f[j - 1]
      BY <1>2
  <2> QED  BY <2>1, <2>2
<1> HIDE DEF P
<1>3. 0 .. i \subseteq P
    BY <1>1, <1>2, UpTo
<1> QED  BY <1>3 DEF P

\* g applied n times.
Times(x, g, n) == (CHOOSE h : Applied(h, n, x, g))[n]

\* ...so that any function of its kind computes it.
LEMMA TimesIs ==
    ASSUME NEW x \in Int, NEW g, g \in Maps, NEW n \in Nat, NEW h, Applied(h, n, x, g)
    PROVE  Times(x, g, n) = h[n]
<1>1. Applied(CHOOSE k : Applied(k, n, x, g), n, x, g)
    BY AppliedExists
<1>2. n \in Nat /\ n <= n
    OBVIOUS
<1> QED  BY <1>1, <1>2, AppliedOnce DEF Times

\* Applying n times is applying once after n - 1 times.
LEMMA TimesStep ==
    ASSUME NEW x \in Int, NEW g, g \in Maps
    PROVE  /\ Times(x, g, 0) = x
           /\ \A n \in Nat : Times(x, g, n) \in Int
           /\ \A n \in Nat \ {0} : Times(x, g, n) = g[Times(x, g, n - 1)]
<1>1. ASSUME NEW n \in Nat
      PROVE  /\ Times(x, g, n) \in Int
             /\ n = 0 => Times(x, g, n) = x
             /\ n # 0 => Times(x, g, n) = g[Times(x, g, n - 1)]
  <2>1. PICK h : Applied(h, n, x, g)
      BY AppliedExists
  <2>2. Times(x, g, n) = h[n]
      BY <2>1, TimesIs
  <2>3. h[n] \in Int /\ (n = 0 => h[n] = x)
      BY <2>1 DEF Applied
  <2>4. ASSUME n # 0
        PROVE  h[n] = g[Times(x, g, n - 1)]
    <3>1. n - 1 \in Nat /\ n - 1 <= n /\ n - 1 <= n - 1
        BY <2>4
    <3>2. PICK f : Applied(f, n - 1, x, g)
        BY <3>1, AppliedExists
    <3>3. Times(x, g, n - 1) = f[n - 1]
        BY <3>1, <3>2, TimesIs
    <3>4. h[n - 1] = f[n - 1]
        BY <2>1, <3>1, <3>2, AppliedOnce
    <3>5. h[n] = g[h[n - 1]]
        BY <2>1, <2>4 DEF Applied
    <3> QED  BY <3>3, <3>4, <3>5
  <2> QED  BY <2>2, <2>3, <2>4
<1> QED  BY <1>1

\* What any recursion of this kind reaches.
LEMMA TimesReached ==
    ASSUME NEW x \in Int, NEW g, g \in Maps, NEW n \in Nat,
           NEW f, f[0] = x, \A i \in 1 .. n : f[i - 1] \in Int => f[i] = g[f[i - 1]]
    PROVE  f[n] = Times(x, g, n)
<1>1. PICK h : Applied(h, n, x, g)
    BY AppliedExists
<1>2. h[0] = x /\ (\A i \in 0 .. n : h[i] \in Int) /\ \A i \in 1 .. n : h[i] = g[h[i - 1]]
    BY <1>1 DEF Applied
<1> DEFINE P == {i \in 0 .. n : f[i] = h[i]}
<1>3. 0 \in P
    BY <1>2
<1>4. \A i \in 1 .. n : i - 1 \in P => i \in P
    BY <1>2
<1> HIDE DEF P
<1>5. 0 .. n \subseteq P
    BY <1>3, <1>4, UpTo
<1>6. f[n] = h[n]
    BY <1>5 DEF P
<1> QED  BY <1>1, <1>6, TimesIs

-----------------------------------------------------------------------------
(* The chain and the walk *)

CS == ClusterSize

\* The numbers of the volume.
LEMMA Geometry ==
    /\ SectorSize \in Nat \ {0} /\ SectorsPerCluster \in Nat \ {0}
    /\ CS \in Nat \ {0} /\ CS = SectorsPerCluster * SectorSize
    /\ DataSector \in Nat /\ Sectors \in Nat
  BY FatAssumption DEF CS, ClusterSize

\* The entries of the table are entries.
FatType == fat \in [Cluster -> Int] /\ outside \in Int /\ first \in Int

\* The numbers of the clusters, and the marks behind them.
LEMMA Numbers ==
    /\ Cluster \subseteq Int /\ 0 \notin Cluster
    /\ \A c \in Cluster : c \in Nat /\ c >= 2 /\ c < EntryWord - 9
    /\ EntryWord \in Nat /\ EntryWord > 11
    /\ \A e \in EndMarks : e \in Nat /\ e \notin Cluster /\ e > 0
<1>1. Cluster \subseteq Int /\ \A c \in Cluster : c \in Nat /\ c >= 2 /\ c < EntryWord - 9
    BY FatAssumption
<1>2. EntryWord \in Nat /\ EntryWord > 11
  <2>1. PICK c \in Cluster : TRUE
      BY FatAssumption
  <2> QED  BY <1>1, <2>1, FatAssumption
<1>3. \A e \in EndMarks : e \in EntryWord - 9 .. EntryWord - 1
    BY FatAssumption
<1> QED  BY <1>1, <1>2, <1>3

\* Clusters are numbers.
LEMMA ClusterNumber ==
    ASSUME NEW c \in Cluster
    PROVE  c \in Nat /\ c \in Int /\ ~ (c < 0)
<1>1. c \in Nat
    BY Numbers
<1> QED  BY <1>1

\* The entry of a cluster, of the table's first word and of what is behind it.
LEMMA EntryIs ==
    ASSUME FatType
    PROVE  /\ \A c \in Cluster : fat16_get_fat_entry(c) = fat[c] /\ fat[c] \in Int
           /\ fat16_get_fat_entry(0) = EntryWord - 8
           /\ \A c \in (2 .. EntryWord - 1) \ Cluster : fat16_get_fat_entry(c) = 0
           /\ \A c \in Int : fat16_get_fat_entry(c) \in Int
<1>1. 0 \notin Cluster /\ 1 \notin Cluster /\ EntryWord \in Nat
    BY Numbers
<1>2. \A c \in Cluster : fat16_get_fat_entry(c) = fat[c] /\ fat[c] \in Int
    BY <1>1 DEF fat16_get_fat_entry, FatType
<1>3. fat16_get_fat_entry(0) = EntryWord - 8
    BY <1>1 DEF fat16_get_fat_entry
<1>4. \A c \in (2 .. EntryWord - 1) \ Cluster : fat16_get_fat_entry(c) = 0
    BY <1>1 DEF fat16_get_fat_entry
<1>5. ASSUME NEW c \in Int
      PROVE  fat16_get_fat_entry(c) \in Int
  <2>1. CASE c \in Cluster
      BY <1>2, <2>1
  <2>2. CASE c \notin Cluster
      BY <1>1, <2>2 DEF fat16_get_fat_entry, FatType
  <2> QED  BY <2>1, <2>2
<1> QED  BY <1>2, <1>3, <1>4, <1>5

\* The n-th cluster is reached by n entries.
Entries == [c \in Int |-> fat16_get_fat_entry(c)]

\* fat16_get_fat_entry as a function.
LEMMA EntriesIs ==
    ASSUME FatType
    PROVE  /\ Entries \in Maps /\ first \in Int
           /\ \A c \in Int : Entries[c] = fat16_get_fat_entry(c)
<1>1. Entries \in Maps /\ \A c \in Int : Entries[c] = fat16_get_fat_entry(c)
    BY EntryIs DEF Maps, Entries
<1>2. first \in Int
    BY DEF FatType
<1> QED  BY <1>1, <1>2

\* The chain is the entries followed from the first cluster.
LEMMA ClusterAtIs ==
    FatType => \A n \in Nat : ClusterAt(n) = Times(first, Entries, n)
<1> SUFFICES ASSUME FatType
             PROVE  \A n \in Nat : ClusterAt(n) = Times(first, Entries, n)
    OBVIOUS
<1> DEFINE g == Entries
<1>1. g \in Maps /\ \A c \in Int : g[c] = fat16_get_fat_entry(c)
    BY EntriesIs
<1> HIDE DEF g
<1>2. first \in Int
    BY DEF FatType
<1>3. ASSUME NEW n \in Nat
      PROVE  ClusterAt(n) = Times(first, g, n)
  <2> DEFINE body(h, i) == IF i = 0 THEN first ELSE fat16_get_fat_entry(h[i - 1])
             at == CHOOSE h : h = [i \in 0 .. n |-> body(h, i)]
  <2>1. PICK h : Applied(h, n, first, g)
      BY <1>1, <1>2, AppliedExists
  <2>2. \A i \in 0 .. n : h[i] \in Int
      BY <2>1 DEF Applied
  <2>3. ASSUME NEW i \in 0 .. n
        PROVE  h[i] = body(h, i)
    <3>1. CASE i = 0
        BY <2>1, <3>1 DEF Applied
    <3>2. CASE i # 0
      <4>1. h[i] = g[h[i - 1]]
          BY <2>1, <3>2 DEF Applied
      <4>2. h[i - 1] \in Int
          BY <2>2, <3>2
      <4> QED  BY <1>1, <3>2, <4>1, <4>2
    <3> QED  BY <3>1, <3>2
  <2>4. h = [i \in 0 .. n |-> h[i]]
      BY <2>1 DEF Applied
  <2>5. h = [i \in 0 .. n |-> body(h, i)]
    <3> HIDE DEF body
    <3> QED  BY <2>3, <2>4
  <2>6. at = [i \in 0 .. n |-> body(at, i)]
    <3> HIDE DEF body
    <3> QED  BY <2>5
  <2>7. ClusterAt(n) = at[n]
      BY DEF ClusterAt
  <2> HIDE DEF at
  <2>8. \A i \in 0 .. n : at[i] = body(at, i)
    <3> HIDE DEF body
    <3> QED  BY <2>6
  <2>9. at[0] = first /\ \A i \in 1 .. n : at[i - 1] \in Int => at[i] = g[at[i - 1]]
      BY <1>1, <2>8
  <2> QED  BY <1>1, <1>2, <2>7, <2>9, TimesReached
<1> QED  BY <1>3 DEF g

\* Each is the entry of the one before.
LEMMA ClusterAtStep ==
    ASSUME FatType
    PROVE  /\ ClusterAt(0) = first
           /\ \A n \in Nat : ClusterAt(n) \in Int
           /\ \A n \in Nat \ {0} : ClusterAt(n) = fat16_get_fat_entry(ClusterAt(n - 1))
<1>1. /\ Entries \in Maps /\ first \in Int
      /\ \A c \in Int : Entries[c] = fat16_get_fat_entry(c)
    BY EntriesIs
<1>2. \A n \in Nat : ClusterAt(n) = Times(first, Entries, n)
    BY ClusterAtIs
<1>3. ClusterAt(0) = first
    BY <1>1, <1>2, TimesStep
<1>4. \A n \in Nat : ClusterAt(n) \in Int
    BY <1>1, <1>2, TimesStep
<1>5. ASSUME NEW n \in Nat \ {0}
      PROVE  ClusterAt(n) = fat16_get_fat_entry(ClusterAt(n - 1))
  <2>1. n - 1 \in Nat
      OBVIOUS
  <2>2. Times(first, Entries, n) = Entries[Times(first, Entries, n - 1)]
      BY <1>1, TimesStep
  <2> QED  BY <1>1, <1>2, <1>4, <2>1, <2>2
<1> QED  BY <1>3, <1>4, <1>5

\* One turn of the loop of fat16_get_cluster_for_offset, and n of them.
Follow == [c \in Int |->
    IF c < 0 THEN c
    ELSE IF fat16_get_fat_entry(c) \in Refused THEN -EIO ELSE fat16_get_fat_entry(c)]
Walk(starting, n) == Times(starting, Follow, n)

\* One iteration of the walk, which refuses some entries.
LEMMA FollowIs ==
    ASSUME FatType
    PROVE  /\ Follow \in Maps
           /\ \A c \in Int : Follow[c] =
                IF c < 0 THEN c
                ELSE IF fat16_get_fat_entry(c) \in Refused THEN -EIO
                ELSE fat16_get_fat_entry(c)
  BY EntryIs DEF Follow, Maps, EIO

\* The loop of fat16_get_cluster_for_offset follows as many entries as there are
\* clusters before the offset.
LEMMA WalkIs ==
    FatType => \A s \in Nat, o \in Nat :
        fat16_get_cluster_for_offset(s, o) = Walk(s, o \div CS)
<1> SUFFICES ASSUME FatType, NEW starting \in Nat, NEW offset \in Nat
             PROVE  fat16_get_cluster_for_offset(starting, offset)
                        = Walk(starting, offset \div CS)
    OBVIOUS
<1> DEFINE n == offset \div CS
<1>1. n \in Nat
    BY Geometry, DivMod
<1>2. n = offset \div ClusterSize
    BY DEF CS
<1> HIDE DEF n
<1> DEFINE body(h, i) ==
                IF i = 0 THEN starting
                ELSE IF i > 1 /\ h[i - 1] < 0 THEN h[i - 1]
                ELSE IF fat16_get_fat_entry(h[i - 1]) \in Refused THEN -EIO
                ELSE fat16_get_fat_entry(h[i - 1])
           walk == CHOOSE h : h = [i \in 0 .. n |-> body(h, i)]
<1>3. PICK h : Applied(h, n, starting, Follow)
    BY <1>1, FollowIs, AppliedExists
<1>4. \A i \in 0 .. n : h[i] \in Int
    BY <1>3 DEF Applied
<1>5. ASSUME NEW i \in 0 .. n
      PROVE  h[i] = body(h, i)
  <2>1. CASE i = 0
      BY <1>3, <2>1 DEF Applied
  <2>2. CASE i # 0
    <3>1. h[i] = Follow[h[i - 1]]
        BY <1>1, <1>3, <2>2 DEF Applied
    <3>2. h[i - 1] \in Int
        BY <1>1, <1>4, <2>2
    <3>3. i > 1 \/ (i = 1 /\ h[i - 1] = starting)
        BY <1>1, <1>3, <2>2 DEF Applied
    <3> QED  BY <2>2, <3>1, <3>2, <3>3, FollowIs
  <2> QED  BY <2>1, <2>2
<1>6. h = [i \in 0 .. n |-> h[i]]
    BY <1>3 DEF Applied
<1>7. h = [i \in 0 .. n |-> body(h, i)]
  <2> HIDE DEF body
  <2> QED  BY <1>5, <1>6
<1>8. walk = [i \in 0 .. n |-> body(walk, i)]
  <2> HIDE DEF body
  <2> QED  BY <1>7
<1>9. fat16_get_cluster_for_offset(starting, offset) = walk[n]
    BY <1>2 DEF fat16_get_cluster_for_offset
<1> HIDE DEF walk
<1>10. \A i \in 0 .. n : walk[i] = body(walk, i)
  <2> HIDE DEF body
  <2> QED  BY <1>8
<1>11. walk[0] = starting
    BY <1>1, <1>10
<1>12. ASSUME NEW i \in 1 .. n, walk[i - 1] \in Int
       PROVE  walk[i] = Follow[walk[i - 1]]
  <2>1. i > 1 \/ (i = 1 /\ walk[i - 1] = starting)
      BY <1>1, <1>11
  <2>2. walk[i] = body(walk, i)
      BY <1>1, <1>10
  <2> QED  BY <1>1, <1>12, <2>1, <2>2, FollowIs
<1> QED  BY <1>1, <1>9, <1>11, <1>12, FollowIs, TimesReached DEF Walk, n

\* The walk one cluster further.
LEMMA WalkStep ==
    ASSUME FatType, NEW starting \in Int
    PROVE  /\ Walk(starting, 0) = starting
           /\ \A n \in Nat : Walk(starting, n) \in Int
           /\ \A n \in Nat \ {0} : Walk(starting, n) = Follow[Walk(starting, n - 1)]
  BY FollowIs, TimesStep DEF Walk

\* A walk that failed goes no further.
LEMMA WalkFailed ==
    ASSUME FatType, NEW starting \in Int, NEW m \in Nat, Walk(starting, m) = -EIO,
           NEW n \in Nat, n >= m
    PROVE  Walk(starting, n) = -EIO
<1> DEFINE P == {i \in Nat : Walk(starting, m + i) = -EIO}
<1>1. 0 \in P
    OBVIOUS
<1>2. ASSUME NEW i \in 1 .. n - m, i - 1 \in P
      PROVE  i \in P
  <2>1. Walk(starting, m + (i - 1)) = -EIO /\ m + i \in Nat \ {0} /\ (m + i) - 1 = m + (i - 1)
      BY <1>2
  <2>2. Walk(starting, m + i) = Follow[-EIO]
      BY <2>1, WalkStep
  <2>3. Follow[-EIO] = -EIO
      BY FollowIs DEF EIO
  <2> QED  BY <2>2, <2>3
<1>3. \A i \in 1 .. n - m : i - 1 \in P => i \in P
    BY <1>2
<1> HIDE DEF P
<1>4. n - m \in Nat
    OBVIOUS
<1>5. 0 .. n - m \subseteq P
    BY <1>1, <1>3, <1>4, UpTo
<1>6. Walk(starting, m + (n - m)) = -EIO
    BY <1>4, <1>5 DEF P
<1> QED  BY <1>6

\* The chain of the file, and the size that ends in the last of its clusters.
L == ChainLength
Chained ==
    /\ FatType /\ first \in Cluster
    /\ L \in Nat \ {0}
    /\ \A i \in 0 .. L - 1 : ClusterAt(i) \in Cluster
    /\ ClusterAt(L) \in EndMarks
    /\ filesize \in Nat /\ filesize > (L - 1) * CS /\ filesize <= L * CS

\* Of the numbers that the walk refuses, those of clusters.
LEMMA RefusedClusters == \A c \in Cluster : c \in Refused <=> c \in Reserved
  BY Numbers DEF Refused

\* The walk for a file follows its chain as far as it goes without a reserved
\* number.
LEMMA FileWalk ==
    ASSUME Chained, NEW n \in 0 .. L - 1
    PROVE  Walk(first, n) = IF n \in Reachable THEN ClusterAt(n) ELSE -EIO
<1>0. FatType /\ L \in Nat \ {0} /\ first \in Int
    BY Numbers DEF Chained, FatType
<1> DEFINE P == {i \in 0 .. L - 1 :
                    Walk(first, i) = IF i \in Reachable THEN ClusterAt(i) ELSE -EIO}
<1>1. 0 \in P
  <2>1. 0 \in Reachable
      BY <1>0 DEF Reachable, L
  <2>2. Walk(first, 0) = first /\ ClusterAt(0) = first
      BY <1>0, WalkStep, ClusterAtStep
  <2> QED  BY <1>0, <2>1, <2>2
<1>2. ASSUME NEW i \in 1 .. n, i - 1 \in P
      PROVE  i \in P
  <2>1. Walk(first, i) = Follow[Walk(first, i - 1)]
      BY <1>0, WalkStep
  <2>2. Walk(first, i - 1) = IF i - 1 \in Reachable THEN ClusterAt(i - 1) ELSE -EIO
      BY <1>2
  <2>3. i \in 0 .. L - 1 /\ i - 1 \in 0 .. L - 1
      BY <1>0
  <2>4. i \in Reachable <=> i - 1 \in Reachable /\ ClusterAt(i) \notin Reserved
      BY <1>0, <2>3 DEF Reachable, L
  <2>5. ClusterAt(i - 1) \in Cluster /\ ClusterAt(i) \in Cluster
      BY <2>3 DEF Chained
  <2>6. ClusterAt(i) = fat16_get_fat_entry(ClusterAt(i - 1))
      BY <1>0, ClusterAtStep
  <2>7. CASE i - 1 \in Reachable
    <3>1. ClusterAt(i - 1) \in Int /\ ~ (ClusterAt(i - 1) < 0)
        BY <2>5, ClusterNumber
    <3>2. Walk(first, i) = IF ClusterAt(i) \in Refused THEN -EIO ELSE ClusterAt(i)
        BY <1>0, <2>1, <2>2, <2>6, <2>7, <3>1, FollowIs
    <3> QED  BY <2>3, <2>4, <2>5, <2>7, <3>2, RefusedClusters
  <2>8. CASE i - 1 \notin Reachable
    <3>1. Follow[-EIO] = -EIO
        BY <1>0, FollowIs DEF EIO
    <3> QED  BY <2>1, <2>2, <2>3, <2>4, <2>8, <3>1
  <2> QED  BY <2>7, <2>8
<1>3. \A i \in 1 .. n : i - 1 \in P => i \in P
    BY <1>2
<1>4. n \in Nat
    BY <1>0
<1> HIDE DEF P
<1>5. 0 .. n \subseteq P
    BY <1>1, <1>3, <1>4, UpTo
<1> QED  BY <1>4, <1>5 DEF P

\* Behind the chain the walk takes one step, onto a mark it does not know.
LEMMA EndWalk ==
    ASSUME Chained
    PROVE  /\ \/ Walk(first, L) = -EIO
              \/ /\ Walk(first, L) = ClusterAt(L)
                 /\ ClusterAt(L) \notin {EntryWord - 8, EntryWord - 1}
           /\ \A n \in Nat : n > L => Walk(first, n) = -EIO
<1>0. FatType /\ L \in Nat \ {0} /\ first \in Int
    BY Numbers DEF Chained, FatType
<1>1. Walk(first, L) = Follow[Walk(first, L - 1)]
    BY <1>0, WalkStep
<1>2. L - 1 \in 0 .. L - 1
    BY <1>0
<1>3. Walk(first, L - 1) = ClusterAt(L - 1) \/ Walk(first, L - 1) = -EIO
    BY <1>2, FileWalk
<1>4. ClusterAt(L) = fat16_get_fat_entry(ClusterAt(L - 1))
    BY <1>0, ClusterAtStep
<1>5. ClusterAt(L - 1) \in Cluster
    BY <1>2 DEF Chained
<1>6. ClusterAt(L - 1) \in Int /\ ~ (ClusterAt(L - 1) < 0)
    BY <1>5, ClusterNumber
<1>7. Follow[-EIO] = -EIO
    BY <1>0, FollowIs DEF EIO
<1>8. \/ Walk(first, L) = -EIO
      \/ Walk(first, L) = ClusterAt(L) /\ ClusterAt(L) \notin Refused
    BY <1>0, <1>1, <1>3, <1>4, <1>6, <1>7, FollowIs
<1>9. \/ Walk(first, L) = -EIO
      \/ /\ Walk(first, L) = ClusterAt(L)
         /\ ClusterAt(L) \notin {EntryWord - 8, EntryWord - 1}
    BY <1>8 DEF Refused
<1>10. Walk(first, L + 1) = -EIO
  <2>1. Walk(first, L + 1) = Follow[Walk(first, L)]
      BY <1>0, WalkStep
  <2>2. CASE Walk(first, L) = -EIO
      BY <1>7, <2>1, <2>2
  <2>3. CASE Walk(first, L) = ClusterAt(L)
    <3>1. ClusterAt(L) \in Nat /\ ClusterAt(L) \notin Cluster /\ ClusterAt(L) > 0
        BY Numbers DEF Chained
    <3>2. fat16_get_fat_entry(ClusterAt(L)) = 0
      <4>1. ClusterAt(L) \in 2 .. EntryWord - 1
        <5>1. ClusterAt(L) \in EndMarks
            BY DEF Chained
        <5>2. ClusterAt(L) \in EntryWord - 9 .. EntryWord - 1
            BY <5>1, FatAssumption
        <5> QED  BY <5>2, Numbers
      <4> QED  BY <1>0, <3>1, <4>1, EntryIs
    <3>3. 0 \in Refused
        BY DEF Refused
    <3> QED  BY <1>0, <2>1, <2>3, <3>1, <3>2, <3>3, FollowIs
  <2> QED  BY <1>8, <2>2, <2>3
<1>11. \A n \in Nat : n > L => Walk(first, n) = -EIO
    BY <1>0, <1>10, WalkFailed
<1> QED  BY <1>9, <1>11

-----------------------------------------------------------------------------
(* Reads of the disk *)

\* An int holds every position on the disk.
LEMMA SignedSmall ==
    ASSUME NEW x \in Nat, x < Sectors * SectorSize
    PROVE  Signed(x) = x
<1> DEFINE h == IntWord \div 2
<1>1. IntWord \in Nat
    BY FatAssumption
<1>2. h \in Nat /\ 2 * h <= IntWord
    BY <1>1
<1>3. Sectors * SectorSize \in Nat /\ Sectors * SectorSize <= h
    BY FatAssumption, Geometry
<1> HIDE DEF h
<1>4. x + h \in 0 .. IntWord - 1
    BY <1>1, <1>2, <1>3
<1>5. (x + h) % IntWord = x + h
  <2>1. IntWord \in Nat \ {0} /\ x + h = IntWord * 0 + (x + h)
      BY <1>1, <1>2, <1>4
  <2> QED  BY <1>4, <2>1, DivModIs
<1> QED  BY <1>2, <1>5 DEF Signed, h

\* Bytes come from where they are on the disk as long as the offset in the sector
\* and the count of bytes copied from it stay within the buffer.
LEMMA StreamRead ==
    ASSUME NEW at \in Nat, NEW total \in Nat \ {0}
    PROVE  LET rd == diskstreamer_read(at, total)
           IN  /\ (at \div SectorSize) + ((total - 1) \div SectorSize) < Sectors => rd.res = 0
               /\ \A i \in 1 .. total :
                    rd.out[i] = IF (at % SectorSize) + ((i - 1) % SectorSize) < SectorSize
                                THEN at + (i - 1) ELSE Junk
<1> DEFINE SS == SectorSize
           sec == at \div SS
           o == at % SS
           rd == diskstreamer_read(at, total)
           from(j) == at + j * SS
           offset(j) == from(j) - SectorOf(from(j)) * SS
           n == (total - 1) \div SS
<1>1. SS \in Nat \ {0} /\ Sectors \in Nat
    BY Geometry
<1>2. sec \in Nat /\ o \in 0 .. SS - 1 /\ at = SS * sec + o
    BY <1>1, DivMod
<1>3. n \in Nat
    BY <1>1, DivMod
<1>4. ASSUME NEW j \in Nat
      PROVE  SectorOf(from(j)) = sec + j /\ offset(j) = o
  <2>1. from(j) \in Nat
      BY <1>1
  <2>2. SectorOf(from(j)) = from(j) \div SS
      BY <2>1 DEF SectorOf
  <2>3. from(j) \div SS = sec + j
      BY <1>1, DivModShift
  <2>4. SectorOf(from(j)) = sec + j
      BY <2>2, <2>3
  <2> HIDE DEF sec, o
  <2>5. offset(j) = (at + j * SS) - ((sec + j) * SS)
      BY <2>4
  <2> HIDE DEF offset
  <2>6. (at + j * SS) - ((sec + j) * SS) = o
      BY <1>1, <1>2
  <2> QED  BY <2>4, <2>5, <2>6
<1>5. /\ rd.res = IF \A j \in 0 .. n : disk_read_sector(SectorOf(from(j))) = 0
                  THEN 0 ELSE Hang
      /\ \A i \in 1 .. total :
            rd.out[i] = LET j == (i - 1) \div SS
                            b == offset(j) + ((i - 1) % SS)
                        IN  IF b \in 0 .. SS - 1
                            THEN SectorOf(from(j)) * SS + b ELSE Junk
    BY DEF diskstreamer_read
<1> HIDE DEF rd, from, offset
<1>6. ASSUME sec + n < Sectors
      PROVE  rd.res = 0
  <2> HIDE DEF n, sec
  <2>1. ASSUME NEW j \in 0 .. n
        PROVE  disk_read_sector(SectorOf(from(j))) = 0
    <3>1. j \in Nat /\ sec + j \in 0 .. Sectors - 1
        BY <1>1, <1>2, <1>3, <1>6
    <3> QED  BY <1>4, <3>1 DEF disk_read_sector
  <2> QED  BY <1>5, <2>1
<1>7. ASSUME NEW i \in 1 .. total
      PROVE  rd.out[i] = IF o + ((i - 1) % SS) < SS THEN at + (i - 1) ELSE Junk
  <2> DEFINE j == (i - 1) \div SS
             t == (i - 1) % SS
  <2>0. i - 1 \in Nat
      OBVIOUS
  <2>1. j \in Nat /\ t \in 0 .. SS - 1 /\ i - 1 = SS * j + t
      BY <1>1, <2>0, DivMod
  <2>2. rd.out[i] = IF offset(j) + t \in 0 .. SS - 1
                    THEN SectorOf(from(j)) * SS + (offset(j) + t) ELSE Junk
      BY <1>5
  <2>3. rd.out[i] = IF o + t \in 0 .. SS - 1 THEN (sec + j) * SS + (o + t) ELSE Junk
    <3> HIDE DEF j, t, o, sec
    <3> QED  BY <1>4, <2>1, <2>2
  <2> HIDE DEF j, o, sec
  <2>4. (sec + j) * SS + (o + t) = at + (i - 1)
    <3> HIDE DEF t
    <3> QED  BY <1>1, <1>2, <2>1
  <2>5. o + t \in 0 .. SS - 1 <=> o + t < SS
    <3> HIDE DEF t
    <3> QED  BY <1>1, <1>2, <2>1
  <2> QED  BY <2>3, <2>4, <2>5
<1> QED  BY <1>6, <1>7 DEF rd

\* Where a cluster starts, in bytes.
Base(c) == (DataSector * SectorSize) + ((c - 2) * CS)

\* The sector a cluster starts in, as far as the disk goes.
LEMMA ClusterSectors ==
    ASSUME NEW c \in Cluster
    PROVE  /\ c \in Nat
           /\ fat16_cluster_to_sector(c) \in Nat
           /\ fat16_cluster_to_sector(c) = DataSector + ((c - 2) * SectorsPerCluster)
           /\ fat16_cluster_to_sector(c) * SectorSize = Base(c)
           /\ fat16_cluster_to_sector(c) + SectorsPerCluster <= Sectors
           /\ c # Max(Cluster) =>
                fat16_cluster_to_sector(c) + (2 * SectorsPerCluster) <= Sectors
<1> DEFINE f == fat16_cluster_to_sector(c)
           P == SectorsPerCluster
<1>1. c \in Nat
    BY Numbers
<1>2. P \in Nat \ {0} /\ DataSector \in Nat /\ Sectors \in Nat
      /\ SectorSize \in Nat \ {0} /\ CS = P * SectorSize
    BY Geometry
<1>3. f = DataSector + ((c - 2) * P)
    BY DEF fat16_cluster_to_sector
<1> HIDE DEF f, P
<1>4. \A d \in Cluster : d \in Nat /\ d >= 2 /\ DataSector + (d - 1) * P <= Sectors
    BY FatAssumption, Numbers DEF P
<1>5. f \in Nat
  <2>1. c - 2 \in Nat
      BY <1>4
  <2>2. (c - 2) * P \in Nat
      BY <1>2, <2>1
  <2> QED  BY <1>2, <1>3, <2>2
<1>6. f * SectorSize = Base(c)
  <2>1. (DataSector + ((c - 2) * P)) * SectorSize
            = (DataSector * SectorSize) + ((c - 2) * (P * SectorSize))
      BY <1>1, <1>2
  <2> QED  BY <1>2, <1>3, <2>1 DEF Base
<1>8. f + P <= Sectors
  <2>1. (c - 2) * P + P = (c - 1) * P
      BY <1>1, <1>2
  <2> QED  BY <1>1, <1>2, <1>3, <1>4, <2>1
<1>9. ASSUME c # Max(Cluster)
      PROVE  f + (2 * P) <= Sectors
  <2>1. \E d \in Cluster : d > c
    <3> SUFFICES ASSUME \A d \in Cluster : ~ (d > c) PROVE FALSE
        OBVIOUS
    <3>1. \A d \in Cluster : c >= d
        BY <1>1, <1>4
    <3>2. Max(Cluster) \in Cluster /\ \A d \in Cluster : Max(Cluster) >= d
        BY <3>1 DEF Max
    <3>3. Max(Cluster) \in Nat /\ Max(Cluster) >= c /\ c >= Max(Cluster)
        BY <1>4, <3>1, <3>2
    <3>4. c = Max(Cluster)
        BY <1>1, <3>3
    <3> QED  BY <1>9, <3>4
  <2>2. PICK d \in Cluster : d > c
      BY <2>1
  <2>3. d \in Nat /\ d - 1 >= c /\ DataSector + (d - 1) * P <= Sectors
      BY <1>1, <1>4, <2>2
  <2>4. (d - 1) * P >= c * P
      BY <1>1, <1>2, <2>3
  <2>5. (c - 2) * P + 2 * P = c * P
      BY <1>1, <1>2
  <2> QED  BY <1>1, <1>2, <1>3, <2>3, <2>4, <2>5
<1> QED  BY <1>1, <1>3, <1>5, <1>6, <1>8, <1>9 DEF f, P

\* A piece of at most a cluster, read from offset r in cluster c: it hangs only if
\* it crosses the end of the last cluster.
LEMMA PieceRead ==
    ASSUME NEW c \in Cluster, NEW r \in 0 .. CS - 1, NEW len \in 1 .. CS
    PROVE  LET rd == diskstreamer_read(
                        Signed(fat16_cluster_to_sector(c) * SectorSize + r), len)
           IN  /\ (c # Max(Cluster) \/ r + len <= CS) => rd.res = 0
               /\ \A i \in 1 .. len :
                    rd.out[i] = IF (r % SectorSize) + ((i - 1) % SectorSize) < SectorSize
                                THEN Base(c) + r + (i - 1) ELSE Junk
<1> DEFINE SS == SectorSize
           f == fat16_cluster_to_sector(c)
           P == SectorsPerCluster
           at == f * SS + r
           rd == diskstreamer_read(Signed(at), len)
           a == r \div SS
           b == (len - 1) \div SS
<1>1. /\ SS \in Nat \ {0} /\ P \in Nat \ {0} /\ CS \in Nat \ {0} /\ CS = P * SS
      /\ Sectors \in Nat
    BY Geometry
<1>2. /\ f \in Nat /\ f * SS = Base(c) /\ f + P <= Sectors
      /\ c # Max(Cluster) => f + (2 * P) <= Sectors
    BY ClusterSectors
<1> HIDE DEF f
<1>3. r \in Nat /\ len \in Nat \ {0} /\ len - 1 \in Nat
    BY <1>1
<1>4. at \in Nat /\ at < Sectors * SS
  <2>1. (f + P) * SS <= Sectors * SS
      BY <1>1, <1>2
  <2>2. (f + P) * SS = f * SS + P * SS
      BY <1>1, <1>2
  <2>3. f * SS \in Nat /\ Sectors * SS \in Nat
      BY <1>1, <1>2
  <2> QED  BY <1>1, <1>3, <2>1, <2>2, <2>3
<1>5. Signed(at) = at
  <2> HIDE DEF at
  <2> QED  BY <1>4, SignedSmall
<1>6. at \div SS = a + f /\ at % SS = r % SS
  <2>1. at = r + f * SS
      BY <1>1, <1>2, <1>3
  <2>2. (r + f * SS) \div SS = (r \div SS) + f /\ (r + f * SS) % SS = r % SS
      BY <1>1, <1>2, <1>3, DivModShift
  <2> HIDE DEF at
  <2> QED  BY <2>1, <2>2
<1>7. a \in Nat /\ b \in Nat /\ a < P /\ b < P
  <2>1. r < SS * P /\ len - 1 < SS * P
      BY <1>1, <1>3
  <2> QED  BY <1>1, <1>3, <2>1, DivMod, DivBelow
<1>8. ASSUME r + len <= CS
      PROVE  a + b < P
  <2>1. r >= SS * a /\ len - 1 >= SS * b
    <3>1. r % SS \in Nat /\ r = SS * a + (r % SS)
        BY <1>1, <1>3, DivMod
    <3>2. (len - 1) % SS \in Nat /\ len - 1 = SS * b + ((len - 1) % SS)
        BY <1>1, <1>3, DivMod
    <3> HIDE DEF a, b
    <3>3. SS * a \in Nat /\ SS * b \in Nat
        BY <1>1, <1>7
    <3> QED  BY <1>1, <1>3, <3>1, <3>2, <3>3
  <2> HIDE DEF a, b
  <2>2. SS * (a + b) < SS * P
    <3>1. SS * (a + b) = SS * a + SS * b /\ SS * a \in Nat /\ SS * b \in Nat
        BY <1>1, <1>7
    <3> QED  BY <1>1, <1>3, <1>8, <2>1, <3>1
  <2>3. ASSUME a + b >= P PROVE FALSE
    <3>1. SS * (a + b) >= SS * P
        BY <1>1, <1>7, <2>3
    <3>2. SS * (a + b) \in Nat /\ SS * P \in Nat
        BY <1>1, <1>7
    <3> QED  BY <2>2, <3>1, <3>2
  <2> QED  BY <1>1, <1>7, <2>3
<1> HIDE DEF at, a, b
<1>9. ASSUME c # Max(Cluster) \/ r + len <= CS
      PROVE  (a + f) + b < Sectors
  <2>1. CASE r + len <= CS
      BY <1>1, <1>2, <1>7, <1>8, <2>1
  <2>2. CASE c # Max(Cluster)
      BY <1>1, <1>2, <1>7, <2>2
  <2> QED  BY <1>9, <2>1, <2>2
<1>10. /\ (at \div SS) + b < Sectors => rd.res = 0
       /\ \A i \in 1 .. len :
            rd.out[i] = IF (at % SS) + ((i - 1) % SS) < SS THEN at + (i - 1) ELSE Junk
    BY <1>3, <1>4, <1>5, StreamRead DEF b
<1>11. at = Base(c) + r
    BY <1>2 DEF at
<1>12. rd = diskstreamer_read(Signed(f * SS + r), len)
    BY DEF at
<1> HIDE DEF rd
<1>13. \A i \in 1 .. len :
        rd.out[i] = IF (r % SS) + ((i - 1) % SS) < SS THEN Base(c) + r + (i - 1) ELSE Junk
    BY <1>6, <1>10, <1>11
<1>14. (c # Max(Cluster) \/ r + len <= CS) => rd.res = 0
    BY <1>6, <1>9, <1>10
<1> QED  BY <1>12, <1>13, <1>14 DEF f

-----------------------------------------------------------------------------
(* Pieces and items *)

PieceLength(total, k) == LesserOf(total - k * ClusterSize, ClusterSize)

\* The pieces of an item are whole clusters and a rest.
LEMMA PieceLengthIs ==
    ASSUME NEW total \in Nat \ {0}, NEW k \in Pieces(total)
    PROVE  /\ k \in Nat /\ k * CS < total
           /\ PieceLength(total, k) \in 1 .. CS
           /\ PieceLength(total, k) = IF total - k * CS <= CS THEN total - k * CS ELSE CS
<1> DEFINE q == (total - 1) \div CS
           r == (total - 1) % CS
<1>1. CS \in Nat \ {0} /\ total - 1 \in Nat
    BY Geometry
<1>2. q \in Nat /\ r \in 0 .. CS - 1 /\ total - 1 = CS * q + r
    BY <1>1, DivMod
<1>3. k \in 0 .. q
    BY DEF Pieces, CS
<1> HIDE DEF q, r
<1>4. k \in Nat /\ k * CS <= CS * q
    BY <1>1, <1>2, <1>3
<1>5. k * CS \in Nat /\ CS * q \in Nat
    BY <1>1, <1>2, <1>4
<1>6. k * CS < total
    BY <1>1, <1>2, <1>4, <1>5
<1>7. PieceLength(total, k) = IF total - k * CS <= CS THEN total - k * CS ELSE CS
    BY DEF PieceLength, LesserOf, CS
<1> QED  BY <1>1, <1>4, <1>5, <1>6, <1>7

\* A piece fails with the walk, or it is read from the disk.
LEMMA PieceIs ==
    ASSUME FatType, NEW starting \in Nat, NEW offset \in Nat,
           NEW total \in Nat \ {0}, NEW k \in Pieces(total)
    PROVE  LET w == Walk(starting, StartsIn(offset, k))
               piece == Piece(starting, offset, total, k)
           IN  /\ StartsIn(offset, k) \in Nat
               /\ w < 0 => piece.res = w
               /\ ~ (w < 0) =>
                    /\ piece = diskstreamer_read(
                            Signed(fat16_cluster_to_sector(w) * SectorSize + (offset % CS)),
                            PieceLength(total, k))
                    /\ piece.res \in {0, Hang}
<1> DEFINE w == Walk(starting, StartsIn(offset, k))
           piece == Piece(starting, offset, total, k)
<1>1. CS \in Nat \ {0} /\ k \in Nat
    BY Geometry, PieceLengthIs
<1>2. (offset + k * CS) \div CS = (offset \div CS) + k
    BY <1>1, DivModShift
<1>3. StartsIn(offset, k) = (offset \div CS) + k
    BY DEF StartsIn, CS
<1>4. offset + k * CS \in Nat
    BY <1>1
<1>5. StartsIn(offset, k) \in Nat
  <2>1. offset \div CS \in Nat
      BY <1>1, DivMod
  <2> QED  BY <1>1, <1>3, <2>1
<1>6. fat16_get_cluster_for_offset(starting, offset + k * CS)
        = Walk(starting, (offset + k * CS) \div CS)
    BY <1>4, WalkIs
<1>7. PieceCluster(starting, offset, k) = w
    BY <1>2, <1>3, <1>6 DEF PieceCluster, CS
<1>8. piece = IF w < 0 THEN [res |-> w, out |-> <<>>]
              ELSE diskstreamer_read(
                    Signed(fat16_cluster_to_sector(w) * SectorSize + (offset % CS)),
                    PieceLength(total, k))
    BY <1>7 DEF Piece, PieceLength, CS
<1> HIDE DEF w, piece
<1>9. \A at, n : diskstreamer_read(at, n).res \in {0, Hang}
    BY DEF diskstreamer_read
<1>10. w < 0 => piece.res = w
    BY <1>8
<1>11. ~ (w < 0) => piece.res \in {0, Hang}
    BY <1>8, <1>9
<1> QED  BY <1>5, <1>8, <1>10, <1>11 DEF w, piece

\* The first piece that is not read ends the call; else every byte is a byte of
\* its piece.
LEMMA InternalIs ==
    ASSUME NEW starting, NEW offset, NEW total \in Nat \ {0}
    PROVE  LET item == fat16_read_internal(starting, offset, total)
               piece(k) == Piece(starting, offset, total, k)
           IN  /\ \/ item.res = 0 /\ \A k \in Pieces(total) : piece(k).res = 0
                  \/ \E k \in Pieces(total) :
                        /\ piece(k).res # 0 /\ item.res = piece(k).res
                        /\ \A j \in Pieces(total) : j < k => piece(j).res = 0
               /\ item.res = 0 =>
                    \A i \in 1 .. total :
                        item.out[i] = piece((i - 1) \div CS).out[((i - 1) % CS) + 1]
<1> DEFINE item == fat16_read_internal(starting, offset, total)
           piece(k) == Piece(starting, offset, total, k)
           f == [k \in Pieces(total) |-> piece(k)]
           bad == {k \in Pieces(total) : f[k].res # 0}
<1>1. item = IF bad # {} THEN [res |-> f[Min(bad)].res, out |-> <<>>]
             ELSE [res |-> 0,
                   out |-> [i \in 1 .. total |->
                        f[(i - 1) \div CS].out[((i - 1) % CS) + 1]]]
    BY DEF fat16_read_internal, CS
<1>2. \A k \in Pieces(total) : f[k] = piece(k)
    OBVIOUS
<1>3. ASSUME NEW i \in 1 .. total
      PROVE  (i - 1) \div CS \in Pieces(total)
  <2>1. CS \in Nat \ {0} /\ i - 1 \in Nat /\ total - 1 \in Nat /\ i - 1 <= total - 1
      BY Geometry
  <2>2. (i - 1) \div CS <= (total - 1) \div CS
      BY <2>1, DivMonotone
  <2>3. (i - 1) \div CS \in Nat /\ (total - 1) \div CS \in Nat
      BY <2>1, DivMod
  <2> QED  BY <2>2, <2>3 DEF Pieces, CS
<1>4. Pieces(total) \subseteq Nat
    BY PieceLengthIs
<1> HIDE DEF item, piece, f
<1>5. CASE bad = {}
  <2>1. /\ item.res = 0
        /\ \A i \in 1 .. total : item.out[i] = f[(i - 1) \div CS].out[((i - 1) % CS) + 1]
      BY <1>1, <1>5
  <2>2. \A i \in 1 .. total :
            item.out[i] = piece((i - 1) \div CS).out[((i - 1) % CS) + 1]
      BY <1>2, <1>3, <2>1
  <2>3. \A k \in Pieces(total) : piece(k).res = 0
      BY <1>2, <1>5
  <2> QED  BY <2>1, <2>2, <2>3 DEF item, piece
<1>6. CASE bad # {}
  <2> DEFINE k == Min(bad)
  <2>1. bad \subseteq Nat
      BY <1>4
  <2>2. k \in bad /\ \A j \in bad : k <= j
    <3> HIDE DEF bad
    <3> QED  BY <1>6, <2>1, MinIs
  <2>3. item.res = f[k].res
      BY <1>1, <1>6
  <2> HIDE DEF k
  <2>4. k \in Pieces(total) /\ piece(k).res # 0 /\ item.res = piece(k).res
      BY <1>2, <2>2, <2>3
  <2>5. ASSUME NEW j \in Pieces(total), j < k
        PROVE  piece(j).res = 0
    <3>1. j \in Nat /\ k \in Nat
        BY <1>4, <2>4
    <3>2. j \notin bad
        BY <2>2, <2>5, <3>1
    <3> QED  BY <1>2, <3>2
  <2>6. item.res # 0
      BY <2>4
  <2> QED  BY <2>4, <2>5, <2>6 DEF item, piece
<1> QED  BY <1>5, <1>6

\* The piece that byte i of an item is in, and its place there.
LEMMA ByteOfPiece ==
    ASSUME NEW total \in Nat \ {0}, NEW i \in 1 .. total
    PROVE  LET k == (i - 1) \div CS
               t == ((i - 1) % CS) + 1
           IN  /\ k \in Pieces(total) /\ t \in 1 .. PieceLength(total, k)
               /\ i = k * CS + t
<1> DEFINE k == (i - 1) \div CS
           t == ((i - 1) % CS) + 1
<1>1. CS \in Nat \ {0} /\ i - 1 \in Nat /\ total - 1 \in Nat /\ i - 1 <= total - 1
    BY Geometry
<1>2. k <= (total - 1) \div CS
    BY <1>1, DivMonotone
<1>3. k \in Nat /\ (total - 1) \div CS \in Nat
    BY <1>1, DivMod
<1>4. k \in Pieces(total)
    BY <1>2, <1>3 DEF Pieces, CS
<1>5. (i - 1) % CS \in 0 .. CS - 1 /\ i - 1 = CS * k + ((i - 1) % CS)
    BY <1>1, DivMod
<1>6. t \in 1 .. CS /\ i = k * CS + t
  <2> DEFINE u == (i - 1) % CS
  <2>1. u \in 0 .. CS - 1 /\ i - 1 = CS * k + u /\ t = u + 1
      BY <1>5
  <2> HIDE DEF u, k, t
  <2>2. CS * k = k * CS /\ k * CS \in Nat
      BY <1>1, <1>3
  <2> QED  BY <1>1, <2>1, <2>2
<1>7. /\ PieceLength(total, k) = IF total - k * CS <= CS THEN total - k * CS ELSE CS
    BY <1>4, PieceLengthIs
<1> HIDE DEF k, t
<1>8. k * CS \in Nat
    BY <1>1, <1>3
<1>9. t \in 1 .. PieceLength(total, k)
    BY <1>1, <1>6, <1>7, <1>8
<1> QED  BY <1>4, <1>6, <1>9 DEF k, t

KnownMark == ClusterAt(L) \in {EntryWord - 8, EntryWord - 1}

\* A byte of a piece that starts at offset r of cluster c.
ByteAt(c, r, t) ==
    IF (r % SectorSize) + ((t - 1) % SectorSize) < SectorSize
    THEN Base(c) + r + (t - 1) ELSE Junk

\* A piece of a file, by where in the chain it starts.
LEMMA FilePiece ==
    ASSUME Chained, NEW offset \in Nat, NEW size \in Nat \ {0}, NEW k \in Pieces(size)
    PROVE  LET n == StartsIn(offset, k)
               c == ClusterAt(n)
               piece == Piece(first, offset, size, k)
           IN  /\ n \in Nat
               /\ n \in Reachable =>
                    /\ piece.res \in {0, Hang} /\ c \in Cluster
                    /\ piece.res = Hang => c = Max(Cluster) /\ Crosses(offset, size, k)
                    /\ \A t \in 1 .. PieceLength(size, k) :
                            piece.out[t] = ByteAt(c, offset % CS, t)
               /\ n \notin Reachable /\ n < L => piece.res = -EIO
               /\ n = L => piece.res = -EIO \/ (piece.res \in {0, Hang} /\ ~ KnownMark)
               /\ n > L => piece.res = -EIO
<1> DEFINE n == StartsIn(offset, k)
           c == ClusterAt(n)
           piece == Piece(first, offset, size, k)
           w == Walk(first, n)
           r == offset % CS
           len == PieceLength(size, k)
<1>0. FatType /\ L \in Nat \ {0} /\ first \in Nat
    BY Numbers DEF Chained
<1>1. CS \in Nat \ {0} /\ r \in 0 .. CS - 1 /\ len \in 1 .. CS
    BY Geometry, DivMod, PieceLengthIs
<1>2. /\ n \in Nat
      /\ w < 0 => piece.res = w
      /\ ~ (w < 0) =>
            /\ piece = diskstreamer_read(
                        Signed(fat16_cluster_to_sector(w) * SectorSize + r), len)
            /\ piece.res \in {0, Hang}
    BY <1>0, PieceIs
<1>3. Reachable \subseteq 0 .. L - 1
    BY DEF Reachable, L
<1> HIDE DEF w, piece
<1>4. w = -EIO => piece.res = -EIO
    BY <1>2 DEF EIO
<1>5. ASSUME n \in Reachable
      PROVE  /\ piece.res \in {0, Hang} /\ c \in Cluster
             /\ piece.res = Hang => c = Max(Cluster) /\ Crosses(offset, size, k)
             /\ \A t \in 1 .. len : piece.out[t] = ByteAt(c, r, t)
  <2>1. n \in 0 .. L - 1
      BY <1>3, <1>5
  <2>2. c \in Cluster
      BY <2>1 DEF Chained
  <2>3. w = c
    <3> HIDE DEF n
    <3> QED  BY <1>5, <2>1, FileWalk DEF w
  <2> HIDE DEF c
  <2>4. ~ (w < 0) /\ c \in Cluster
      BY <2>2, <2>3, ClusterNumber
  <2> DEFINE rd == diskstreamer_read(
                        Signed(fat16_cluster_to_sector(c) * SectorSize + r), len)
  <2>5. piece = rd /\ piece.res \in {0, Hang}
      BY <1>2, <2>3, <2>4
  <2> HIDE DEF r, len
  <2>6. /\ (c # Max(Cluster) \/ r + len <= CS) => rd.res = 0
        /\ \A i \in 1 .. len :
            rd.out[i] = IF (r % SectorSize) + ((i - 1) % SectorSize) < SectorSize
                        THEN Base(c) + r + (i - 1) ELSE Junk
      BY <1>1, <2>4, PieceRead
  <2> HIDE DEF rd
  <2>7. ASSUME piece.res = Hang
        PROVE  c = Max(Cluster) /\ Crosses(offset, size, k)
    <3>1. c = Max(Cluster) /\ ~ (r + len <= CS)
        BY <2>5, <2>6, <2>7 DEF Hang
    <3>2. r + len > CS
        BY <1>1, <3>1
    <3> QED  BY <3>1, <3>2 DEF Crosses, r, len, PieceLength, CS
  <2> QED  BY <2>2, <2>5, <2>6, <2>7 DEF ByteAt, c
<1>6. ASSUME n \notin Reachable, n < L
      PROVE  piece.res = -EIO
  <2>1. n \in 0 .. L - 1
      BY <1>0, <1>2, <1>6
  <2>2. w = -EIO
    <3> HIDE DEF n
    <3> QED  BY <1>6, <2>1, FileWalk DEF w
  <2> QED  BY <1>4, <2>2
<1>7. ASSUME n = L
      PROVE  piece.res = -EIO \/ (piece.res \in {0, Hang} /\ ~ KnownMark)
  <2>1. CASE w = -EIO
      BY <1>4, <2>1
  <2>2. CASE w = ClusterAt(L) /\ ~ KnownMark
    <3>1. w \in Nat
        BY <2>2, Numbers DEF Chained
    <3>2. ~ (w < 0)
        BY <3>1
    <3> QED  BY <1>2, <2>2, <3>2
  <2> QED  BY <1>7, <2>1, <2>2, EndWalk DEF w, KnownMark
<1>8. ASSUME n > L
      PROVE  piece.res = -EIO
  <2>1. w = -EIO
    <3> HIDE DEF n
    <3> QED  BY <1>2, <1>8, EndWalk DEF w
  <2> QED  BY <1>4, <2>1
<1> QED  BY <1>2, <1>5, <1>6, <1>7, <1>8 DEF piece

\* Why a piece of a file never returns.
HangsIn(offset, size, k) ==
    LET n == StartsIn(offset, k)
    IN  \/ n = L /\ ~ KnownMark
        \/ n < L /\ ClusterAt(n) = Max(Cluster) /\ Crosses(offset, size, k)

\* How an item of a file ends: read, refused or never.
LEMMA FileItem ==
    ASSUME Chained, NEW offset \in Nat, NEW size \in Nat \ {0}
    PROVE  LET item == fat16_read_internal(first, offset, size)
               In == \A k \in Pieces(size) : StartsIn(offset, k) \in Reachable
           IN  /\ item.res \in {0, -EIO, Hang}
               /\ item.res = 0 /\ KnownMark => In
               /\ In => item.res \in {0, Hang}
               /\ item.res = Hang => \E k \in Pieces(size) : HangsIn(offset, size, k)
<1> DEFINE item == fat16_read_internal(first, offset, size)
           In == \A k \in Pieces(size) : StartsIn(offset, k) \in Reachable
           piece(k) == Piece(first, offset, size, k)
<1>0. L \in Nat \ {0}
    BY DEF Chained
<1>1. \/ item.res = 0 /\ \A k \in Pieces(size) : piece(k).res = 0
      \/ \E k \in Pieces(size) :
            /\ piece(k).res # 0 /\ item.res = piece(k).res
            /\ \A j \in Pieces(size) : j < k => piece(j).res = 0
    BY InternalIs
<1>2. ASSUME NEW k \in Pieces(size)
      PROVE  /\ piece(k).res \in {0, -EIO, Hang}
             /\ piece(k).res = 0 /\ KnownMark => StartsIn(offset, k) \in Reachable
             /\ StartsIn(offset, k) \in Reachable => piece(k).res \in {0, Hang}
             /\ piece(k).res = Hang => HangsIn(offset, size, k)
  <2> DEFINE n == StartsIn(offset, k)
  <2>1. /\ n \in Nat
        /\ n \in Reachable =>
             /\ piece(k).res \in {0, Hang}
             /\ piece(k).res = Hang => ClusterAt(n) = Max(Cluster) /\ Crosses(offset, size, k)
        /\ n \notin Reachable /\ n < L => piece(k).res = -EIO
        /\ n = L => piece(k).res = -EIO \/ (piece(k).res \in {0, Hang} /\ ~ KnownMark)
        /\ n > L => piece(k).res = -EIO
      BY FilePiece
  <2>2. n \in Reachable => n < L
      BY <1>0 DEF Reachable, L
  <2>3. n < L \/ n = L \/ n > L
      BY <1>0, <2>1
  <2>4. 0 # -EIO /\ Hang # -EIO /\ Hang # 0
      BY DEF EIO, Hang
  <2> HIDE DEF piece
  <2>5. piece(k).res = Hang => HangsIn(offset, size, k)
      BY <2>1, <2>2, <2>3, <2>4 DEF HangsIn
  <2> HIDE DEF n
  <2> QED  BY <2>1, <2>2, <2>3, <2>4, <2>5 DEF n
<1> HIDE DEF item, piece
<1>3. Hang # 0
    BY DEF Hang
<1> QED  BY <1>1, <1>2, <1>3 DEF item

-----------------------------------------------------------------------------
(* The bytes of a file *)

\* Where the clusters lie on the disk.
LEMMA BaseIs ==
    /\ \A c \in Int : Base(c) \in Int /\ Base(c + 1) = Base(c) + CS
    /\ \A c, d \in Int : Base(d) = Base(c) + CS => d = c + 1
    /\ \A c \in Cluster : Base(c) \in Nat
<1> DEFINE D == DataSector * SectorSize
<1>1. CS \in Nat \ {0} /\ D \in Nat
    BY Geometry
<1>2. \A c : Base(c) = D + ((c - 2) * CS)
    BY DEF Base
<1> HIDE DEF D
<1>3. ASSUME NEW c \in Int
      PROVE  Base(c) \in Int /\ Base(c + 1) = Base(c) + CS
  <2>1. ((c + 1) - 2) * CS = (c - 2) * CS + CS /\ (c - 2) * CS \in Int
      BY <1>1
  <2> QED  BY <1>1, <1>2, <2>1
<1>4. ASSUME NEW c \in Int, NEW d \in Int, Base(d) = Base(c) + CS
      PROVE  d = c + 1
  <2>1. (d - 2) * CS = (c - 2) * CS + CS
    <3>1. (d - 2) * CS \in Int /\ (c - 2) * CS \in Int
        BY <1>1
    <3> QED  BY <1>1, <1>2, <1>4, <3>1
  <2>2. (d - c - 1) * CS = 0
      BY <1>1, <2>1
  <2>3. d - c - 1 = 0
      BY <1>1, <2>2
  <2> QED  BY <2>3
<1>5. ASSUME NEW c \in Cluster
      PROVE  Base(c) \in Nat
  <2>1. c \in Nat /\ c - 2 \in Nat
      BY Numbers
  <2>2. (c - 2) * CS \in Nat
      BY <1>1, <2>1
  <2> QED  BY <1>1, <1>2, <2>2
<1> QED  BY <1>3, <1>4, <1>5

\* The byte t of piece k of an item is in the cluster the piece starts in, or in
\* the next of the chain.
LEMMA FileByteAt ==
    ASSUME NEW offset \in Nat, NEW k \in Nat, NEW t \in 1 .. CS
    PROVE  LET n == StartsIn(offset, k)
               u == (offset % CS) + (t - 1)
           IN  FileByte((offset + (k * CS + t)) - 1) =
                IF u < CS THEN Base(ClusterAt(n)) + u ELSE Base(ClusterAt(n + 1)) + (u - CS)
<1> DEFINE q == offset \div CS
           r == offset % CS
           u == r + (t - 1)
           x == (offset + (k * CS + t)) - 1
<1>1. CS \in Nat \ {0} /\ t \in Nat \ {0} /\ t <= CS
    BY Geometry
<1>2. q \in Nat /\ r \in 0 .. CS - 1 /\ offset = CS * q + r
    BY <1>1, DivMod
<1>3. StartsIn(offset, k) = q + k
    BY DEF StartsIn, CS
<1>4. FileByte(x) = Base(ClusterAt(x \div CS)) + (x % CS)
    BY DEF FileByte, Base, CS
<1> HIDE DEF q, r, x
<1>5. x = CS * (q + k) + u /\ x = CS * (q + k + 1) + (u - CS)
    BY <1>1, <1>2 DEF x
<1>6. q + k \in Nat /\ q + k + 1 \in Nat /\ u \in Nat
    BY <1>1, <1>2
<1> HIDE DEF u
<1>7. CASE u < CS
  <2>1. u \in 0 .. CS - 1
      BY <1>1, <1>6, <1>7
  <2>2. (CS * (q + k) + u) \div CS = q + k /\ (CS * (q + k) + u) % CS = u
      BY <1>1, <1>6, <2>1, DivModIs
  <2> QED  BY <1>3, <1>4, <1>5, <1>7, <2>2 DEF x, u, r
<1>8. CASE ~ (u < CS)
  <2>1. u - CS \in 0 .. CS - 1
      BY <1>1, <1>2, <1>6, <1>8 DEF u
  <2>2. /\ (CS * (q + k + 1) + (u - CS)) \div CS = q + k + 1
        /\ (CS * (q + k + 1) + (u - CS)) % CS = u - CS
      BY <1>1, <1>6, <2>1, DivModIs
  <2> QED  BY <1>3, <1>4, <1>5, <1>8, <2>2 DEF x, u, r
<1> QED  BY <1>7, <1>8

\* The offset in the sector is the same in the file and in the cluster.
LEMMA SectorOffset ==
    ASSUME NEW offset \in Nat
    PROVE  (offset % CS) % SectorSize = offset % SectorSize
<1> DEFINE q == offset \div CS
           r == offset % CS
           P == SectorsPerCluster
<1>1. CS \in Nat \ {0} /\ SectorSize \in Nat \ {0} /\ P \in Nat \ {0} /\ CS = P * SectorSize
    BY Geometry
<1>2. q \in Nat /\ r \in 0 .. CS - 1 /\ offset = CS * q + r
    BY <1>1, DivMod
<1> HIDE DEF q, r, P
<1>3. offset = r + (P * q) * SectorSize /\ P * q \in Nat /\ r \in Nat
    BY <1>1, <1>2
<1>4. (r + (P * q) * SectorSize) % SectorSize = r % SectorSize
    BY <1>1, <1>3, DivModShift
<1> QED  BY <1>3, <1>4 DEF r

\* An item that stays in its sector, or starts with one, is read without a gap.
LEMMA InSectorsBytes ==
    ASSUME NEW offset \in Nat, NEW size \in Nat \ {0}, InSectors(offset, size),
           NEW k \in Pieces(size), NEW t \in 1 .. PieceLength(size, k), NEW c
    PROVE  ByteAt(c, offset % CS, t) = Base(c) + (offset % CS) + (t - 1)
<1> DEFINE SS == SectorSize
           o == offset % SS
           v == (t - 1) % SS
           j == (t - 1) \div SS
<1>1. SS \in Nat \ {0} /\ CS \in Nat \ {0}
    BY Geometry
<1>2. /\ k \in Nat /\ PieceLength(size, k) \in 1 .. CS
      /\ PieceLength(size, k) = IF size - k * CS <= CS THEN size - k * CS ELSE CS
    BY PieceLengthIs
<1>3. t \in Nat \ {0} /\ t - 1 \in Nat /\ t <= CS /\ t <= size
  <2>1. k * CS \in Nat
      BY <1>1, <1>2
  <2> QED  BY <1>1, <1>2, <2>1
<1>4. o \in 0 .. SS - 1
    BY <1>1, DivMod
<1>5. j \in Nat /\ v \in 0 .. SS - 1 /\ t - 1 = SS * j + v
    BY <1>1, <1>3, DivMod
<1>6. o = 0 \/ o + (IF size <= CS THEN size ELSE CS) <= SS
    BY DEF InSectors, LesserOf, CS
<1> HIDE DEF o, v, j
<1>7. o + v < SS
  <2>1. v <= t - 1
    <3>1. SS * j \in Nat
        BY <1>1, <1>5
    <3> QED  BY <1>3, <1>5, <3>1
  <2> QED  BY <1>1, <1>3, <1>4, <1>5, <1>6, <2>1
<1>8. (offset % CS) % SS = o
    BY SectorOffset DEF o
<1> QED  BY <1>7, <1>8 DEF ByteAt, v

\* A byte of the file is a byte of one of its clusters.
LEMMA FileByteNat ==
    ASSUME Chained, NEW x \in Nat, x < filesize
    PROVE  x \div CS \in 0 .. L - 1 /\ FileByte(x) \in Nat
<1>1. /\ CS \in Nat \ {0} /\ L \in Nat \ {0}
      /\ filesize \in Nat /\ filesize <= L * CS
    BY Geometry DEF Chained
<1>2. L * CS = CS * L /\ L * CS \in Nat
    BY <1>1
<1>3. x < CS * L
    BY <1>1, <1>2
<1>4. x \div CS \in Nat /\ x \div CS < L /\ x % CS \in 0 .. CS - 1
    BY <1>1, <1>3, DivMod, DivBelow
<1>5. x \div CS \in 0 .. L - 1
    BY <1>1, <1>4
<1>6. ClusterAt(x \div CS) \in Cluster
    BY <1>5 DEF Chained
<1>7. Base(ClusterAt(x \div CS)) \in Nat
    BY <1>6, BaseIs
<1>8. FileByte(x) = Base(ClusterAt(x \div CS)) + (x % CS)
    BY DEF FileByte, Base, CS
<1> QED  BY <1>1, <1>4, <1>5, <1>7, <1>8

\* The bytes of an item that was read from within the file.
LEMMA FileItemBytes ==
    ASSUME Chained, NEW offset \in Nat, NEW size \in Nat \ {0}, offset + size <= filesize,
           fat16_read_internal(first, offset, size).res = 0
    PROVE  \A k \in Pieces(size) :
                /\ StartsIn(offset, k) \in Reachable
                /\ \A t \in 1 .. PieceLength(size, k) :
                      /\ k * CS + t \in 1 .. size
                      /\ fat16_read_internal(first, offset, size).out[k * CS + t]
                            = ByteAt(ClusterAt(StartsIn(offset, k)), offset % CS, t)
<1> DEFINE item == fat16_read_internal(first, offset, size)
           piece(k) == Piece(first, offset, size, k)
<1>0. /\ CS \in Nat \ {0} /\ L \in Nat \ {0} /\ filesize \in Nat
    BY Geometry DEF Chained
<1>1. /\ \A k \in Pieces(size) : piece(k).res = 0
      /\ \A i \in 1 .. size : item.out[i] = piece((i - 1) \div CS).out[((i - 1) % CS) + 1]
    BY InternalIs
<1>2. ASSUME NEW k \in Pieces(size)
      PROVE  StartsIn(offset, k) \in Reachable
  <2>1. k \in Nat /\ k * CS < size
      BY PieceLengthIs
  <2>2. (offset + k * CS) \div CS = (offset \div CS) + k
      BY <1>0, <2>1, DivModShift
  <2>3. offset + k * CS \in Nat /\ offset + k * CS < filesize
    <3>1. k * CS \in Nat
        BY <1>0, <2>1
    <3> QED  BY <1>0, <2>1, <3>1
  <2>4. (offset + k * CS) \div CS \in 0 .. L - 1
      BY <2>3, FileByteNat
  <2>5. StartsIn(offset, k) \in 0 .. L - 1
      BY <2>2, <2>4 DEF StartsIn, CS
  <2>6. StartsIn(offset, k) < L
      BY <1>0, <2>5
  <2>7. StartsIn(offset, k) \notin Reachable => piece(k).res = -EIO
      BY <2>6, FilePiece
  <2>8. 0 # -EIO
      BY DEF EIO
  <2> HIDE DEF piece
  <2> QED  BY <1>1, <2>7, <2>8
<1>3. ASSUME NEW k \in Pieces(size), NEW t \in 1 .. PieceLength(size, k)
      PROVE  /\ k * CS + t \in 1 .. size
             /\ item.out[k * CS + t]
                    = ByteAt(ClusterAt(StartsIn(offset, k)), offset % CS, t)
  <2>0. /\ k \in Nat /\ PieceLength(size, k) \in 1 .. CS
        /\ PieceLength(size, k) = IF size - k * CS <= CS THEN size - k * CS ELSE CS
      BY PieceLengthIs
  <2>1. k * CS \in Nat /\ t \in Nat \ {0} /\ t <= CS /\ k * CS + t \in 1 .. size
    <3>1. k * CS \in Nat
        BY <1>0, <2>0
    <3> QED  BY <1>0, <2>0, <3>1
  <2>2. (k * CS + t) - 1 = CS * k + (t - 1) /\ t - 1 \in 0 .. CS - 1
      BY <1>0, <2>0, <2>1
  <2>3. (CS * k + (t - 1)) % CS = t - 1 /\ (CS * k + (t - 1)) \div CS = k
      BY <1>0, <2>0, <2>2, DivModIs
  <2>4. (((k * CS + t) - 1) % CS) + 1 = t /\ ((k * CS + t) - 1) \div CS = k
      BY <2>1, <2>2, <2>3
  <2>5. item.out[k * CS + t] = piece(k).out[t]
      BY <1>1, <2>1, <2>4
  <2>6. piece(k).out[t] = ByteAt(ClusterAt(StartsIn(offset, k)), offset % CS, t)
      BY <1>2, FilePiece
  <2> HIDE DEF item, piece
  <2> QED  BY <2>1, <2>5, <2>6
<1> QED  BY <1>2, <1>3

\* An item in the first cluster of whatever the walk starts from.
LEMMA LeftoverItem ==
    ASSUME FatType, first \in Cluster, NEW offset \in Nat, NEW size \in Nat \ {0},
           InFirstCluster(offset, size)
    PROVE  LET item == fat16_read_internal(first, offset, size)
           IN  item.res = 0 /\ ItemExact(offset, size, item.out)
<1> DEFINE item == fat16_read_internal(first, offset, size)
           piece(k) == Piece(first, offset, size, k)
           r == offset % CS
           rd == diskstreamer_read(
                    Signed(fat16_cluster_to_sector(first) * SectorSize + r), size)
<1>1. CS \in Nat \ {0} /\ first \in Nat /\ offset + size <= CS /\ InSectors(offset, size)
    BY Geometry, ClusterNumber DEF InFirstCluster, CS
<1>2. \A x \in 0 .. CS - 1 : x \div CS = 0 /\ x % CS = x
  <2>1. ASSUME NEW x \in 0 .. CS - 1
        PROVE  x \div CS = 0 /\ x % CS = x
    <3>1. x = CS * 0 + x /\ x \in Nat
        BY <1>1
    <3> QED  BY <1>1, <3>1, DivModIs
  <2> QED  BY <2>1
<1>3. /\ offset \div CS = 0 /\ r = offset
      /\ (size - 1) \div CS = 0 /\ size \in 1 .. CS /\ offset \in 0 .. CS - 1
    BY <1>1, <1>2
<1>4. Pieces(size) = {0}
    BY <1>3 DEF Pieces, CS
<1>5. StartsIn(offset, 0) = 0
    BY <1>3 DEF StartsIn, CS
<1>6. PieceLength(size, 0) = size
  <2>1. 0 * CS = 0
      BY <1>1
  <2> QED  BY <1>1, <1>3, <1>4, <2>1, PieceLengthIs
<1>7. Walk(first, 0) = first
    BY <1>1, WalkStep
<1>8. piece(0) = rd
  <2>1. ~ (first < 0)
      BY ClusterNumber
  <2> QED  BY <1>1, <1>4, <1>5, <1>6, <1>7, <2>1, PieceIs
<1>9. r \in 0 .. CS - 1 /\ r + size <= CS
    BY <1>1, <1>3
<1>10. /\ rd.res = 0
       /\ \A t \in 1 .. size : rd.out[t] = ByteAt(first, r, t)
  <2> HIDE DEF r
  <2> QED  BY <1>3, <1>9, PieceRead DEF ByteAt
<1>11. /\ \/ item.res = 0
          \/ \E k \in Pieces(size) : piece(k).res # 0
       /\ item.res = 0 =>
            \A i \in 1 .. size :
                item.out[i] = piece((i - 1) \div CS).out[((i - 1) % CS) + 1]
    BY InternalIs
<1> HIDE DEF item, piece, rd
<1>12. item.res = 0
    BY <1>4, <1>8, <1>10, <1>11
<1>13. ASSUME NEW i \in 1 .. size
       PROVE  item.out[i] = FileByte(offset + i - 1)
  <2>0. i - 1 \in 0 .. CS - 1 /\ i \in 1 .. CS
      BY <1>1, <1>3
  <2>1. (i - 1) \div CS = 0 /\ ((i - 1) % CS) + 1 = i /\ i \in 1 .. CS
    <3>1. (i - 1) \div CS = 0 /\ (i - 1) % CS = i - 1
        BY <1>2, <2>0
    <3> QED  BY <1>1, <2>0, <3>1
  <2>2. item.out[i] = ByteAt(first, r, i)
      BY <1>8, <1>10, <1>11, <1>12, <2>1
  <2>3. ByteAt(first, offset % CS, i) = Base(first) + (offset % CS) + (i - 1)
      BY <1>1, <1>4, <1>6, InSectorsBytes
  <2>4. LET u == (offset % CS) + (i - 1)
        IN  FileByte((offset + (0 * CS + i)) - 1) =
                IF u < CS THEN Base(ClusterAt(0)) + u ELSE Base(ClusterAt(0 + 1)) + (u - CS)
      BY <1>5, <2>1, FileByteAt
  <2>5. (offset % CS) + (i - 1) < CS /\ (offset + (0 * CS + i)) - 1 = offset + i - 1
      BY <1>1, <1>3, <1>9
  <2>6. ClusterAt(0) = first
      BY ClusterAtStep
  <2>7. Base(first) \in Int /\ offset % CS \in Int
      BY <1>1, <1>9, BaseIs
  <2> HIDE DEF r
  <2>8. FileByte(offset + i - 1) = Base(first) + ((offset % CS) + (i - 1))
      BY <2>4, <2>5, <2>6
  <2> QED  BY <2>2, <2>3, <2>7, <2>8 DEF r
<1> QED  BY <1>12, <1>13 DEF item, ItemExact

\* What an item delivers is the file's exactly if it is aligned.
LEMMA FileItemExact ==
    ASSUME Chained, NEW offset \in Nat, NEW size \in Nat \ {0}, offset + size <= filesize,
           fat16_read_internal(first, offset, size).res = 0
    PROVE  ItemExact(offset, size, fat16_read_internal(first, offset, size).out)
                <=> InSectors(offset, size) /\ InClusters(offset, size)
<1> DEFINE out == fat16_read_internal(first, offset, size).out
           r == offset % CS
           at(k) == StartsIn(offset, k)
           c(k) == ClusterAt(at(k))
           SS == SectorSize
<1>0. /\ CS \in Nat \ {0} /\ r \in 0 .. CS - 1
      /\ SS \in Nat \ {0} /\ SS <= CS /\ filesize \in Nat
  <2>1. SS <= SectorsPerCluster * SS
      BY Geometry
  <2> QED  BY <2>1, Geometry, DivMod DEF Chained
<1>1. \A k \in Pieces(size) :
        /\ k \in Nat /\ k * CS \in Nat /\ k * CS < size
        /\ PieceLength(size, k) \in 1 .. CS
        /\ PieceLength(size, k) = IF size - k * CS <= CS THEN size - k * CS ELSE CS
    BY <1>0, PieceLengthIs
<1>2. \A k \in Pieces(size) :
        \A t \in 1 .. PieceLength(size, k) :
            /\ k * CS + t \in 1 .. size
            /\ out[k * CS + t] = ByteAt(c(k), r, t)
    BY FileItemBytes
<1>3. \A k \in Pieces(size) : c(k) \in Int /\ ClusterAt(at(k) + 1) \in Int
  <2>1. \A k \in Pieces(size) : at(k) \in Nat
      BY FilePiece
  <2>2. FatType
      BY DEF Chained
  <2> QED  BY <2>1, <2>2, ClusterAtStep
<1>4. ASSUME NEW k \in Pieces(size), NEW t \in 1 .. PieceLength(size, k)
      PROVE  FileByte((offset + (k * CS + t)) - 1) =
                IF r + (t - 1) < CS THEN Base(c(k)) + (r + (t - 1))
                ELSE Base(ClusterAt(at(k) + 1)) + ((r + (t - 1)) - CS)
  <2>1. k \in Nat /\ t \in 1 .. CS
      BY <1>0, <1>1
  <2> QED  BY <2>1, FileByteAt
<1>5. ASSUME NEW k \in Pieces(size)
      PROVE  /\ Crosses(offset, size, k) <=> r + PieceLength(size, k) > CS
             /\ (offset + k * CS) \div CS = at(k)
  <2>1. (offset + k * CS) \div CS = (offset \div CS) + k
      BY <1>0, <1>1, DivModShift
  <2> QED  BY <2>1 DEF Crosses, PieceLength, StartsIn, CS
<1>6. InClusters(offset, size) <=>
        \A k \in Pieces(size) : r + PieceLength(size, k) > CS => ClusterAt(at(k) + 1) = c(k) + 1
  <2>1. InClusters(offset, size) <=>
        \A k \in Pieces(size) : Crosses(offset, size, k) =>
            ClusterAt(((offset + k * CS) \div CS) + 1) = ClusterAt((offset + k * CS) \div CS) + 1
      BY DEF InClusters, CS
  <2> HIDE DEF at
  <2> QED  BY <1>5, <2>1
<1>7. ItemExact(offset, size, out) <=>
        \A i \in 1 .. size : out[i] = FileByte((offset + i) - 1)
    BY DEF ItemExact
<1> HIDE DEF out, at, r
<1>8. ASSUME InSectors(offset, size), InClusters(offset, size)
      PROVE  ItemExact(offset, size, out)
  <2> SUFFICES ASSUME NEW i \in 1 .. size
               PROVE  out[i] = FileByte((offset + i) - 1)
      BY <1>7
  <2> DEFINE k == (i - 1) \div CS
             t == ((i - 1) % CS) + 1
  <2>1. k \in Pieces(size) /\ t \in 1 .. PieceLength(size, k) /\ i = k * CS + t
      BY ByteOfPiece
  <2> HIDE DEF k, t
  <2>2. out[i] = Base(c(k)) + r + (t - 1)
    <3>1. out[i] = ByteAt(c(k), r, t)
        BY <1>2, <2>1
    <3>2. ByteAt(c(k), offset % CS, t) = Base(c(k)) + (offset % CS) + (t - 1)
        BY <1>8, <2>1, InSectorsBytes
    <3> QED  BY <3>1, <3>2 DEF r
  <2> DEFINE b == Base(c(k))
             d == Base(ClusterAt(at(k) + 1))
             len == PieceLength(size, k)
  <2>3. FileByte((offset + i) - 1) =
            IF r + (t - 1) < CS THEN b + (r + (t - 1)) ELSE d + ((r + (t - 1)) - CS)
      BY <1>4, <2>1
  <2>4. b \in Int /\ d \in Int /\ len \in 1 .. CS
      BY <1>1, <1>3, <2>1, BaseIs
  <2>5. r + len > CS => d = b + CS
    <3>1. r + len > CS => ClusterAt(at(k) + 1) = c(k) + 1
        BY <1>6, <1>8, <2>1
    <3> QED  BY <1>3, <2>1, <3>1, BaseIs
  <2>6. t \in 1 .. len
      BY <2>1
  <2> HIDE DEF b, d, len
  <2>7. out[i] = b + r + (t - 1)
      BY <2>2 DEF b
  <2> QED  BY <1>0, <2>3, <2>4, <2>5, <2>6, <2>7
<1>9. ASSUME ItemExact(offset, size, out)
      PROVE  InSectors(offset, size)
  <2> DEFINE o == offset % SS
             m == IF size <= CS THEN size ELSE CS
  <2>1. o \in 0 .. SS - 1
      BY <1>0, DivMod
  <2>2. InSectors(offset, size) <=> (o = 0 \/ o + m <= SS)
      BY DEF InSectors, LesserOf, CS
  <2> HIDE DEF o
  <2> SUFFICES ASSUME o # 0, o + m > SS PROVE FALSE
      BY <1>0, <2>1, <2>2
  <2> DEFINE t == (SS - o) + 1
  <2>3. t \in 1 .. m /\ t - 1 \in 0 .. SS - 1 /\ t \in 1 .. size
      BY <1>0, <2>1
  <2>4. 0 \in Pieces(size)
    <3>1. size - 1 \in Nat
        OBVIOUS
    <3>2. (size - 1) \div CS \in Nat
        BY <1>0, <3>1, DivMod
    <3> QED  BY <3>2 DEF Pieces, CS
  <2>5. PieceLength(size, 0) = m
      BY <1>0, <1>1, <2>4
  <2>6. out[0 * CS + t] = ByteAt(c(0), r, t)
      BY <1>2, <2>3, <2>4, <2>5
  <2>7. (t - 1) % SS = t - 1
    <3>1. t - 1 = SS * 0 + (t - 1)
        BY <1>0, <2>1
    <3> QED  BY <1>0, <2>3, <3>1, DivModIs
  <2>8. r % SS = o
      BY SectorOffset DEF r, o
  <2>9. out[t] = Junk
    <3>1. ~ ((r % SS) + ((t - 1) % SS) < SS)
        BY <1>0, <2>1, <2>7, <2>8
    <3>2. 0 * CS + t = t
        BY <1>0, <2>3
    <3> QED  BY <2>6, <3>1, <3>2 DEF ByteAt
  <2>10. out[t] = FileByte((offset + t) - 1)
      BY <1>7, <1>9, <2>3
  <2>11. FileByte((offset + t) - 1) \in Nat
    <3>1. (offset + t) - 1 \in Nat /\ (offset + t) - 1 < filesize
        BY <1>0, <2>3
    <3> QED  BY <3>1, FileByteNat
  <2> QED  BY <2>9, <2>10, <2>11 DEF Junk
<1>10. ASSUME ItemExact(offset, size, out)
       PROVE  InClusters(offset, size)
  <2> SUFFICES ASSUME NEW k \in Pieces(size), r + PieceLength(size, k) > CS
               PROVE  ClusterAt(at(k) + 1) = c(k) + 1
      BY <1>6
  <2> DEFINE t == (CS - r) + 1
  <2>1. t \in 1 .. PieceLength(size, k) /\ t \in 1 .. CS /\ r + (t - 1) = CS
      BY <1>0, <1>1
  <2> HIDE DEF t
  <2>2. k * CS + t \in 1 .. size
      BY <1>2, <2>1
  <2>3. out[k * CS + t] = FileByte((offset + (k * CS + t)) - 1)
      BY <1>7, <1>10, <2>2
  <2> DEFINE b == Base(c(k))
             d == Base(ClusterAt(at(k) + 1))
  <2>4. FileByte((offset + (k * CS + t)) - 1) = d + (CS - CS)
    <3>1. ~ (r + (t - 1) < CS)
        BY <1>0, <2>1
    <3> QED  BY <1>4, <2>1, <3>1
  <2>5. out[k * CS + t] = b + r + (t - 1)
    <3>1. out[k * CS + t] = ByteAt(c(k), r, t)
        BY <1>2, <2>1
    <3>2. ByteAt(c(k), offset % CS, t) = Base(c(k)) + (offset % CS) + (t - 1)
        BY <1>9, <1>10, <2>1, InSectorsBytes
    <3> QED  BY <3>1, <3>2 DEF r
  <2>6. b \in Int /\ d \in Int
      BY <1>3, BaseIs
  <2>7. d = b + CS
    <3> HIDE DEF b, d
    <3> QED  BY <1>0, <2>1, <2>3, <2>4, <2>5, <2>6
  <2> QED  BY <1>3, <2>7, BaseIs
<1> QED  BY <1>8, <1>9, <1>10 DEF out

\* The whole file as one item is delivered exactly if the walk reaches all of it.
LEMMA WholeItem ==
    ASSUME Chained
    PROVE  LET item == fat16_read_internal(first, 0, filesize)
           IN  /\ filesize \in Nat \ {0}
               /\ IF Reachable = 0 .. L - 1
                  THEN item.res = 0 /\ ItemExact(0, filesize, item.out)
                  ELSE item.res = -EIO
<1> DEFINE item == fat16_read_internal(first, 0, filesize)
           piece(k) == Piece(first, 0, filesize, k)
<1>0. /\ CS \in Nat \ {0} /\ L \in Nat \ {0}
      /\ filesize \in Nat /\ filesize > (L - 1) * CS /\ filesize <= L * CS
    BY Geometry DEF Chained
<1>1. filesize \in Nat \ {0}
  <2>1. (L - 1) * CS >= 0
      BY <1>0
  <2> QED  BY <1>0, <2>1
<1>2. (filesize - 1) \div CS = L - 1
  <2> DEFINE u == filesize - 1 - CS * (L - 1)
  <2>1. L - 1 \in Nat /\ CS * (L - 1) = (L - 1) * CS /\ L * CS = (L - 1) * CS + CS
        /\ (L - 1) * CS \in Nat
      BY <1>0
  <2>2. u \in 0 .. CS - 1 /\ filesize - 1 = CS * (L - 1) + u
      BY <1>0, <2>1
  <2> HIDE DEF u
  <2>3. (CS * (L - 1) + u) \div CS = L - 1
      BY <1>0, <2>1, <2>2, DivModIs
  <2> QED  BY <2>2, <2>3
<1>3. Pieces(filesize) = 0 .. L - 1
    BY <1>2 DEF Pieces, CS
<1>4. 0 \div CS = 0 /\ 0 % CS = 0 /\ 0 % SectorSize = 0
  <2>1. 0 * CS = 0 /\ 0 * SectorSize = 0 /\ SectorSize \in Nat \ {0}
      BY <1>0, Geometry
  <2>2. (0 * CS) \div CS = 0 /\ (0 * CS) % CS = 0 /\ (0 * SectorSize) % SectorSize = 0
      BY <1>0, <2>1, MulDiv
  <2> QED  BY <2>1, <2>2
<1>5. ASSUME NEW k \in 0 .. L - 1
      PROVE  StartsIn(0, k) = k /\ ~ Crosses(0, filesize, k)
  <2>1. StartsIn(0, k) = k
      BY <1>0, <1>4 DEF StartsIn, CS
  <2>2. Crosses(0, filesize, k) <=> 0 + PieceLength(filesize, k) > CS
      BY <1>4 DEF Crosses, PieceLength, CS
  <2>3. PieceLength(filesize, k) \in 1 .. CS
      BY <1>1, <1>3, PieceLengthIs
  <2> QED  BY <1>0, <2>1, <2>2, <2>3
<1>6. InSectors(0, filesize) /\ InClusters(0, filesize)
    BY <1>3, <1>4, <1>5 DEF InSectors, InClusters
<1>7. ASSUME item.res = 0
      PROVE  ItemExact(0, filesize, item.out)
  <2>1. 0 + filesize <= filesize /\ 0 \in Nat
      BY <1>0
  <2> QED  BY <1>1, <1>6, <1>7, <2>1, FileItemExact
<1>8. /\ item.res \in {0, -EIO, Hang}
      /\ (\A k \in Pieces(filesize) : StartsIn(0, k) \in Reachable) => item.res \in {0, Hang}
      /\ item.res = Hang => \E k \in Pieces(filesize) : HangsIn(0, filesize, k)
    BY <1>1, FileItem
<1>9. item.res # Hang
  <2>1. \A k \in Pieces(filesize) : ~ HangsIn(0, filesize, k)
      BY <1>0, <1>3, <1>5 DEF HangsIn
  <2> QED  BY <1>8, <2>1
<1>10. CASE Reachable = 0 .. L - 1
  <2>1. item.res = 0
    <3>1. \A k \in Pieces(filesize) : StartsIn(0, k) \in Reachable
        BY <1>3, <1>5, <1>10
    <3> HIDE DEF item
    <3> QED  BY <1>8, <1>9, <3>1
  <2> QED  BY <1>1, <1>7, <1>10, <2>1
<1>11. CASE Reachable # 0 .. L - 1
  <2>1. PICK m \in 0 .. L - 1 : m \notin Reachable
      BY <1>11 DEF Reachable, L
  <2>2. m \in Pieces(filesize) /\ StartsIn(0, m) = m /\ m < L
      BY <1>0, <1>3, <1>5, <2>1
  <2>3. piece(m).res = -EIO
      BY <1>1, <2>1, <2>2, FilePiece
  <2>4. item.res # 0
    <3>1. \/ item.res = 0 /\ \A k \in Pieces(filesize) : piece(k).res = 0
          \/ \E k \in Pieces(filesize) : piece(k).res # 0 /\ item.res = piece(k).res
        BY <1>1, InternalIs
    <3> HIDE DEF item, piece
    <3> QED  BY <2>2, <2>3, <3>1 DEF EIO
  <2>5. item.res = -EIO
    <3> HIDE DEF item
    <3> QED  BY <1>8, <1>9, <2>4
  <2> QED  BY <1>1, <1>11, <2>5
<1> QED  BY <1>10, <1>11

-----------------------------------------------------------------------------
(* The calls *)

\* No call writes the table or the directory item.
LEMMA SameChain ==
    ASSUME FatType, fat' = fat, outside' = outside, first' = first
    PROVE  /\ FatType'
           /\ \A c : fat16_get_fat_entry(c)' = fat16_get_fat_entry(c)
           /\ \A n \in Nat : ClusterAt(n)' = ClusterAt(n)
<1>1. FatType'
    BY DEF FatType
<1>2. \A c : fat16_get_fat_entry(c)' = fat16_get_fat_entry(c)
    BY DEF fat16_get_fat_entry
<1>3. Entries' = Entries
    BY <1>2 DEF Entries
<1>4. (FatType => \A n \in Nat : ClusterAt(n) = Times(first, Entries, n))'
    BY ClusterAtIs, PTL
<1>5. \A n \in Nat : ClusterAt(n)' = Times(first', Entries', n)
    BY <1>1, <1>4
<1>6. \A n \in Nat : ClusterAt(n)' = Times(first, Entries, n)
    BY <1>3, <1>5
<1> QED  BY <1>1, <1>2, <1>6, ClusterAtIs

\* No call of the file layer changes the walk...
LEMMA SameWalk ==
    ASSUME FatType, fat' = fat, outside' = outside, first' = first
    PROVE  \A s \in Nat, o \in Nat :
            fat16_get_cluster_for_offset(s, o)' = fat16_get_cluster_for_offset(s, o)
<1>1. FatType' /\ \A c : fat16_get_fat_entry(c)' = fat16_get_fat_entry(c)
    BY SameChain
<1>2. Follow' = Follow
    BY <1>1 DEF Follow, Refused
<1>3. (FatType => \A s \in Nat, o \in Nat :
            fat16_get_cluster_for_offset(s, o) = Walk(s, o \div CS))'
    BY WalkIs, PTL
<1>4. \A s \in Nat, o \in Nat :
            fat16_get_cluster_for_offset(s, o)' = Times(s, Follow', o \div CS)
    BY <1>1, <1>3 DEF Walk, CS, ClusterSize
<1> QED  BY <1>2, <1>4, WalkIs DEF Walk

\* ...or what a read delivers.
LEMMA SameReads ==
    ASSUME FatType, fat' = fat, outside' = outside, first' = first,
           NEW starting \in Nat, NEW offset \in Nat, NEW total \in Nat \ {0}
    PROVE  fat16_read_internal(starting, offset, total)'
                = fat16_read_internal(starting, offset, total)
<1>5. \A s \in Nat, o \in Nat :
            fat16_get_cluster_for_offset(s, o)' = fat16_get_cluster_for_offset(s, o)
    BY SameWalk
<1>6. ASSUME NEW k \in Pieces(total)
      PROVE  Piece(starting, offset, total, k)' = Piece(starting, offset, total, k)
  <2>1. k \in Nat /\ ClusterSize \in Nat
      BY PieceLengthIs, Geometry DEF CS
  <2>2. offset + k * ClusterSize \in Nat
      BY <2>1
  <2>3. PieceCluster(starting, offset, k)' = PieceCluster(starting, offset, k)
      BY <1>5, <2>2 DEF PieceCluster
  <2> QED  BY <2>3 DEF Piece
<1> DEFINE f == [k \in Pieces(total) |-> Piece(starting, offset, total, k)]
           bad == {k \in Pieces(total) : f[k].res # 0}
           item == IF bad # {} THEN [res |-> f[Min(bad)].res, out |-> <<>>]
                   ELSE [res |-> 0,
                         out |-> [i \in 1 .. total |->
                            f[(i - 1) \div ClusterSize].out[((i - 1) % ClusterSize) + 1]]]
<1>7. fat16_read_internal(starting, offset, total) = item
    BY DEF fat16_read_internal
<1>8. fat16_read_internal(starting, offset, total)' = item'
    BY DEF fat16_read_internal
<1>9. f' = f
    BY <1>6
<1>10. item' = item
  <2> HIDE DEF f
  <2> QED  BY <1>9
<1> HIDE DEF item
<1> QED  BY <1>7, <1>8, <1>10

\* What the last read was made of: the item that ended it, or all of them.
LastItem(i) == fat16_read_internal(fat16_get_first_cluster, ItemOffset(i), last.size)
Delivered ==
    last.op = "read" /\ first \in Nat =>
        /\ last.offset \in Nat /\ last.size \in Nat \ {0} /\ last.nmemb \in Nat \ {0}
        /\ \/ /\ last.res = last.nmemb
              /\ \A i \in LastItems : LastItem(i).res = 0 /\ last.out[i + 1] = LastItem(i).out
           \/ \E i \in LastItems : LastItem(i).res # 0 /\ last.res = LastItem(i).res

\* The descriptor of a file leads to a whole chain, that of a directory to some
\* number; if it is one that the walk takes for a cluster, the last read was
\* delivered from there.
Inv ==
    /\ FatType
    /\ type = "file" => Chained
    /\ type \in {"file", "directory"}
    /\ pos \in Nat
    /\ Delivered

\* The clusters are finitely many.
LEMMA ClustersFinite == IsFiniteSet(Cluster) /\ Cardinality(Cluster) \in Nat
<1>1. EntryWord \in Nat /\ Cluster \subseteq 0 .. EntryWord
    BY Numbers
<1>2. IsFiniteSet(0 .. EntryWord)
    BY <1>1, FS_Interval
<1>3. IsFiniteSet(Cluster)
    BY <1>1, <1>2, FS_Subset
<1> QED  BY <1>3, FS_CardinalityType

\* The table, the chain and the size stay as they are.
LEMMA ChainedStep ==
    ASSUME Chained, fat' = fat, outside' = outside, first' = first, filesize' = filesize
    PROVE  Chained' /\ L' = L
<1>1. FatType' /\ \A n \in Nat : ClusterAt(n)' = ClusterAt(n)
    BY SameChain DEF Chained
<1> DEFINE E == {n \in 1 .. Cardinality(Cluster) : ClusterAt(n) \notin Cluster}
<1>3. Cardinality(Cluster) \in Nat
    BY ClustersFinite
<1>4. E' = E
    BY <1>1, <1>3
<1>5. L = Min(E) /\ L' = Min(E')
    BY DEF L, ChainLength
<1>6. L' = L
  <2> HIDE DEF E
  <2> QED  BY <1>4, <1>5
<1>7. L \in Nat \ {0}
    BY DEF Chained
<1>8. (\A i \in 0 .. L - 1 : ClusterAt(i) \in Cluster) /\ ClusterAt(L) \in EndMarks
    BY DEF Chained
<1>9. \A i \in 0 .. L - 1 : ClusterAt(i)' \in Cluster
    BY <1>1, <1>7, <1>8
<1>10. ClusterAt(L)' \in EndMarks
    BY <1>1, <1>6, <1>7, <1>8
<1>11. filesize \in Nat /\ filesize > (L - 1) * CS /\ filesize <= L * CS
    BY DEF Chained
<1>12. CS' = CS
    BY DEF CS, ClusterSize
<1> QED  BY <1>1, <1>6, <1>7, <1>9, <1>10, <1>11, <1>12 DEF Chained

\* A table that links the clusters of a sequence, each once, holds a chain.
LEMMA LinkedIsChained ==
    ASSUME FatType, NEW n \in 1 .. Cardinality(Cluster), NEW chain,
           \A i \in 1 .. n : chain[i] \in Cluster,
           first = chain[1],
           NEW mark \in EndMarks, fat[chain[n]] = mark,
           \A i \in 1 .. n : i < n => fat[chain[i]] = chain[i + 1],
           filesize \in Nat, filesize > (n - 1) * CS, filesize <= n * CS
    PROVE  Chained
<1>0. Cardinality(Cluster) \in Nat /\ n \in Nat \ {0}
    BY ClustersFinite
<1> DEFINE P == {i \in 0 .. n - 1 : ClusterAt(i) = chain[i + 1]}
<1>1. 0 \in P
    BY <1>0, ClusterAtStep
<1>2. ASSUME NEW i \in 1 .. n - 1, i - 1 \in P
      PROVE  i \in P
  <2>1. ClusterAt(i - 1) = chain[i] /\ i \in Nat \ {0} /\ i \in 1 .. n /\ i < n
      BY <1>0, <1>2
  <2>2. ClusterAt(i) = fat16_get_fat_entry(chain[i])
      BY <2>1, ClusterAtStep
  <2>3. fat16_get_fat_entry(chain[i]) = fat[chain[i]]
      BY <2>1, EntryIs
  <2> QED  BY <1>0, <2>1, <2>2, <2>3
<1>3. n - 1 \in Nat /\ \A i \in 1 .. n - 1 : i - 1 \in P => i \in P
    BY <1>0, <1>2
<1> HIDE DEF P
<1>4. 0 .. n - 1 \subseteq P
    BY <1>1, <1>3, UpTo
<1>5. \A i \in 0 .. n - 1 : ClusterAt(i) = chain[i + 1]
    BY <1>4 DEF P
<1>6. \A i \in 0 .. n - 1 : ClusterAt(i) \in Cluster
    BY <1>0, <1>5
<1>7. ClusterAt(n) = mark
  <2>1. ClusterAt(n - 1) = chain[n]
      BY <1>0, <1>5
  <2>2. chain[n] \in Cluster
      BY <1>0
  <2>3. fat16_get_fat_entry(chain[n]) = mark
      BY <2>2, EntryIs
  <2> QED  BY <1>0, <2>1, <2>3, ClusterAtStep
<1> DEFINE E == {m \in 1 .. Cardinality(Cluster) : ClusterAt(m) \notin Cluster}
<1>8. n \in E /\ E \subseteq Nat
    BY <1>0, <1>7, Numbers
<1>9. \A m \in E : ~ (m < n)
    BY <1>0, <1>6
<1>10. L = Min(E)
    BY DEF L, ChainLength
<1> HIDE DEF E
<1>11. L \in E /\ L <= n /\ L \in Nat
  <2>1. Min(E) \in E /\ \A y \in E : Min(E) <= y
      BY <1>8, MinIs
  <2> QED  BY <1>8, <1>10, <2>1
<1>12. L = n
    BY <1>0, <1>9, <1>11
<1>13. first \in Cluster
    BY <1>0
<1> QED  BY <1>0, <1>6, <1>7, <1>12, <1>13 DEF Chained

\* An open file that has not been read.
LEMMA InitInv ==
    ASSUME Init
    PROVE  Inv
<1>0. CS \in Nat \ {0} /\ Cardinality(Cluster) \in Nat
    BY Geometry, ClustersFinite
<1>1. PICK chain \in Chains, mark \in EndMarks :
        /\ fat = [c \in Cluster |->
                    IF \E i \in DOMAIN chain : chain[i] = c
                    THEN LET i == CHOOSE j \in DOMAIN chain : chain[j] = c
                         IN  IF i = Len(chain) THEN mark ELSE chain[i + 1]
                    ELSE 0]
        /\ \/ /\ type = "file" /\ first = chain[1] /\ outside = 0
              /\ \E slack \in 0 .. ClusterSize - 1 :
                    filesize = Len(chain) * ClusterSize - slack
           \/ /\ type = "directory" /\ first \in Stale
              /\ outside \in IF first \in 0 .. EntryWord - 1 THEN {0} ELSE Outside
    BY DEF Init
<1>2. PICK n \in 1 .. Cardinality(Cluster) :
        chain \in [1 .. n -> Cluster] /\ IsInjective(chain)
    BY DEF Chains
<1>3. n \in Nat \ {0}
    BY <1>0
<1>4. /\ DOMAIN chain = 1 .. n /\ \A i \in 1 .. n : chain[i] \in Cluster
      /\ \A i, j \in 1 .. n : chain[i] = chain[j] => i = j
    BY <1>2 DEF IsInjective
<1>5. Len(chain) = n
    BY <1>2, <1>3
<1> DEFINE at(c) == CHOOSE j \in 1 .. n : chain[j] = c
           next(c) == IF at(c) = n THEN mark ELSE chain[at(c) + 1]
<1>6. fat = [c \in Cluster |-> IF \E i \in 1 .. n : chain[i] = c THEN next(c) ELSE 0]
    BY <1>1, <1>4, <1>5
<1>7. ASSUME NEW i \in 1 .. n
      PROVE  at(chain[i]) = i
  <2>1. at(chain[i]) \in 1 .. n /\ chain[at(chain[i])] = chain[i]
      OBVIOUS
  <2> HIDE DEF at
  <2> QED  BY <1>4, <2>1
<1> HIDE DEF at
<1>8. \A i \in 1 .. n : fat[chain[i]] = IF i = n THEN mark ELSE chain[i + 1]
    BY <1>4, <1>6, <1>7
<1>9. mark \in Int
    BY Numbers
<1>10. \A i \in 1 .. n : fat[chain[i]] \in Int
  <2>1. ASSUME NEW i \in 1 .. n, i # n
        PROVE  chain[i + 1] \in Int
    <3>1. i + 1 \in 1 .. n
        BY <1>3, <2>1
    <3> QED  BY <1>4, <3>1, Numbers
  <2> QED  BY <1>8, <1>9, <2>1
<1>11. FatType
  <2>1. ASSUME NEW c \in Cluster
        PROVE  fat[c] \in Int
    <3>1. CASE \E i \in 1 .. n : chain[i] = c
        BY <1>10, <3>1
    <3>2. CASE ~ \E i \in 1 .. n : chain[i] = c
        BY <1>6, <3>2
    <3> QED  BY <3>1, <3>2
  <2>2. fat = [c \in Cluster |-> fat[c]]
    <3> HIDE DEF next
    <3> QED  BY <1>6
  <2>3. fat \in [Cluster -> Int]
      BY <2>1, <2>2
  <2>4. first \in Int
    <3>1. chain[1] \in Cluster
        BY <1>3, <1>4
    <3> QED  BY <1>1, <3>1, Numbers, FatAssumption
  <2>5. outside \in Int
    <3>1. Outside \subseteq Int
        BY Numbers, FatAssumption DEF Hang
    <3>2. outside \in {0} \cup Outside
        BY <1>1
    <3> QED  BY <3>1, <3>2
  <2> QED  BY <2>3, <2>4, <2>5 DEF FatType
<1>12. ASSUME type = "file"
       PROVE  Chained
  <2>1. first = chain[1]
      BY <1>1, <1>12
  <2>2. PICK slack \in 0 .. CS - 1 : filesize = n * CS - slack
      BY <1>1, <1>5, <1>12 DEF CS
  <2>3. filesize \in Nat /\ filesize > (n - 1) * CS /\ filesize <= n * CS
    <3>1. n * CS = (n - 1) * CS + CS /\ (n - 1) * CS \in Nat
        BY <1>0, <1>3
    <3> QED  BY <1>0, <2>2, <3>1
  <2>4. fat[chain[n]] = mark /\ \A i \in 1 .. n : i < n => fat[chain[i]] = chain[i + 1]
      BY <1>3, <1>8
  <2> QED  BY <1>4, <1>11, <2>1, <2>3, <2>4, LinkedIsChained
<1>13. type \in {"file", "directory"}
    BY <1>1
<1>14. pos \in Nat /\ Delivered
    BY DEF Init, Delivered
<1> QED  BY <1>11, <1>12, <1>13, <1>14 DEF Inv

\* A call of fread: what it leaves in last is what its items came to.
LEMMA ReadInv ==
    ASSUME Inv, NEW size \in Items, NEW nmemb \in Counts, fat16_read(size, nmemb)
    PROVE  Inv'
<1> DEFINE at(i) == fat16_read_internal(fat16_get_first_cluster, pos + i * size, size)
           Is == 0 .. nmemb - 1
           item == [i \in Is |-> at(i)]
           bad == {i \in Is : item[i].res # 0}
<1>1. /\ pos \in Nat /\ size \in Nat \ {0} /\ nmemb \in Nat \ {0}
    BY FatAssumption DEF Inv
<1>2. /\ fat' = fat /\ outside' = outside /\ type' = type /\ first' = first /\ filesize' = filesize
    BY DEF fat16_read
<1>3. /\ pos' = IF bad # {} THEN pos ELSE pos + nmemb * size
      /\ last' = [op |-> "read", offset |-> pos, size |-> size, nmemb |-> nmemb,
                  res |-> IF bad # {} THEN item[Min(bad)].res ELSE nmemb,
                  out |-> IF bad # {} THEN <<>>
                          ELSE [i \in 1 .. nmemb |-> item[i - 1].out]]
    BY DEF fat16_read
<1>4. FatType' /\ (type' = "file" => Chained')
    BY <1>2, ChainedStep DEF Inv, FatType
<1>5. pos' \in Nat
  <2>1. nmemb * size \in Nat
      BY <1>1
  <2>2. pos' = pos \/ pos' = pos + nmemb * size
      BY <1>3
  <2> HIDE DEF bad
  <2> QED  BY <1>1, <2>1, <2>2
<1>6. fat16_get_first_cluster' = fat16_get_first_cluster
    BY <1>2 DEF fat16_get_first_cluster
<1>7. ASSUME first \in Nat, NEW i \in Is
      PROVE  LastItem(i)' = at(i)
  <2>1. i * size \in Nat
      BY <1>1
  <2>2. pos + i * size \in Nat
      BY <1>1, <2>1
  <2>3. FatType /\ fat16_get_first_cluster \in Nat
      BY <1>7 DEF Inv, fat16_get_first_cluster
  <2>4. PICK s \in Nat : s = fat16_get_first_cluster
      BY <2>3
  <2>5. PICK o \in Nat : o = pos + i * size
      BY <2>2
  <2>6. ItemOffset(i)' = o /\ last'.size = size
      BY <1>3, <2>5 DEF ItemOffset
  <2>7. fat16_read_internal(s, o, size)' = fat16_read_internal(s, o, size)
      BY <1>1, <1>2, <2>3, SameReads
  <2>8. LastItem(i)' = fat16_read_internal(s, o, size)'
      BY <1>6, <2>4, <2>6 DEF LastItem
  <2>9. at(i) = fat16_read_internal(s, o, size)
      BY <2>4, <2>5
  <2> HIDE DEF at
  <2> QED  BY <2>7, <2>8, <2>9
<1>8. Is \subseteq Nat /\ bad \subseteq Is
    BY <1>1
<1>9. \A i \in Is : item[i] = at(i)
    OBVIOUS
<1> HIDE DEF at, item
<1>10. LastItems' = Is
    BY <1>3 DEF LastItems
<1>11. Delivered'
  <2> SUFFICES ASSUME first \in Nat
               PROVE  Delivered'
      BY <1>2 DEF Delivered
  <2>1. /\ last'.op = "read" /\ last'.offset = pos /\ last'.size = size
        /\ last'.nmemb = nmemb
      BY <1>3
  <2>2. ASSUME bad = {}
        PROVE  /\ last'.res = last'.nmemb
               /\ \A i \in LastItems' :
                    LastItem(i)'.res = 0 /\ last'.out[i + 1] = LastItem(i)'.out
    <3>1. last'.res = nmemb /\ last'.out = [i \in 1 .. nmemb |-> item[i - 1].out]
        BY <1>3, <2>2
    <3>2. ASSUME NEW i \in Is
          PROVE  LastItem(i)'.res = 0 /\ last'.out[i + 1] = LastItem(i)'.out
      <4>1. item[i].res = 0
          BY <2>2
      <4>2. i + 1 \in 1 .. nmemb /\ (i + 1) - 1 = i
          BY <1>1
      <4>3. last'.out[i + 1] = item[i].out
          BY <3>1, <4>2
      <4> QED  BY <1>7, <1>9, <4>1, <4>3
    <3> QED  BY <1>10, <2>1, <3>1, <3>2
  <2>3. ASSUME bad # {}
        PROVE  \E i \in LastItems' : LastItem(i)'.res # 0 /\ last'.res = LastItem(i)'.res
    <3>1. Min(bad) \in bad
      <4>1. bad \subseteq Nat
          BY <1>8
      <4> HIDE DEF bad
      <4> QED  BY <2>3, <4>1, MinIs
    <3>2. last'.res = item[Min(bad)].res
        BY <1>3, <2>3
    <3>3. Min(bad) \in Is /\ item[Min(bad)].res # 0
        BY <3>1
    <3> HIDE DEF bad
    <3> QED  BY <1>7, <1>9, <1>10, <3>2, <3>3
  <2> HIDE DEF bad, Is
  <2> QED  BY <1>1, <2>1, <2>2, <2>3 DEF Delivered
<1>12. type' \in {"file", "directory"}
    BY <1>2 DEF Inv
<1> QED  BY <1>4, <1>5, <1>11, <1>12 DEF Inv

\* A call of fseek.
LEMMA SeekInv ==
    ASSUME Inv, NEW offset \in 0 .. filesize,
           NEW whence \in {"SEEK_SET", "SEEK_CUR", "SEEK_END"}, fat16_seek(offset, whence)
    PROVE  Inv'
<1>1. /\ fat' = fat /\ outside' = outside /\ type' = type /\ first' = first /\ filesize' = filesize
    BY DEF fat16_seek
<1>2. FatType' /\ (type' = "file" => Chained')
    BY <1>1, ChainedStep DEF Inv, FatType
<1>3. pos \in Nat /\ offset \in Nat
    BY DEF Inv
<1>4. pos' \in Nat
  <2>1. pos' \in {pos, offset, pos + offset}
      BY DEF fat16_seek
  <2> QED  BY <1>3, <2>1
<1>5. Delivered'
    BY DEF fat16_seek, Delivered
<1>6. type' \in {"file", "directory"}
    BY <1>1 DEF Inv
<1> QED  BY <1>2, <1>4, <1>5, <1>6 DEF Inv

\* A state that does not change.
LEMMA StutterInv ==
    ASSUME Inv, UNCHANGED vars
    PROVE  Inv'
<1>1. /\ fat' = fat /\ outside' = outside /\ type' = type /\ first' = first /\ filesize' = filesize
      /\ pos' = pos /\ last' = last
    BY DEF vars
<1>2. FatType' /\ (type' = "file" => Chained')
    BY <1>1, ChainedStep DEF Inv, FatType
<1>3. ASSUME last.op = "read", first \in Nat, NEW i \in LastItems
      PROVE  LastItem(i)' = LastItem(i)
  <2>1. /\ last.offset \in Nat /\ last.size \in Nat \ {0} /\ last.nmemb \in Nat \ {0}
      BY <1>3 DEF Inv, Delivered
  <2>2. ItemOffset(i) \in Nat
    <3>1. i \in Nat
        BY <1>3, <2>1 DEF LastItems
    <3>2. i * last.size \in Nat
        BY <2>1, <3>1
    <3> QED  BY <2>1, <3>2 DEF ItemOffset
  <2>3. FatType /\ fat16_get_first_cluster \in Nat
      BY <1>3 DEF Inv, fat16_get_first_cluster
  <2>4. PICK s \in Nat : s = fat16_get_first_cluster
      BY <2>3
  <2>5. PICK o \in Nat : o = ItemOffset(i)
      BY <2>2
  <2>6. PICK t \in Nat \ {0} : t = last.size
      BY <2>1
  <2>7. fat16_get_first_cluster' = s /\ ItemOffset(i)' = o /\ last'.size = t
      BY <1>1, <2>4, <2>5, <2>6 DEF fat16_get_first_cluster, ItemOffset
  <2>8. fat16_read_internal(s, o, t)' = fat16_read_internal(s, o, t)
      BY <1>1, <2>3, SameReads
  <2>9. LastItem(i)' = fat16_read_internal(s, o, t)'
      BY <2>7 DEF LastItem
  <2>10. LastItem(i) = fat16_read_internal(s, o, t)
      BY <2>4, <2>5, <2>6 DEF LastItem
  <2> QED  BY <2>8, <2>9, <2>10
<1>4. LastItems' = LastItems
    BY <1>1 DEF LastItems
<1>5. Delivered'
    BY <1>1, <1>3, <1>4 DEF Inv, Delivered
<1>6. type' \in {"file", "directory"} /\ pos' \in Nat
    BY <1>1 DEF Inv
<1> QED  BY <1>2, <1>5, <1>6 DEF Inv

\* fread, fseek and the polling keep the invariant.
LEMMA StepInv ==
    ASSUME Inv, [Next \/ Polling]_vars
    PROVE  Inv'
<1>1. ASSUME NEW size \in Items, NEW nmemb \in Counts, fat16_read(size, nmemb)
      PROVE  Inv'
    BY <1>1, ReadInv
<1>2. ASSUME NEW offset \in 0 .. filesize,
             NEW whence \in {"SEEK_SET", "SEEK_CUR", "SEEK_END"}, fat16_seek(offset, whence)
      PROVE  Inv'
    BY <1>2, SeekInv
<1>3. CASE UNCHANGED vars
    BY <1>3, StutterInv
<1> QED  BY <1>1, <1>2, <1>3 DEF Next, Polling

-----------------------------------------------------------------------------
(* What the invariant says of the last read *)

\* The last read, item by item.
LEMMA LastRead ==
    ASSUME Inv, last.op = "read", first \in Nat
    PROVE  /\ last.size \in Nat \ {0} /\ last.nmemb \in Nat \ {0}
           /\ \A i \in LastItems : ItemOffset(i) \in Nat
           /\ \/ /\ last.res = last.nmemb
                 /\ \A i \in LastItems :
                        LastItem(i).res = 0 /\ last.out[i + 1] = LastItem(i).out
              \/ \E i \in LastItems : LastItem(i).res # 0 /\ last.res = LastItem(i).res
           /\ 0 \in LastItems
<1>1. /\ last.offset \in Nat /\ last.size \in Nat \ {0} /\ last.nmemb \in Nat \ {0}
    BY DEF Inv, Delivered
<1>2. ASSUME NEW i \in LastItems
      PROVE  ItemOffset(i) \in Nat
  <2>1. i \in Nat
      BY <1>1 DEF LastItems
  <2>2. i * last.size \in Nat
      BY <1>1, <2>1
  <2> QED  BY <1>1, <2>2 DEF ItemOffset
<1>3. 0 \in LastItems
    BY <1>1 DEF LastItems
<1>4. \/ /\ last.res = last.nmemb
         /\ \A i \in LastItems :
                LastItem(i).res = 0 /\ last.out[i + 1] = LastItem(i).out
      \/ \E i \in LastItems : LastItem(i).res # 0 /\ last.res = LastItem(i).res
    BY DEF Inv, Delivered
<1> QED  BY <1>1, <1>2, <1>3, <1>4

\* A file starts with a cluster.
LEMMA FirstOfFile ==
    ASSUME Inv, type = "file"
    PROVE  Chained /\ first \in Nat
<1>1. Chained
    BY DEF Inv
<1>2. first \in Cluster
    BY <1>1 DEF Chained
<1> QED  BY <1>1, <1>2, ClusterNumber

\* What the items of a file come to.
LEMMA LastFileItem ==
    ASSUME Inv, last.op = "read", type = "file", NEW i \in LastItems
    PROVE  /\ LastItem(i) = fat16_read_internal(first, ItemOffset(i), last.size)
           /\ LastItem(i).res \in {0, -EIO, Hang}
           /\ LastItem(i).res = 0 /\ KnownMark =>
                \A k \in Pieces(last.size) : StartsIn(ItemOffset(i), k) \in Reachable
           /\ (\A k \in Pieces(last.size) : StartsIn(ItemOffset(i), k) \in Reachable) =>
                LastItem(i).res \in {0, Hang}
           /\ LastItem(i).res = Hang =>
                \E k \in Pieces(last.size) : HangsIn(ItemOffset(i), last.size, k)
<1>1. LastItem(i) = fat16_read_internal(first, ItemOffset(i), last.size)
    BY DEF LastItem, fat16_get_first_cluster
<1>2. first \in Nat /\ Chained
    BY FirstOfFile
<1>3. ItemOffset(i) \in Nat /\ last.size \in Nat \ {0}
    BY <1>2, LastRead
<1> QED  BY <1>1, <1>2, <1>3, FileItem

\* The five properties follow from the invariant.  First, which items are exact...
LEMMA InvReadExact == Inv => ReadExactIffAligned
<1> SUFFICES ASSUME Inv, type = "file", last.op = "read", last.res > 0,
                    NEW i \in LastItems, ItemOffset(i) + last.size <= filesize
             PROVE  ItemExact(ItemOffset(i), last.size, last.out[i + 1])
                        <=> InSectors(ItemOffset(i), last.size)
                            /\ InClusters(ItemOffset(i), last.size)
    BY DEF ReadExactIffAligned
<1>0. first \in Nat /\ Chained
    BY FirstOfFile
<1>1. \A j \in LastItems : LastItem(j).res # 0 => ~ (LastItem(j).res > 0)
    BY LastFileItem DEF EIO, Hang
<1>2. LastItem(i).res = 0 /\ last.out[i + 1] = LastItem(i).out
    BY <1>0, <1>1, LastRead
<1>3. LastItem(i) = fat16_read_internal(first, ItemOffset(i), last.size)
    BY LastFileItem
<1>4. ItemOffset(i) \in Nat /\ last.size \in Nat \ {0}
    BY <1>0, LastRead
<1> QED  BY <1>0, <1>2, <1>3, <1>4, FileItemExact

\* ...the read of a whole file...
LEMMA InvWholeFile == Inv => WholeFileExact
<1> SUFFICES ASSUME Inv, type = "file", last.op = "read", last.offset = 0,
                    last.size = filesize, last.nmemb = 1
             PROVE  IF Reachable = 0 .. ChainLength - 1
                    THEN last.res = 1 /\ ItemExact(0, filesize, last.out[1])
                    ELSE last.res = -EIO
    BY DEF WholeFileExact
<1>0. first \in Nat /\ Chained
    BY FirstOfFile
<1>1. LastItems = {0}
    BY DEF LastItems
<1>2. ItemOffset(0) = 0
  <2>1. last.size \in Nat
      BY <1>0, LastRead
  <2> QED  BY <2>1 DEF ItemOffset
<1>3. LastItem(0) = fat16_read_internal(first, 0, filesize)
    BY <1>1, <1>2, LastFileItem
<1>4. IF Reachable = 0 .. ChainLength - 1
      THEN LastItem(0).res = 0 /\ ItemExact(0, filesize, LastItem(0).out)
      ELSE LastItem(0).res = -EIO
    BY <1>0, <1>3, WholeItem DEF L
<1>5. \/ last.res = 1 /\ LastItem(0).res = 0 /\ last.out[1] = LastItem(0).out
      \/ LastItem(0).res # 0 /\ last.res = LastItem(0).res
    BY <1>0, <1>1, LastRead
<1> QED  BY <1>4, <1>5 DEF EIO

\* ...which reads succeed...
LEMMA InvSucceeds == Inv => SucceedsInTheChain
<1> SUFFICES ASSUME Inv, type = "file", last.op = "read", last.res # Hang, KnownMark
             PROVE  last.res > 0 <=>
                        \A i \in LastItems, k \in Pieces(last.size) :
                            StartsIn(ItemOffset(i), k) \in Reachable
    BY DEF SucceedsInTheChain, KnownMark, L
<1>0. first \in Nat
    BY FirstOfFile
<1>1. CASE /\ last.res = last.nmemb
           /\ \A i \in LastItems : LastItem(i).res = 0
  <2>1. last.res > 0
      BY <1>0, <1>1, LastRead
  <2> QED  BY <1>1, <2>1, LastFileItem
<1>2. CASE \E i \in LastItems : LastItem(i).res # 0 /\ last.res = LastItem(i).res
  <2>1. PICK i \in LastItems : LastItem(i).res # 0 /\ last.res = LastItem(i).res
      BY <1>2
  <2>2. last.res = -EIO
      BY <2>1, LastFileItem
  <2>3. ~ (last.res > 0)
      BY <2>2 DEF EIO
  <2>4. ~ (\A k \in Pieces(last.size) : StartsIn(ItemOffset(i), k) \in Reachable)
      BY <2>1, LastFileItem
  <2> QED  BY <2>3, <2>4
<1> QED  BY <1>0, <1>1, <1>2, LastRead

\* ...which never return...
LEMMA InvHangs == Inv => HangsBehindTheDisk
<1> SUFFICES ASSUME Inv, type = "file", last.op = "read", last.res = Hang
             PROVE  \E i \in LastItems, k \in Pieces(last.size) :
                        HangsIn(ItemOffset(i), last.size, k)
    BY DEF HangsBehindTheDisk, HangsIn, KnownMark, L
<1>0. first \in Nat
    BY FirstOfFile
<1>1. last.nmemb # Hang
  <2>1. last.nmemb \in Nat
      BY <1>0, LastRead
  <2> QED  BY <2>1 DEF Hang
<1>2. PICK i \in LastItems : LastItem(i).res = Hang
    BY <1>0, <1>1, LastRead
<1>3. PICK k \in Pieces(last.size) : HangsIn(ItemOffset(i), last.size, k)
    BY <1>2, LastFileItem
<1> QED  BY <1>3

\* ...and what a directory delivers.
LEMMA InvDirectory == Inv => DirectoryReadsLeftover
<1> SUFFICES ASSUME Inv, last.op = "read", first \in Cluster,
                    \A i \in LastItems : InFirstCluster(ItemOffset(i), last.size)
             PROVE  /\ last.res = last.nmemb
                    /\ \A i \in LastItems :
                            ItemExact(ItemOffset(i), last.size, last.out[i + 1])
    BY DEF DirectoryReadsLeftover
<1>1. first \in Nat /\ FatType
    BY ClusterNumber DEF Inv
<1>2. /\ last.size \in Nat \ {0}
      /\ \A i \in LastItems : ItemOffset(i) \in Nat
    BY <1>1, LastRead
<1>3. ASSUME NEW i \in LastItems
      PROVE  LastItem(i).res = 0 /\ ItemExact(ItemOffset(i), last.size, LastItem(i).out)
  <2>1. LastItem(i) = fat16_read_internal(first, ItemOffset(i), last.size)
      BY DEF LastItem, fat16_get_first_cluster
  <2> QED  BY <1>1, <1>2, <2>1, LeftoverItem
<1>4. /\ last.res = last.nmemb
      /\ \A i \in LastItems : last.out[i + 1] = LastItem(i).out
    BY <1>1, <1>3, LastRead
<1> QED  BY <1>3, <1>4

-----------------------------------------------------------------------------
(* The theorems *)

\* The descriptor of a file leads to a whole chain that the table links, that of
\* a directory to a number left in its block; from there the last fread
\* (fat16.c:736) was delivered item by item.
THEOREM ReadsFollowTheChain == Spec => []Inv
<1>1. Init => Inv
    BY InitInv
<1>2. Inv /\ [Next \/ Polling]_vars => Inv'
    BY StepInv
<1> QED  BY <1>1, <1>2, PTL DEF Spec

\* fat16_read_internal_from_stream and diskstreamer_read (fat16.c:441,
\* streamer.c:22): for every geometry, table and chain, an item of fread is the
\* bytes of the file exactly if it crosses no sector boundary from inside a
\* sector and no cluster boundary into a cluster that is elsewhere.
THEOREM ReadsExactIffAligned == Spec => []ReadExactIffAligned
<1> QED  BY ReadsFollowTheChain, InvReadExact, PTL

\* process_load_binary (process.c:329): a file read as one item from its start is
\* the file, or the read fails with -EIO because the walk refuses a cluster of it.
THEOREM WholeFilesExact == Spec => []WholeFileExact
<1> QED  BY ReadsFollowTheChain, InvWholeFile, PTL

\* fat16_get_cluster_for_offset (fat16.c:397): where the walk knows the mark of the
\* chain, fread succeeds exactly if each of its pieces starts in a cluster of the
\* chain that the walk reaches.
THEOREM ReadsSucceedInTheChain == Spec => []SucceedsInTheChain
<1> QED  BY ReadsFollowTheChain, InvSucceeds, PTL

\* In a read of a file disk_read_sector (disk.c:8) is asked for a sector that the
\* disk does not have, and waits for ever, only behind an unknown mark or across
\* the end of the last cluster of the disk.
THEOREM HangsOnlyBehindTheDisk == Spec => []HangsBehindTheDisk
<1> QED  BY ReadsFollowTheChain, InvHangs, PTL

\* fat16_get_first_cluster on the descriptor of a directory (fat16.c:740): whatever
\* number the heap block was left with (kheap.c:35), if it is that of a cluster,
\* a read within it succeeds and delivers that cluster.
THEOREM DirectoriesReadLeftovers == Spec => []DirectoryReadsLeftover
<1> QED  BY ReadsFollowTheChain, InvDirectory, PTL
=============================================================================
