----------------------------- MODULE StartupProofs -----------------------------
(***************************************************************************)
(* The boot loader and the kernel find and read what is on the disk, for   *)
(* every volume that mkdosfs makes with one sector per cluster: chains and *)
(* directories of every length, wherever the clusters lie.                 *)
(***************************************************************************)
EXTENDS Startup, FiniteSetTheorems, WellFoundedInduction, SequenceTheorems, TLAPS

-----------------------------------------------------------------------------
(* Numbers *)

LEMMA LeastIn ==
  ASSUME NEW S \in SUBSET Nat, S # {}
  PROVE  \E x \in S : \A y \in S : x <= y
<1> DEFINE R == OpToRel(<, Nat)
<1>1. \E x \in S : \A y \in S : ~(<<y, x>> \in R)
  BY NatLessThanWellFounded, WFMin
<1>2. \A x, y \in Nat : x < y => <<x, y>> \in R
  BY DEF OpToRel
<1> HIDE DEF R
<1>3. PICK x \in S : \A y \in S : ~(<<y, x>> \in R)
  BY <1>1
<1>4. ASSUME NEW y \in S PROVE x <= y
  <2>1. ~(y < x)
    BY <1>2, <1>3
  <2> QED BY <2>1
<1> QED BY <1>4

LEMMA MinIs ==
  ASSUME NEW S \in SUBSET Nat, NEW x \in S, \A y \in S : x <= y
  PROVE  Min(S) = x
<1>1. PICK z : z = Min(S)
  OBVIOUS
<1>2. z \in S /\ \A y \in S : z <= y
  BY <1>1 DEF Min
<1>3. x <= z /\ z <= x
  BY <1>2
<1> QED BY <1>1, <1>2, <1>3

LEMMA MinOf ==
  ASSUME NEW S \in SUBSET Nat, S # {}
  PROVE  Min(S) \in S /\ \A y \in S : Min(S) <= y
<1>1. PICK x \in S : \A y \in S : x <= y
  BY LeastIn
<1>2. Min(S) = x
  BY <1>1, MinIs
<1> QED BY <1>1, <1>2

LEMMA Numbers ==
  /\ WordsPerSector = 128 /\ EntriesPerSector = 16 /\ BytesPerSector = 512
  /\ ClusterMask \in Nat /\ ClusterMask > 0 /\ EndOfChain \in Nat
BY SMT DEF WordsPerSector, EntriesPerSector, BytesPerSector, ClusterMask, EndOfChain

-----------------------------------------------------------------------------
(* Chains *)

Geometry(v) ==
  /\ v.lba \in Nat /\ v.reserved \in Nat /\ v.fats \in Nat /\ v.spf \in Nat
  /\ v.lba > 0 /\ v.reserved > 0 /\ v.fats > 0 /\ v.spf > 0 /\ v.spc = 1

LEMMA WellFormedGeometry == ASSUME NEW v, WellFormed(v) PROVE Geometry(v)
BY DEF WellFormed, Geometry

LEMMA NextClusterType ==
  ASSUME NEW v, WellFormed(v), NEW c
  PROVE  FatEntry(v, c) \in Nat /\ NextCluster(v, c) \in Nat
<1>1. FatEntry(v, c) \in Nat
  BY DEF WellFormed, FatEntry
<1> QED BY <1>1, Numbers DEF NextCluster

\* What Chain() has after k turns when f is what it has after fewer.
Link(f, v, c, k) ==
  IF k = 0 THEN <<c>>
  ELSE IF NextCluster(v, Last(f[k - 1])) >= EndOfChain THEN f[k - 1]
  ELSE Append(f[k - 1], NextCluster(v, Last(f[k - 1])))

IsLinked(f, v, c, N) == f = [k \in 0 .. N |-> Link(f, v, c, k)]

LEMMA LinkDefined ==
  ASSUME NEW N \in Nat, NEW v, NEW c
  PROVE  \E f : IsLinked(f, v, c, N)
<1> DEFINE Wrong == {m \in Nat : ~\E f : f = [k \in 0 .. m |-> Link(f, v, c, k)]}
<1>1. ASSUME Wrong # {} PROVE FALSE
  <2>1. PICK m \in Wrong : \A n \in Wrong : m <= n
    <3>1. Wrong \in SUBSET Nat
      OBVIOUS
    <3> HIDE DEF Wrong
    <3> QED BY <1>1, <3>1, LeastIn
  <2>2. CASE m = 0
    <3> DEFINE g == [k \in 0 .. 0 |-> <<c>>]
    <3>1. g = [k \in 0 .. 0 |-> Link(g, v, c, k)]
      BY DEF Link
    <3> QED BY <2>1, <2>2, <3>1
  <2>3. CASE m # 0
    <3>1. m - 1 \in Nat /\ m - 1 \notin Wrong
      BY <2>1, <2>3
    <3>2. PICK f : f = [k \in 0 .. m - 1 |-> Link(f, v, c, k)]
      BY <3>1
    <3> DEFINE g == [k \in 0 .. m |-> IF k = m THEN Link(f, v, c, m) ELSE f[k]]
    <3>3. ASSUME NEW k \in 0 .. m PROVE g[k] = Link(g, v, c, k)
      <4>1. k # 0 => k - 1 \in 0 .. m - 1 /\ g[k - 1] = f[k - 1]
        BY <2>1, <2>3
      <4>2. Link(g, v, c, k) = Link(f, v, c, k)
        <5> HIDE DEF g
        <5> QED BY <4>1 DEF Link
      <4>3. CASE k = m
        BY <4>2, <4>3
      <4>4. CASE k # m
        <5>1. k \in 0 .. m - 1
          BY <2>1, <4>4
        <5>2. f[k] = Link(f, v, c, k)
          BY <3>2, <5>1
        <5> QED BY <4>2, <4>4, <5>2
      <4> QED BY <4>3, <4>4
    <3>4. g = [k \in 0 .. m |-> Link(g, v, c, k)]
      <4>1. g = [k \in 0 .. m |-> g[k]]
        OBVIOUS
      <4> HIDE DEF g
      <4> QED BY <3>3, <4>1
    <3> HIDE DEF g
    <3> QED BY <2>1, <3>4
  <2> QED BY <2>2, <2>3
<1> QED BY <1>1 DEF IsLinked

\* Clusters that follow each other in the FAT, from c on.
Linked(v, c, s) ==
  /\ s \in Seq(Nat) /\ Len(s) >= 1 /\ s[1] = c
  /\ \A k \in 1 .. Len(s) - 1 : s[k + 1] = NextCluster(v, s[k]) /\ s[k + 1] < EndOfChain

LEMMA ChainLinked ==
  ASSUME NEW v, WellFormed(v), NEW c \in Nat
  PROVE  Linked(v, c, Chain(v, c))
<1> DEFINE N == Cardinality(DOMAIN v.fat)
<1>1. N \in Nat
  BY FS_CardinalityType DEF WellFormed
<1>2. PICK f : f = [k \in 0 .. N |-> Link(f, v, c, k)] /\ Chain(v, c) = f[N]
  <2>1. \E f : IsLinked(f, v, c, N)
    <3> HIDE DEF N
    <3> QED BY <1>1, LinkDefined
  <2> QED BY <2>1 DEF IsLinked, Chain, Link
<1>3. Linked(v, c, <<c>>)
  BY DEF Linked
<1> HIDE DEF N
<1>4. ASSUME NEW k \in 1 .. N, Linked(v, c, f[k - 1]) PROVE Linked(v, c, f[k])
  <2> DEFINE s == f[k - 1]
             next == NextCluster(v, Last(s))
  <2>1. f[k] = IF next >= EndOfChain THEN s ELSE Append(s, next)
    <3>1. k \in 0 .. N /\ k # 0
      BY <1>1
    <3>2. f[k] = Link(f, v, c, k)
      BY <1>2, <3>1
    <3> QED BY <3>1, <3>2 DEF Link
  <2>2. s \in Seq(Nat) /\ Len(s) >= 1 /\ s[1] = c
        /\ \A i \in 1 .. Len(s) - 1 : s[i + 1] = NextCluster(v, s[i]) /\ s[i + 1] < EndOfChain
    BY <1>4 DEF Linked
  <2>3. next \in Nat /\ next = NextCluster(v, s[Len(s)])
    BY <2>2, NextClusterType DEF Last
  <2> HIDE DEF s, next
  <2>4. CASE next >= EndOfChain
    BY <1>4, <2>1, <2>4 DEF s
  <2>5. CASE next < EndOfChain
    <3> DEFINE t == Append(s, next)
    <3>1. /\ t \in Seq(Nat) /\ Len(t) = Len(s) + 1 /\ t[Len(s) + 1] = next
          /\ \A i \in 1 .. Len(s) : t[i] = s[i]
      BY <2>2, <2>3
    <3> HIDE DEF t
    <3>2. ASSUME NEW i \in 1 .. Len(t) - 1
          PROVE  t[i + 1] = NextCluster(v, t[i]) /\ t[i + 1] < EndOfChain
      <4>1. CASE i = Len(s)
        BY <2>2, <2>3, <2>5, <3>1, <4>1
      <4>2. CASE i # Len(s)
        <5>1. i \in 1 .. Len(s) - 1 /\ i \in 1 .. Len(s) /\ i + 1 \in 1 .. Len(s)
          BY <2>2, <3>1, <4>2
        <5> QED BY <2>2, <3>1, <5>1
      <4> QED BY <4>1, <4>2
    <3>3. Linked(v, c, t)
      BY <2>2, <3>1, <3>2 DEF Linked
    <3>4. f[k] = t
      BY <2>1, <2>3, <2>5, Numbers DEF t
    <3> QED BY <3>3, <3>4
  <2> QED BY <2>3, <2>4, <2>5, Numbers
<1> DEFINE Wrong == {k \in 0 .. N : ~Linked(v, c, f[k])}
<1>5. ASSUME Wrong # {} PROVE FALSE
  <2>1. Wrong \in SUBSET Nat
    OBVIOUS
  <2>2. PICK k \in Wrong : \A m \in Wrong : k <= m
    <3> HIDE DEF Wrong
    <3> QED BY <1>5, <2>1, LeastIn
  <2>3. k # 0
    <3>1. 0 \in 0 .. N
      BY <1>1
    <3>2. f[0] = <<c>>
      BY <1>2, <3>1 DEF Link
    <3> QED BY <1>3, <2>2, <3>2
  <2>4. k \in 1 .. N /\ k - 1 \in 0 .. N /\ ~(k <= k - 1)
    BY <1>1, <2>2, <2>3
  <2>5. Linked(v, c, f[k - 1])
    BY <2>2, <2>4
  <2> QED BY <1>4, <2>2, <2>4, <2>5
<1>6. N \in 0 .. N
  BY <1>1
<1> QED BY <1>2, <1>5, <1>6

\* What a sound chain is: no recursion from here on.
LEMMA SoundChain ==
  ASSUME NEW v, WellFormed(v), NEW c \in Nat, Sound(v, c)
  PROVE  LET s == Chain(v, c)
         IN  /\ s \in Seq(Nat) /\ Len(s) \in Nat /\ Len(s) >= 1 /\ s[1] = c
             /\ \A k \in 1 .. Len(s) : s[k] \in Nat /\ s[k] >= 2 /\ s[k] < v.spf * 128
             /\ \A k \in 1 .. Len(s) : NextCluster(v, s[k]) >= EndOfChain <=> k = Len(s)
             /\ \A k \in 1 .. Len(s) - 1 : s[k + 1] = NextCluster(v, s[k])
<1> DEFINE s == Chain(v, c)
<1>1. Linked(v, c, s)
  BY ChainLinked
<1>2. /\ \A k \in DOMAIN s : s[k] \in 2 .. v.spf * 128 - 1
      /\ NextCluster(v, Last(s)) >= EndOfChain
  BY Numbers DEF Sound
<1> HIDE DEF s
<1>3. s \in Seq(Nat) /\ Len(s) \in Nat /\ Len(s) >= 1 /\ s[1] = c /\ DOMAIN s = 1 .. Len(s)
  BY <1>1 DEF Linked
<1>4. v.spf * 128 \in Nat
  BY WellFormedGeometry DEF Geometry
<1>8. Len(s) \in Nat
  BY <1>3
<1>5. ASSUME NEW k \in 1 .. Len(s) PROVE NextCluster(v, s[k]) >= EndOfChain <=> k = Len(s)
  <2>1. CASE k = Len(s)
    BY <1>2, <1>3, <2>1 DEF Last
  <2>2. CASE k # Len(s)
    <3>1. k \in 1 .. Len(s) - 1
      BY <1>8, <2>2
    <3>2. NextCluster(v, s[k]) \in Nat
      BY NextClusterType
    <3>3. s[k + 1] = NextCluster(v, s[k]) /\ s[k + 1] < EndOfChain
      BY <1>1, <3>1 DEF Linked
    <3> HIDE DEF s
    <3> QED BY <2>2, <3>2, <3>3, Numbers
  <2> QED BY <2>1, <2>2
<1>6. \A k \in 1 .. Len(s) : s[k] \in Nat /\ s[k] >= 2 /\ s[k] < v.spf * 128
  BY <1>2, <1>3, <1>4
<1>7. \A k \in 1 .. Len(s) - 1 : s[k + 1] = NextCluster(v, s[k])
  BY <1>1 DEF Linked
<1> QED BY <1>3, <1>5, <1>6, <1>7 DEF s

-----------------------------------------------------------------------------
(* Sectors *)

Data(c) == [kind |-> "data", cluster |-> c, part |-> 0]

LEMMA DataSector ==
  ASSUME NEW v, WellFormed(v), NEW c \in Nat, c >= 2
  PROVE  SectorAt(v, ClusterBegin(v) + (c - 2) * v.spc) = Data(c)
<1> DEFINE lba == ClusterBegin(v) + (c - 2) * v.spc
           size == v.fats * v.spf
<1>1. Geometry(v)
  BY WellFormedGeometry
<1>2. size \in Nat
  BY <1>1 DEF Geometry
<1>3. /\ lba = v.lba + v.reserved + size + (c - 2)
      /\ lba - FatBegin(v) = size + (c - 2) /\ lba - ClusterBegin(v) = c - 2
  BY <1>1, <1>2 DEF Geometry, ClusterBegin, FatBegin
<1> HIDE DEF lba, size
<1>4. lba # 0 /\ lba # v.lba /\ ~(lba - FatBegin(v) \in 0 .. size - 1) /\ lba - ClusterBegin(v) >= 0
  BY <1>1, <1>2, <1>3 DEF Geometry
<1>5. 2 + (lba - ClusterBegin(v)) \div v.spc = c /\ (lba - ClusterBegin(v)) % v.spc = 0
  <2>1. (c - 2) \div 1 = c - 2 /\ (c - 2) % 1 = 0
    OBVIOUS
  <2> QED BY <1>1, <1>3, <2>1 DEF Geometry
<1>6. SectorAt(v, lba) = [kind |-> "data", cluster |-> 2 + (lba - ClusterBegin(v)) \div v.spc,
                          part |-> (lba - ClusterBegin(v)) % v.spc]
  BY <1>4 DEF SectorAt, size
<1> QED BY <1>5, <1>6 DEF Data, lba

LEMMA ModOfSmaller == ASSUME NEW x \in Nat, NEW y \in Nat, x < y PROVE x % y = x
  OBVIOUS

LEMMA AtLeast == ASSUME NEW x \in Nat, NEW y \in Nat, x > 0 PROVE x * y \in Nat /\ x * y >= y
  OBVIOUS

LEMMA WordPlace ==
  ASSUME NEW c \in Nat
  PROVE  /\ c \div 128 \in Nat /\ c % 128 \in Nat /\ c % 128 < 128
         /\ (c \div 128) * 128 + (c % 128) = c
  OBVIOUS

\* The word of a cluster is found in the first FAT.
LEMMA FatWord ==
  ASSUME NEW v, WellFormed(v), NEW c \in Nat, c < v.spf * 128
  PROVE  WordOf(v, SectorAt(v, FatBegin(v) + c \div 128), c % 128) = FatEntry(v, c)
<1> DEFINE part == c \div 128
           lba == FatBegin(v) + part
           size == v.fats * v.spf
<1>1. Geometry(v)
  BY WellFormedGeometry
<1>2. part \in Nat /\ part * 128 + (c % 128) = c /\ c % 128 \in Nat /\ c % 128 < 128
  BY WordPlace
<1> HIDE DEF part
<1>3. part < v.spf
  BY <1>1, <1>2 DEF Geometry
<1>4. size \in Nat /\ size >= v.spf
  BY <1>1, AtLeast DEF Geometry
<1>5. part % v.spf = part
  BY <1>1, <1>2, <1>3, ModOfSmaller DEF Geometry
<1> HIDE DEF size
<1>6. /\ lba # 0 /\ lba # v.lba /\ lba - FatBegin(v) = part /\ part \in 0 .. size - 1
      /\ ~(lba - ClusterBegin(v) >= 0)
  BY <1>1, <1>2, <1>3, <1>4 DEF Geometry, FatBegin, ClusterBegin, size
<1> HIDE DEF lba
<1>7. SectorAt(v, lba) = [kind |-> "fat", cluster |-> 0, part |-> part % v.spf]
  BY <1>6 DEF SectorAt, size
<1>8. WordOf(v, SectorAt(v, lba), c % 128) = FatEntry(v, part * 128 + (c % 128))
  BY <1>5, <1>7, Numbers DEF WordOf
<1> QED BY <1>2, <1>8 DEF lba, part

LEMMA SectorsOfChain ==
  ASSUME NEW v, WellFormed(v), NEW c \in Nat
  PROVE  ChainSectors(v, c) = [k \in 1 .. Len(Chain(v, c)) |-> Data(Chain(v, c)[k])]
<1> DEFINE s == Chain(v, c)
<1>1. v.spc = 1
  BY WellFormedGeometry DEF Geometry
<1>2. Len(s) \in Nat
  BY ChainLinked DEF Linked
<1> HIDE DEF s
<1>3. ChainSectors(v, c) =
        [k \in 1 .. 1 * Len(s) |->
           [kind |-> "data", cluster |-> s[(k - 1) \div 1 + 1], part |-> (k - 1) % 1]]
  BY <1>1 DEF ChainSectors, s
<1>4. 1 * Len(s) = Len(s)
  BY <1>2
<1>5. ASSUME NEW k \in 1 .. Len(s)
      PROVE  [kind |-> "data", cluster |-> s[(k - 1) \div 1 + 1], part |-> (k - 1) % 1] = Data(s[k])
  <2>1. (k - 1) \div 1 + 1 = k /\ (k - 1) % 1 = 0
    OBVIOUS
  <2> QED BY <2>1 DEF Data
<1> QED BY <1>3, <1>4, <1>5 DEF s

-----------------------------------------------------------------------------
(* The root directory *)

\* What FlattenSeq() has after i turns when f is what it has after fewer.
Join(f, seqs, i) == IF i = 1 THEN seqs[i] ELSE f[i - 1] \o seqs[i]

IsJoined(f, seqs, N) == f = [i \in 1 .. N |-> Join(f, seqs, i)]

LEMMA JoinDefined ==
  ASSUME NEW N \in Nat, NEW seqs
  PROVE  \E f : IsJoined(f, seqs, N)
<1> DEFINE Wrong == {m \in Nat : ~\E f : f = [i \in 1 .. m |-> Join(f, seqs, i)]}
<1>1. ASSUME Wrong # {} PROVE FALSE
  <2>1. PICK m \in Wrong : \A n \in Wrong : m <= n
    <3>1. Wrong \in SUBSET Nat
      OBVIOUS
    <3> HIDE DEF Wrong
    <3> QED BY <1>1, <3>1, LeastIn
  <2>2. CASE m = 0
    <3> DEFINE g == [k \in 1 .. 0 |-> 0]
    <3>1. g = [k \in 1 .. 0 |-> Join(g, seqs, k)]
      OBVIOUS
    <3> QED BY <2>1, <2>2, <3>1
  <2>3. CASE m # 0
    <3>1. m - 1 \in Nat /\ m - 1 \notin Wrong
      BY <2>1, <2>3
    <3>2. PICK f : f = [k \in 1 .. m - 1 |-> Join(f, seqs, k)]
      BY <3>1
    <3> DEFINE g == [k \in 1 .. m |-> IF k = m THEN Join(f, seqs, m) ELSE f[k]]
    <3>3. ASSUME NEW k \in 1 .. m PROVE g[k] = Join(g, seqs, k)
      <4>1. k # 1 => k - 1 \in 1 .. m - 1 /\ g[k - 1] = f[k - 1]
        BY <2>1, <2>3
      <4>2. Join(g, seqs, k) = Join(f, seqs, k)
        <5> HIDE DEF g
        <5> QED BY <4>1 DEF Join
      <4>3. CASE k = m
        BY <4>2, <4>3
      <4>4. CASE k # m
        <5>1. k \in 1 .. m - 1
          BY <2>1, <4>4
        <5>2. f[k] = Join(f, seqs, k)
          BY <3>2, <5>1
        <5> QED BY <4>2, <4>4, <5>2
      <4> QED BY <4>3, <4>4
    <3>4. g = [k \in 1 .. m |-> Join(g, seqs, k)]
      <4>1. g = [k \in 1 .. m |-> g[k]]
        OBVIOUS
      <4> HIDE DEF g
      <4> QED BY <3>3, <4>1
    <3> HIDE DEF g
    <3> QED BY <2>1, <3>4
  <2> QED BY <2>2, <2>3
<1> QED BY <1>1 DEF IsJoined

\* The first n of the sequences, each of the 16 entries of a sector, in a row.
Blocks(s, seqs, n) ==
  /\ s \in Seq(Entries) /\ Len(s) = 16 * n
  /\ \A k \in 1 .. n : \A i \in 1 .. 16 : s[16 * (k - 1) + i] = seqs[k][i]

LEMMA FlattenBlocks ==
  ASSUME NEW seqs \in Seq(Seq(Entries)), Len(seqs) >= 1,
         \A k \in 1 .. Len(seqs) : Len(seqs[k]) = 16
  PROVE  Blocks(FlattenSeq(seqs), seqs, Len(seqs))
<1> DEFINE N == Len(seqs)
<1>1. N \in Nat /\ N >= 1 /\ \A k \in 1 .. N : seqs[k] \in Seq(Entries) /\ Len(seqs[k]) = 16
  OBVIOUS
<1>2. PICK f : f = [i \in 1 .. N |-> Join(f, seqs, i)] /\ FlattenSeq(seqs) = f[N]
  <2>1. \E f : IsJoined(f, seqs, N)
    BY <1>1, JoinDefined
  <2>2. Len(seqs) # 0
    BY <1>1
  <2> QED BY <2>1, <2>2 DEF IsJoined, FlattenSeq, Join
<1> HIDE DEF N
<1>3. Blocks(f[1], seqs, 1)
  <2>1. 1 \in 1 .. N
    BY <1>1
  <2>2. f[1] = seqs[1]
    BY <1>2, <2>1 DEF Join
  <2>3. \A i \in 1 .. 16 : 16 * (1 - 1) + i = i
    OBVIOUS
  <2>4. seqs[1] \in Seq(Entries) /\ Len(seqs[1]) = 16 * 1
    BY <1>1, <2>1
  <2>5. \A k \in 1 .. 1 : k = 1
    OBVIOUS
  <2> QED BY <2>2, <2>3, <2>4, <2>5 DEF Blocks
<1>4. ASSUME NEW n \in 2 .. N, Blocks(f[n - 1], seqs, n - 1) PROVE Blocks(f[n], seqs, n)
  <2> DEFINE a == f[n - 1]
             b == seqs[n]
  <2>1. n \in 1 .. N /\ n # 1
    BY <1>1
  <2>2. f[n] = a \o b
    BY <1>2, <2>1 DEF Join
  <2>3. a \in Seq(Entries) /\ Len(a) = 16 * (n - 1) /\ b \in Seq(Entries) /\ Len(b) = 16
    BY <1>1, <1>4, <2>1 DEF Blocks
  <2>6. \A k \in 1 .. n - 1 : \A i \in 1 .. 16 : a[16 * (k - 1) + i] = seqs[k][i]
    BY <1>4 DEF Blocks
  <2> HIDE DEF a
  <2>4. f[n] \in Seq(Entries) /\ Len(f[n]) = 16 * n
    <3> HIDE DEF b
    <3>1. a \o b \in Seq(Entries) /\ Len(a \o b) = Len(a) + Len(b)
      BY <2>3, ConcatProperties
    <3> QED BY <2>1, <2>2, <2>3, <3>1
  <2>5. ASSUME NEW k \in 1 .. n, NEW i \in 1 .. 16 PROVE f[n][16 * (k - 1) + i] = seqs[k][i]
    <3> DEFINE p == 16 * (k - 1) + i
    <3>1. p \in 1 .. 16 * n
      BY <2>1
    <3>2. (a \o b)[p] = IF p <= Len(a) THEN a[p] ELSE b[p - Len(a)]
      <4> HIDE DEF b, p
      <4>1. p \in 1 .. Len(a) + Len(b)
        BY <2>1, <2>3, <3>1
      <4> QED BY <2>3, <4>1, ConcatProperties
    <3>3. CASE k = n
      <4>1. ~(p <= Len(a)) /\ p - Len(a) = i
        BY <2>1, <2>3, <3>3
      <4> QED BY <2>2, <3>2, <3>3, <4>1
    <3>4. CASE k # n
      <4>1. k \in 1 .. n - 1 /\ p <= Len(a)
        BY <2>1, <2>3, <3>4
      <4> QED BY <2>2, <2>6, <3>2, <4>1
    <3> QED BY <3>3, <3>4
  <2> QED BY <2>4, <2>5 DEF Blocks
<1> DEFINE Wrong == {n \in 1 .. N : ~Blocks(f[n], seqs, n)}
<1>5. ASSUME Wrong # {} PROVE FALSE
  <2>1. Wrong \in SUBSET Nat
    OBVIOUS
  <2>2. PICK n \in Wrong : \A m \in Wrong : n <= m
    <3> HIDE DEF Wrong
    <3> QED BY <1>5, <2>1, LeastIn
  <2>3. n # 1
    BY <1>3, <2>2
  <2>4. n \in 2 .. N /\ n - 1 \in 1 .. N /\ ~(n <= n - 1)
    BY <1>1, <2>2, <2>3
  <2>5. Blocks(f[n - 1], seqs, n - 1)
    BY <2>2, <2>4
  <2> QED BY <1>4, <2>2, <2>4, <2>5
<1>6. N \in 1 .. N
  BY <1>1
<1> QED BY <1>2, <1>5, <1>6 DEF N

LEMMA EntriesType ==
  ASSUME NEW v, WellFormed(v), NEW sector
  PROVE  /\ EntriesOf(v, sector) \in Seq(Entries) /\ Len(EntriesOf(v, sector)) = 16
         /\ DOMAIN EntriesOf(v, sector) = 1 .. 16
<1>1. NoEntry \in Entries
  <2>1. [i \in 1 .. NameSize |-> "0"] \in [1 .. NameSize -> Characters]
    BY NameAssumption
  <2> QED BY <2>1 DEF NoEntry, Entries
<1> DEFINE at == <<sector.cluster, sector.part>>
           some == IF sector.kind = "data" /\ at \in DOMAIN v.dir THEN v.dir[at] ELSE <<>>
<1>2. some \in Seq(Entries)
  BY DEF WellFormed
<1>3. EntriesOf(v, sector) = [i \in 1 .. 16 |-> IF i <= Len(some) THEN some[i] ELSE NoEntry]
  BY Numbers DEF EntriesOf
<1> HIDE DEF some
<1>4. \A i \in 1 .. 16 : (IF i <= Len(some) THEN some[i] ELSE NoEntry) \in Entries
  BY <1>1, <1>2
<1> QED BY <1>3, <1>4

\* The root directory is the sectors of its chain in a row.
LEMMA RootFacts ==
  ASSUME NEW v, WellFormed(v)
  PROVE  LET root == Chain(v, v.root)
             all == RootEntries(v)
         IN  /\ all \in Seq(Entries) /\ Len(all) = 16 * Len(root) /\ DOMAIN all = 1 .. 16 * Len(root)
             /\ \A k \in 1 .. Len(root) : \A i \in 1 .. 16 :
                  all[16 * (k - 1) + i] = EntriesOf(v, Data(root[k]))[i]
<1> DEFINE root == Chain(v, v.root)
           sectors == ChainSectors(v, v.root)
           seqs == [k \in DOMAIN sectors |-> EntriesOf(v, sectors[k])]
<1>1. Len(root) \in Nat /\ Len(root) >= 1
  <2>1. v.root \in Nat /\ Sound(v, v.root)
    BY DEF WellFormed
  <2> QED BY <2>1, SoundChain
<1>2. sectors = [k \in 1 .. Len(root) |-> Data(root[k])]
  <2>1. v.root \in Nat
    BY DEF WellFormed
  <2> QED BY <2>1, SectorsOfChain
<1> HIDE DEF root, sectors
<1>3. seqs = [k \in 1 .. Len(root) |-> EntriesOf(v, Data(root[k]))]
  BY <1>2
<1>4. seqs \in Seq(Seq(Entries)) /\ Len(seqs) = Len(root)
      /\ \A k \in 1 .. Len(seqs) : Len(seqs[k]) = 16
  <2> HIDE DEF seqs
  <2>1. \A k \in 1 .. Len(root) : EntriesOf(v, Data(root[k])) \in Seq(Entries)
                                  /\ Len(EntriesOf(v, Data(root[k]))) = 16
    BY EntriesType
  <2>2. seqs \in Seq(Seq(Entries)) /\ Len(seqs) = Len(root)
    BY <1>1, <1>3, <2>1
  <2> QED BY <1>3, <2>1, <2>2
<1>5. RootEntries(v) = FlattenSeq(seqs)
  BY DEF RootEntries, sectors
<1> HIDE DEF seqs
<1>6. Blocks(RootEntries(v), seqs, Len(root))
  BY <1>1, <1>4, <1>5, FlattenBlocks
<1>7. \A k \in 1 .. Len(root) : seqs[k] = EntriesOf(v, Data(root[k]))
  BY <1>3
<1>8. RootEntries(v) \in Seq(Entries) /\ Len(RootEntries(v)) = 16 * Len(root)
  BY <1>6 DEF Blocks
<1>9. DOMAIN RootEntries(v) = 1 .. 16 * Len(root)
  BY <1>8
<1> QED BY <1>6, <1>7, <1>8, <1>9 DEF Blocks, root

\* The k-th sector has the first of a set of places: at those its entries are found.
FirstBlock(S, k, found) ==
  /\ S \in SUBSET Nat /\ k \in Nat /\ k >= 1 /\ \A j \in S : j > 16 * (k - 1)
  /\ found \in SUBSET (1 .. 16) /\ found # {}
  /\ \A i \in 1 .. 16 : i \in found <=> 16 * (k - 1) + i \in S

LEMMA FirstInBlock ==
  ASSUME NEW S, NEW k, NEW found, FirstBlock(S, k, found)
  PROVE  /\ Min(found) \in 1 .. 16 /\ 16 * (k - 1) + Min(found) \in S
         /\ Min(S) = 16 * (k - 1) + Min(found)
<1>0. /\ S \in SUBSET Nat /\ k \in Nat /\ k >= 1 /\ \A j \in S : j > 16 * (k - 1)
      /\ found \in SUBSET (1 .. 16) /\ found # {}
      /\ \A i \in 1 .. 16 : i \in found <=> 16 * (k - 1) + i \in S
  BY DEF FirstBlock
<1>1. found \in SUBSET Nat
  BY <1>0
<1>2. Min(found) \in found /\ \A i \in found : Min(found) <= i
  BY <1>0, <1>1, MinOf
<1> DEFINE m == Min(found)
<1> HIDE DEF m
<1>3. m \in 1 .. 16 /\ 16 * (k - 1) + m \in S
  BY <1>0, <1>2 DEF m
<1>4. ASSUME NEW j \in S PROVE 16 * (k - 1) + m <= j
  <2>1. CASE j <= 16 * k
    <3>1. j - 16 * (k - 1) \in 1 .. 16 /\ 16 * (k - 1) + (j - 16 * (k - 1)) = j
      BY <1>0, <2>1
    <3>2. j - 16 * (k - 1) \in found
      BY <1>0, <3>1
    <3>3. m <= j - 16 * (k - 1)
      BY <1>2, <3>2 DEF m
    <3> QED BY <1>0, <1>3, <3>3
  <2>2. CASE ~(j <= 16 * k)
    BY <1>0, <1>3, <2>2
  <2> QED BY <2>1, <2>2
<1>5. Min(S) = 16 * (k - 1) + m
  BY <1>0, <1>3, <1>4, MinIs
<1> QED BY <1>3, <1>5 DEF m

-----------------------------------------------------------------------------
(* The boot loader *)

LEMMA VolumeFacts ==
  ASSUME disk \in Volumes
  PROVE  /\ WellFormed(disk) /\ Bootable(disk) /\ Near(disk, disk.root)
         /\ disk.root \in Nat /\ Sound(disk, disk.root) /\ Geometry(disk)
<1>1. WellFormed(disk) /\ Bootable(disk) /\ Near(disk, disk.root)
  BY StartupAssumption
<1>2. disk.root \in Nat /\ Sound(disk, disk.root)
  BY <1>1 DEF WellFormed
<1> QED BY <1>1, <1>2, WellFormedGeometry

RootChain == Chain(disk, disk.root)

\* The search is in the k-th cluster of the root directory, and the file is in none before.
Searching(nm) ==
  \E k \in 1 .. Len(RootChain) :
    /\ current_cluster = RootChain[k] /\ list = EntriesOf(disk, Data(RootChain[k]))
    /\ \A i \in Named(nm) : i > 16 * (k - 1)

\* The first k sectors of the file are in memory.
LoadedUpTo(chain, k) == loaded = [j \in 1 .. k |-> Data(chain[j])]

Loading(nm) ==
  /\ Named(nm) # {}
  /\ \E k \in 1 .. Len(Chain(disk, FirstNamed(nm))) :
       /\ current_cluster = Chain(disk, FirstNamed(nm))[k]
       /\ LoadedUpTo(Chain(disk, FirstNamed(nm)), k)

BootInv ==
  /\ disk \in Volumes
  /\ stage # "start" => fat_begin_lba = FatBegin(disk) /\ cluster_begin_lba = ClusterBegin(disk)
  /\ stage = "search 1" => Searching(Stage2Name)
  /\ stage = "load 1" => Loading(Stage2Name)
  /\ stage = "search 2" => list = EntriesOf(disk, Data(disk.root))
  /\ stage = "load 2" => Loading(KernelName)
  /\ LoadsWhole /\ HaltsWithoutFile

\* The BIOS reads the one sector of a cluster.
LEMMA BiosReads ==
  ASSUME disk \in Volumes, NEW c \in Nat, c >= 2
  PROVE  LET lba == ClusterBegin(disk) + (c - 2) * disk.spc
         IN  /\ SectorAt(disk, lba) = Data(c)
             /\ BiosRead(lba) = <<Data(c)>>
             /\ BiosList(lba) = EntriesOf(disk, Data(c))
<1> DEFINE lba == ClusterBegin(disk) + (c - 2) * disk.spc
<1>1. WellFormed(disk) /\ disk.spc = 1
  BY VolumeFacts DEF Geometry
<1>2. SectorAt(disk, lba) = Data(c)
  BY <1>1, DataSector
<1>3. lba \in Int
  <2>1. Geometry(disk)
    BY VolumeFacts
  <2>2. disk.fats * disk.spf \in Nat
    BY <2>1 DEF Geometry
  <2> QED BY <2>1, <2>2 DEF Geometry, ClusterBegin, FatBegin
<1> HIDE DEF lba
<1>4. BiosRead(lba) = <<Data(c)>>
  <2>1. \A k \in 1 .. 1 : lba + k - 1 = lba
    BY <1>3
  <2>2. BiosRead(lba) = [k \in 1 .. 1 |-> Data(c)]
    BY <1>1, <1>2, <2>1 DEF BiosRead
  <2> QED BY <2>2
<1>5. BiosList(lba) = EntriesOf(disk, Data(c))
  <2> DEFINE e == EntriesOf(disk, Data(c))
             seqs == [k \in 1 .. disk.spc |-> EntriesOf(disk, BiosRead(lba)[k])]
  <2>1. e \in Seq(Entries) /\ Len(e) = 16
    BY <1>1, EntriesType
  <2>2. seqs = [k \in 1 .. 1 |-> e]
    BY <1>1, <1>4
  <2> HIDE DEF e, seqs
  <2>3. seqs \in Seq(Seq(Entries)) /\ Len(seqs) = 1 /\ seqs[1] = e
    BY <2>1, <2>2
  <2>4. \A k \in 1 .. Len(seqs) : Len(seqs[k]) = 16
    BY <2>1, <2>3
  <2>5. Blocks(FlattenSeq(seqs), seqs, 1)
    <3>1. Len(seqs) >= 1
      BY <2>3
    <3>2. Blocks(FlattenSeq(seqs), seqs, Len(seqs))
      BY <2>3, <2>4, <3>1, FlattenBlocks
    <3> QED BY <2>3, <3>2
  <2>6. FlattenSeq(seqs) \in Seq(Entries) /\ Len(FlattenSeq(seqs)) = 16
        /\ \A i \in 1 .. 16 : FlattenSeq(seqs)[i] = e[i]
    <3>1. 1 \in 1 .. 1 /\ \A i \in 1 .. 16 : 16 * (1 - 1) + i = i
      OBVIOUS
    <3> QED BY <2>3, <2>5, <3>1 DEF Blocks
  <2>7. FlattenSeq(seqs) = e
    BY <2>1, <2>6, SeqEqual
  <2> QED BY <2>7 DEF BiosList, seqs, e
<1> QED BY <1>2, <1>4, <1>5 DEF lba

\* getNextCluster reads the next cluster of a chain, with its own arithmetic.
LEMMA NextRead ==
  ASSUME disk \in Volumes, fat_begin_lba = FatBegin(disk), NEW c \in Nat, c < disk.spf * 128
  PROVE  getNextCluster(c) = NextCluster(disk, c)
<1>1. WordOf(disk, SectorAt(disk, FatBegin(disk) + c \div 128), c % 128) = FatEntry(disk, c)
  BY VolumeFacts, FatWord
<1>2. FatPlace(c).lba = FatBegin(disk) + c \div 128 /\ FatPlace(c).word = c % 128
  BY Numbers DEF FatPlace
<1> QED BY <1>1, <1>2 DEF getNextCluster, NextCluster

\* Where the files with a name are among the entries in the search buffer.
LEMMA MatchingPlaces ==
  ASSUME disk \in Volumes, NEW nm, NEW k \in 1 .. Len(RootChain),
         list = EntriesOf(disk, Data(RootChain[k]))
  PROVE  /\ Matching(nm) = {i \in 1 .. 16 : 16 * (k - 1) + i \in Named(nm)}
         /\ \A i \in 1 .. 16 : list[i] = RootEntries(disk)[16 * (k - 1) + i]
         /\ Named(nm) \in SUBSET Nat /\ \A i \in Named(nm) : i <= 16 * Len(RootChain)
<1> DEFINE n == Len(RootChain)
           all == RootEntries(disk)
<1>1. WellFormed(disk) /\ disk.spc = 1 /\ n \in Nat
  BY VolumeFacts, SoundChain DEF Geometry, RootChain
<1>2. /\ DOMAIN all = 1 .. 16 * n
      /\ \A i \in 1 .. 16 : all[16 * (k - 1) + i] = list[i]
  BY <1>1, RootFacts DEF RootChain
<1>3. DOMAIN list = 1 .. 16
  BY <1>1, EntriesType
<1>4. EntriesSearched = 16
  BY <1>1, Numbers DEF EntriesSearched
<1> HIDE DEF n, all
<1>5. \A i \in 1 .. 16 : 16 * (k - 1) + i \in 1 .. 16 * n
  BY <1>1 DEF n
<1>6. Named(nm) = {j \in 1 .. 16 * n : all[j].name = nm}
  BY <1>2 DEF Named, all
<1>7. Matching(nm) = {i \in 1 .. 16 : list[i].name = nm}
  BY <1>3, <1>4 DEF Matching
<1>8. Matching(nm) = {i \in 1 .. 16 : 16 * (k - 1) + i \in Named(nm)}
  BY <1>2, <1>5, <1>6, <1>7
<1> QED BY <1>1, <1>2, <1>6, <1>8 DEF n, all

\* The first match of a search is the file's first entry in the directory.
LEMMA FirstClusterType == ASSUME NEW e \in Entries PROVE FirstCluster(e) \in Nat
<1>1. e.high \in Nat /\ e.low \in Nat
  BY DEF Entries
<1> QED BY <1>1, SMT DEF FirstCluster

LEMMA FoundFirst ==
  ASSUME disk \in Volumes, NEW nm \in {Stage2Name, KernelName}, NEW k \in 1 .. Len(RootChain),
         list = EntriesOf(disk, Data(RootChain[k])), Matching(nm) # {},
         \A i \in Named(nm) : i > 16 * (k - 1)
  PROVE  /\ Named(nm) # {} /\ ClusterOf(list[Min(Matching(nm))]) = FirstNamed(nm)
         /\ FirstNamed(nm) \in Nat /\ Sound(disk, FirstNamed(nm))
<1> DEFINE S == Named(nm)
           m == Min(Matching(nm))
<1>1. /\ Matching(nm) = {i \in 1 .. 16 : 16 * (k - 1) + i \in S}
      /\ \A i \in 1 .. 16 : list[i] = RootEntries(disk)[16 * (k - 1) + i]
      /\ S \in SUBSET Nat
  BY MatchingPlaces
<1>2. m \in 1 .. 16 /\ 16 * (k - 1) + m \in S /\ Min(S) = 16 * (k - 1) + m
  <2> HIDE DEF S
  <2>1. k \in Nat /\ k >= 1 /\ \A i \in S : i > 16 * (k - 1)
    BY DEF S
  <2> DEFINE found == Matching(nm)
  <2>2. found \in SUBSET (1 .. 16) /\ \A i \in 1 .. 16 : i \in found <=> 16 * (k - 1) + i \in S
    BY <1>1
  <2>3. found # {} /\ S \in SUBSET Nat
    BY <1>1
  <2> HIDE DEF found
  <2>4. Min(found) \in 1 .. 16 /\ 16 * (k - 1) + Min(found) \in S /\ Min(S) = 16 * (k - 1) + Min(found)
    <3>1. FirstBlock(S, k, found)
      BY <2>1, <2>2, <2>3 DEF FirstBlock
    <3> QED BY <3>1, FirstInBlock
  <2> QED BY <2>4 DEF found
<1> HIDE DEF m
<1>3. list[m] = RootEntries(disk)[Min(S)] /\ Min(S) \in S
  BY <1>1, <1>2
<1>4. FirstNamed(nm) = FirstCluster(RootEntries(disk)[Min(S)])
  BY DEF FirstNamed
<1>5. Min(S) \in DOMAIN RootEntries(disk) /\ RootEntries(disk)[Min(S)].name = nm
  <2>1. PICK x : x = Min(S)
    OBVIOUS
  <2>2. x \in DOMAIN RootEntries(disk) /\ RootEntries(disk)[x].name = nm
    BY <1>3, <2>1 DEF Named
  <2> QED BY <2>1, <2>2
<1>6. Sound(disk, FirstNamed(nm))
  BY <1>4, <1>5, VolumeFacts DEF Bootable
<1>7. RootEntries(disk)[Min(S)] \in Entries
  <2>1. RootEntries(disk) \in Seq(Entries)
    BY VolumeFacts, RootFacts
  <2> HIDE DEF S
  <2> QED BY <1>5, <2>1
<1>8. FirstNamed(nm) \in Nat
  BY <1>4, <1>7, FirstClusterType
<1> QED BY <1>3, <1>4, <1>6, <1>8 DEF ClusterOf, FirstCluster, m

\* A file of the boot loader that is there has a sound chain.
LEMMA NamedSound ==
  ASSUME disk \in Volumes, NEW nm \in {Stage2Name, KernelName}, Named(nm) # {}
  PROVE  FirstNamed(nm) \in Nat /\ Sound(disk, FirstNamed(nm))
<1> DEFINE all == RootEntries(disk)
           m == Min(Named(nm))
<1>1. all \in Seq(Entries) /\ DOMAIN all \in SUBSET Nat
  BY VolumeFacts, RootFacts
<1>2. Named(nm) \in SUBSET Nat
  BY <1>1 DEF Named
<1>3. m \in Named(nm)
  BY <1>2, MinOf
<1> HIDE DEF m
<1>4. m \in DOMAIN all /\ all[m].name = nm
  BY <1>3 DEF Named
<1> HIDE DEF all
<1>5. all[m] \in Entries
  BY <1>1, <1>4
<1>6. all[m].high \in Nat /\ all[m].low \in Nat
  BY <1>5 DEF Entries
<1>7. FirstNamed(nm) = FirstCluster(all[m])
  BY DEF FirstNamed, all, m
<1>8. Sound(disk, FirstCluster(all[m]))
  BY <1>4, VolumeFacts DEF Bootable, all
<1> QED BY <1>6, <1>7, <1>8 DEF FirstCluster

LEMMA DiskKept ==
  ASSUME disk' = disk, NEW nm
  PROVE  Named(nm)' = Named(nm) /\ FirstNamed(nm)' = FirstNamed(nm) /\ RootChain' = RootChain
BY DEF Named, FirstNamed, RootChain

\* Reading goes on by one sector.
LEMMA OneMoreSector ==
  ASSUME NEW s, NEW k \in Nat
  PROVE  LET a == [j \in 1 .. k |-> Data(s[j])]
             b == [j \in 1 .. k + 1 |-> Data(s[j])]
             d == Data(s[k + 1])
         IN  Append(a, d) = b /\ a \o <<d>> = b /\ Len(a) = k /\ Len(b) = k + 1
<1> DEFINE T == {Data(s[j]) : j \in 1 .. k + 1}
           a == [j \in 1 .. k |-> Data(s[j])]
           b == [j \in 1 .. k + 1 |-> Data(s[j])]
           d == Data(s[k + 1])
<1>1. a \in Seq(T) /\ Len(a) = k /\ b \in Seq(T) /\ Len(b) = k + 1 /\ d \in T
  OBVIOUS
<1>2. \A j \in 1 .. k : a[j] = b[j]
  OBVIOUS
<1>3. b[k + 1] = d
  OBVIOUS
<1> HIDE DEF a, b, d, T
<1>4. /\ Append(a, d) \in Seq(T) /\ Len(Append(a, d)) = k + 1
      /\ \A j \in 1 .. k : Append(a, d)[j] = a[j]
      /\ Append(a, d)[k + 1] = d
  BY <1>1
<1>5. Append(a, d) = b
  <2>1. \A j \in 1 .. k + 1 : Append(a, d)[j] = b[j]
    <3> SUFFICES ASSUME NEW j \in 1 .. k + 1 PROVE Append(a, d)[j] = b[j]
      OBVIOUS
    <3>1. j = k + 1 \/ j \in 1 .. k
      OBVIOUS
    <3> QED BY <1>2, <1>3, <1>4, <3>1
  <2> QED BY <1>1, <1>4, <2>1, SeqEqual
<1>6. a \o <<d>> = Append(a, d)
  BY <1>1, AppendIsConcat
<1> QED BY <1>1, <1>5, <1>6 DEF a, b, d

LEMMA LoadStarts ==
  ASSUME disk \in Volumes, disk' = disk, NEW nm \in {Stage2Name, KernelName}, Named(nm) # {},
         current_cluster' = FirstNamed(nm), loaded' = <<Data(FirstNamed(nm))>>
  PROVE  Loading(nm)'
<1> DEFINE c == FirstNamed(nm)
           chain == Chain(disk, c)
<1>1. c \in Nat /\ Sound(disk, c) /\ WellFormed(disk)
  BY NamedSound, VolumeFacts
<1> HIDE DEF c
<1>2. Len(chain) \in Nat /\ Len(chain) >= 1 /\ chain[1] = c
  BY <1>1, SoundChain
<1> HIDE DEF chain
<1>3. 1 \in 1 .. Len(chain) /\ <<Data(c)>> = [j \in 1 .. 1 |-> Data(chain[j])]
  BY <1>2
<1>4. loaded' = [j \in 1 .. 1 |-> Data(chain[j])]
  BY <1>3 DEF c
<1>5. FirstNamed(nm)' = c /\ Named(nm)' # {} /\ Chain(disk, FirstNamed(nm))' = chain
  BY DiskKept DEF c, chain
<1>6. current_cluster' = chain[1]
  BY <1>2 DEF c
<1> QED BY <1>2, <1>3, <1>4, <1>5, <1>6 DEF Loading, LoadedUpTo

LEMMA LoadGoesOn ==
  ASSUME disk \in Volumes, disk' = disk, fat_begin_lba = FatBegin(disk),
         NEW nm \in {Stage2Name, KernelName}, Loading(nm)
  PROVE  LET next == getNextCluster(current_cluster)
         IN  /\ next \in Nat
             /\ next >= EndOfChain => loaded = ChainSectors(disk, FirstNamed(nm))
             /\ next < EndOfChain => next >= 2
             /\ /\ next < EndOfChain /\ current_cluster' = next
                /\ loaded' = Append(loaded, Data(next)) \/ loaded' = loaded \o <<Data(next)>>
                => Loading(nm)'
<1> DEFINE c == FirstNamed(nm)
           chain == Chain(disk, c)
           next == getNextCluster(current_cluster)
<1>1. c \in Nat /\ Sound(disk, c) /\ WellFormed(disk)
  BY NamedSound, VolumeFacts DEF Loading
<1>2. PICK k \in 1 .. Len(chain) : current_cluster = chain[k] /\ loaded = [j \in 1 .. k |-> Data(chain[j])]
  BY DEF Loading, LoadedUpTo
<1> HIDE DEF c
<1>3. /\ Len(chain) \in Nat /\ chain[k] \in Nat /\ chain[k] < disk.spf * 128
      /\ NextCluster(disk, chain[k]) >= EndOfChain <=> k = Len(chain)
      /\ k < Len(chain) => /\ chain[k + 1] = NextCluster(disk, chain[k])
                           /\ chain[k + 1] >= 2
  <2>1. /\ Len(chain) \in Nat
        /\ \A j \in 1 .. Len(chain) : chain[j] \in Nat /\ chain[j] >= 2 /\ chain[j] < disk.spf * 128
        /\ \A j \in 1 .. Len(chain) : NextCluster(disk, chain[j]) >= EndOfChain <=> j = Len(chain)
        /\ \A j \in 1 .. Len(chain) - 1 : chain[j + 1] = NextCluster(disk, chain[j])
    BY <1>1, SoundChain
  <2> HIDE DEF chain
  <2>2. k < Len(chain) => k \in 1 .. Len(chain) - 1 /\ k + 1 \in 1 .. Len(chain)
    BY <1>2, <2>1
  <2> QED BY <1>2, <2>1, <2>2
<1>4. next = NextCluster(disk, chain[k])
  <2> HIDE DEF chain
  <2> QED BY <1>2, <1>3, NextRead
<1>5. next \in Nat
  BY <1>1, <1>4, NextClusterType
<1>6. ASSUME next >= EndOfChain PROVE loaded = ChainSectors(disk, c)
  BY <1>1, <1>2, <1>3, <1>4, <1>6, SectorsOfChain
<1> HIDE DEF next
<1>7. next < EndOfChain => k < Len(chain)
  <2> HIDE DEF chain
  <2> QED BY <1>2, <1>3, <1>4, <1>5, Numbers
<1>8. next < EndOfChain => next = chain[k + 1] /\ next >= 2
  BY <1>3, <1>4, <1>7
<1>9. ASSUME next < EndOfChain, current_cluster' = next,
             loaded' = Append(loaded, Data(next)) \/ loaded' = loaded \o <<Data(next)>>
      PROVE  Loading(nm)'
  <2> HIDE DEF chain
  <2>1. next = chain[k + 1] /\ k + 1 \in 1 .. Len(chain) /\ k \in Nat
    BY <1>2, <1>3, <1>7, <1>8, <1>9
  <2>2. loaded' = [j \in 1 .. k + 1 |-> Data(chain[j])]
    <3>1. loaded = [j \in 1 .. k |-> Data(chain[j])]
      BY <1>2
    <3> QED BY <1>9, <2>1, <3>1, OneMoreSector
  <2>3. FirstNamed(nm)' = c /\ Named(nm)' # {} /\ Chain(disk, FirstNamed(nm))' = chain
    BY DiskKept DEF c, chain, Loading
  <2> QED BY <1>9, <2>1, <2>2, <2>3 DEF Loading, LoadedUpTo
<1> QED BY <1>5, <1>6, <1>8, <1>9 DEF next, c

LEMMA RootStart ==
  ASSUME disk \in Volumes, NEW nm
  PROVE  /\ 1 \in 1 .. Len(RootChain) /\ RootChain[1] = disk.root
         /\ \A i \in Named(nm) : i > 16 * (1 - 1)
<1>1. Len(RootChain) \in Nat /\ Len(RootChain) >= 1 /\ RootChain[1] = disk.root
  BY VolumeFacts, SoundChain DEF RootChain
<1>2. \A i \in Named(nm) : i > 16 * (1 - 1)
  <2>1. DOMAIN RootEntries(disk) = 1 .. 16 * Len(RootChain)
    BY VolumeFacts, RootFacts DEF RootChain
  <2> QED BY <1>1, <2>1 DEF Named
<1>3. 1 \in 1 .. Len(RootChain)
  BY <1>1
<1> QED BY <1>1, <1>2, <1>3

LEMMA SearchStarts ==
  ASSUME disk \in Volumes, disk' = disk, NEW nm, current_cluster' = disk.root,
         list' = EntriesOf(disk, Data(disk.root))
  PROVE  Searching(nm)'
BY RootStart, DiskKept DEF Searching

LEMMA SearchGoesOn ==
  ASSUME disk \in Volumes, disk' = disk, fat_begin_lba = FatBegin(disk),
         NEW nm, Searching(nm), Matching(nm) = {}
  PROVE  LET next == getNextCluster(current_cluster)
         IN  /\ next \in Nat
             /\ next >= EndOfChain => Named(nm) = {}
             /\ next < EndOfChain => next >= 2
             /\ /\ next < EndOfChain /\ current_cluster' = next
                /\ list' = EntriesOf(disk, Data(next))
                => Searching(nm)'
<1> DEFINE next == getNextCluster(current_cluster)
<1>1. PICK k \in 1 .. Len(RootChain) :
        /\ current_cluster = RootChain[k] /\ list = EntriesOf(disk, Data(RootChain[k]))
        /\ \A i \in Named(nm) : i > 16 * (k - 1)
  BY DEF Searching
<1>2. /\ Len(RootChain) \in Nat
      /\ \A j \in 1 .. Len(RootChain) :
           RootChain[j] \in Nat /\ RootChain[j] >= 2 /\ RootChain[j] < disk.spf * 128
      /\ \A j \in 1 .. Len(RootChain) : NextCluster(disk, RootChain[j]) >= EndOfChain <=> j = Len(RootChain)
      /\ \A j \in 1 .. Len(RootChain) - 1 : RootChain[j + 1] = NextCluster(disk, RootChain[j])
  <2>1. WellFormed(disk) /\ disk.root \in Nat /\ Sound(disk, disk.root)
    BY VolumeFacts
  <2> DEFINE c == disk.root
  <2> HIDE DEF c
  <2> DEFINE s == Chain(disk, c)
  <2>2. c \in Nat /\ Sound(disk, c) /\ WellFormed(disk)
    BY <2>1 DEF c
  <2>3. /\ Len(s) \in Nat
        /\ \A j \in 1 .. Len(s) : s[j] \in Nat /\ s[j] >= 2 /\ s[j] < disk.spf * 128
        /\ \A j \in 1 .. Len(s) : NextCluster(disk, s[j]) >= EndOfChain <=> j = Len(s)
        /\ \A j \in 1 .. Len(s) - 1 : s[j + 1] = NextCluster(disk, s[j])
    BY <2>2, SoundChain
  <2>4. RootChain = s
    BY DEF c, RootChain
  <2> HIDE DEF s
  <2> QED BY <2>3, <2>4
<1>3. next = NextCluster(disk, RootChain[k])
  BY <1>1, <1>2, NextRead
<1>4. next \in Nat
  BY <1>3, VolumeFacts, NextClusterType
<1>5. /\ Matching(nm) = {i \in 1 .. 16 : 16 * (k - 1) + i \in Named(nm)}
      /\ Named(nm) \in SUBSET Nat /\ \A i \in Named(nm) : i <= 16 * Len(RootChain)
  BY <1>1, MatchingPlaces
<1> HIDE DEF next
<1>6. ASSUME NEW i \in Named(nm) PROVE i > 16 * k
  <2>1. i \in Nat /\ i > 16 * (k - 1) /\ k \in Nat
    BY <1>1, <1>5
  <2>2. i <= 16 * k => i - 16 * (k - 1) \in 1 .. 16 /\ 16 * (k - 1) + (i - 16 * (k - 1)) = i
    BY <2>1
  <2>3. i <= 16 * k => i - 16 * (k - 1) \in Matching(nm)
    BY <1>5, <2>2
  <2> QED BY <2>1, <2>3
<1>7. ASSUME next >= EndOfChain PROVE Named(nm) = {}
  <2>1. k = Len(RootChain)
    BY <1>1, <1>2, <1>3, <1>7
  <2>2. ASSUME NEW i \in Named(nm) PROVE FALSE
    BY <1>2, <1>5, <1>6, <2>1
  <2> QED BY <2>2
<1>8. ASSUME next < EndOfChain
      PROVE  k + 1 \in 1 .. Len(RootChain) /\ RootChain[k + 1] = next /\ next >= 2
  <2>1. k # Len(RootChain)
    BY <1>2, <1>3, <1>4, <1>8, Numbers
  <2>2. k \in 1 .. Len(RootChain) - 1 /\ k + 1 \in 1 .. Len(RootChain)
    BY <1>1, <1>2, <2>1
  <2> QED BY <1>2, <1>3, <2>2
<1>9. ASSUME next < EndOfChain, current_cluster' = next, list' = EntriesOf(disk, Data(next))
      PROVE  Searching(nm)'
  <2>1. \A i \in Named(nm) : i > 16 * ((k + 1) - 1)
    <3>1. (k + 1) - 1 = k
      BY <1>1
    <3> QED BY <1>6, <3>1
  <2> QED BY <1>8, <1>9, <2>1, DiskKept DEF Searching
<1> QED BY <1>4, <1>7, <1>8, <1>9 DEF next

\* The 16-bit addition of stage 1.
LEMMA Stage1Begins ==
  ASSUME disk \in Volumes
  PROVE  (disk.lba \div 2^16) * 2^16 + ((disk.lba + disk.reserved) % 2^16) = FatBegin(disk)
<1> DEFINE l == disk.lba
           r == disk.reserved
           q == l \div 65536
           m == l % 65536
<1>1. l \in Nat /\ r \in Nat /\ m + r < 65536
  BY SMT, VolumeFacts DEF WellFormed, Geometry
<1> HIDE DEF l, r
<1>2. q \in Nat /\ m \in Nat /\ q * 65536 + m = l
  BY <1>1, SMT
<1> HIDE DEF q, m
<1>3. (l + r) % 65536 = m + r
  BY <1>1, <1>2, SMT
<1>4. (l \div 65536) * 65536 + ((l + r) % 65536) = l + r
  BY <1>1, <1>2, <1>3, SMT DEF q
<1> QED BY <1>4, SMT DEF FatBegin, l, r

LEMMA BootKeepsOthers ==
  ASSUME BootInv, UNCHANGED <<disk, boot_vars>>
  PROVE  BootInv'
<1>1. disk' = disk /\ stage' = stage /\ fat_begin_lba' = fat_begin_lba
      /\ cluster_begin_lba' = cluster_begin_lba /\ current_cluster' = current_cluster /\ list' = list
      /\ loaded' = loaded
  BY DEF boot_vars, begins
<1>2. ASSUME NEW nm
      PROVE  /\ Named(nm)' = Named(nm) /\ FirstNamed(nm)' = FirstNamed(nm)
             /\ Searching(nm)' = Searching(nm) /\ Loading(nm)' = Loading(nm)
  BY <1>1 DEF Searching, Loading, LoadedUpTo, RootChain, Named, FirstNamed
<1>3. LoadsWhole' /\ HaltsWithoutFile'
  BY <1>1, <1>2 DEF BootInv, LoadsWhole, HaltsWithoutFile
<1> QED BY <1>1, <1>2, <1>3 DEF BootInv

LEMMA FirstCluster2 ==
  ASSUME BootInv, stage = "search 2"
  PROVE  /\ 1 \in 1 .. Len(RootChain) /\ list = EntriesOf(disk, Data(RootChain[1]))
         /\ \A i \in Named(KernelName) : i > 16 * (1 - 1)
BY RootStart DEF BootInv

LEMMA BootStep ==
  ASSUME BootInv, BootNext
  PROVE  BootInv'
<1>0. disk \in Volumes /\ disk' = disk /\ disk.root \in Nat /\ disk.root >= 2
  <2>1. disk' = disk
    BY DEF BootNext, Stage1, Search1, NotFound1, oneMoreCluster1, Overrun1, done, readCluster,
           searchFile, notFound, oneMoreCluster2, loadelf
  <2>2. disk \in Volumes
    BY DEF BootInv
  <2>3. Chain(disk, disk.root)[1] = disk.root /\ Len(Chain(disk, disk.root)) \in Nat
        /\ Len(Chain(disk, disk.root)) >= 1 /\ Chain(disk, disk.root)[1] >= 2
    BY <2>2, VolumeFacts, SoundChain
  <2> QED BY <2>1, <2>2, <2>3, VolumeFacts
<1>1. \A c \in Nat : c >= 2 =>
        LET lba == ClusterBegin(disk) + (c - 2) * disk.spc
        IN  /\ SectorAt(disk, lba) = Data(c)
            /\ BiosRead(lba) = <<Data(c)>>
            /\ BiosList(lba) = EntriesOf(disk, Data(c))
  BY <1>0, BiosReads
<1>2. stage # "start" => /\ fat_begin_lba = FatBegin(disk)
                         /\ \A c \in Nat : c >= 2 => /\ SectorAt(disk, clusterLBA(c)) = Data(c)
                                                     /\ BiosRead(clusterLBA(c)) = <<Data(c)>>
                                                     /\ BiosList(clusterLBA(c)) = EntriesOf(disk, Data(c))
  BY <1>1 DEF BootInv, clusterLBA
<1>3. ASSUME begins' = begins, stage # "start"
      PROVE  fat_begin_lba' = FatBegin(disk)' /\ cluster_begin_lba' = ClusterBegin(disk)'
  BY <1>0, <1>3 DEF BootInv, begins, FatBegin, ClusterBegin
<1>4. CASE Stage1
  <2>1. fat_begin_lba' = FatBegin(disk) /\ cluster_begin_lba' = ClusterBegin(disk)
    BY <1>0, <1>4, Stage1Begins DEF Stage1, ClusterBegin
  <2>2. current_cluster' = disk.root /\ list' = EntriesOf(disk, Data(disk.root))
    BY <1>0, <1>1, <1>4, <2>1 DEF Stage1
  <2>3. Searching(Stage2Name)'
    BY <1>0, <2>2, SearchStarts
  <2>4. stage' = "search 1"
    BY <1>4 DEF Stage1
  <2>5. fat_begin_lba' = FatBegin(disk)' /\ cluster_begin_lba' = ClusterBegin(disk)'
    BY <1>0, <2>1 DEF FatBegin, ClusterBegin
  <2> QED BY <1>0, <2>3, <2>4, <2>5 DEF BootInv, LoadsWhole, HaltsWithoutFile
<1>5. CASE Search1
  <2>1. stage = "search 1" /\ Matching(Stage2Name) # {} /\ stage' = "load 1" /\ begins' = begins
        /\ Searching(Stage2Name)
    BY <1>5 DEF Search1, BootInv
  <2> DEFINE c == FirstNamed(Stage2Name)
  <2>2. PICK k \in 1 .. Len(RootChain) :
          /\ list = EntriesOf(disk, Data(RootChain[k]))
          /\ \A i \in Named(Stage2Name) : i > 16 * (k - 1)
    BY <2>1 DEF Searching
  <2>3. /\ Named(Stage2Name) # {} /\ ClusterOf(list[Min(Matching(Stage2Name))]) = c
        /\ c \in Nat /\ Sound(disk, c)
    BY <1>0, <2>1, <2>2, FoundFirst
  <2>4. c >= 2
    <3>1. Chain(disk, c)[1] = c /\ Len(Chain(disk, c)) \in Nat /\ Len(Chain(disk, c)) >= 1
          /\ \A j \in 1 .. Len(Chain(disk, c)) : Chain(disk, c)[j] >= 2
      BY <1>0, <2>3, VolumeFacts, SoundChain
    <3> QED BY <3>1
  <2>5. current_cluster' = c /\ loaded' = <<Data(c)>>
    BY <1>2, <1>5, <2>1, <2>3, <2>4 DEF Search1
  <2>6. Loading(Stage2Name)'
    BY <1>0, <2>3, <2>5, LoadStarts
  <2> QED BY <1>0, <1>3, <2>1, <2>6 DEF BootInv, LoadsWhole, HaltsWithoutFile
<1>6. CASE NotFound1
  <2>1. stage = "search 1" /\ Matching(Stage2Name) = {} /\ begins' = begins /\ Searching(Stage2Name)
    BY <1>6 DEF NotFound1, BootInv
  <2> DEFINE next == getNextCluster(current_cluster)
  <2>2. /\ next \in Nat
        /\ next >= EndOfChain => Named(Stage2Name) = {}
        /\ next < EndOfChain => next >= 2
        /\ /\ next < EndOfChain /\ current_cluster' = next
           /\ list' = EntriesOf(disk, Data(next))
           => Searching(Stage2Name)'
    BY <1>0, <1>2, <2>1, SearchGoesOn
  <2>3. CASE next < EndOfChain
    <3>1. current_cluster' = next /\ list' = BiosList(clusterLBA(next)) /\ stage' = stage
      <4>1. ~(next >= EndOfChain)
        BY <2>2, <2>3, Numbers
      <4> QED BY <1>6, <4>1 DEF NotFound1
    <3>2. BiosList(clusterLBA(next)) = EntriesOf(disk, Data(next))
      <4> HIDE DEF next
      <4> QED BY <1>2, <2>1, <2>2, <2>3
    <3>3. Searching(Stage2Name)'
      BY <2>2, <2>3, <3>1, <3>2
    <3> QED BY <1>0, <1>3, <2>1, <3>1, <3>3 DEF BootInv, LoadsWhole, HaltsWithoutFile
  <2>4. CASE next >= EndOfChain
    <3>1. stage' = "halted 1"
      <4>1. ~(next < EndOfChain)
        BY <2>2, <2>4, Numbers
      <4> QED BY <1>6, <4>1 DEF NotFound1
    <3>2. Named(Stage2Name)' = {}
      BY <1>0, <2>2, <2>4, DiskKept
    <3> QED BY <1>0, <1>3, <2>1, <3>1, <3>2 DEF BootInv, LoadsWhole, HaltsWithoutFile
  <2> QED BY <2>2, <2>3, <2>4, Numbers
<1>7. CASE oneMoreCluster1
  <2>1. stage = "load 1" /\ begins' = begins /\ Loading(Stage2Name)
    BY <1>7 DEF oneMoreCluster1, BootInv
  <2> DEFINE next == getNextCluster(current_cluster)
  <2>2. /\ next \in Nat
        /\ next >= EndOfChain => loaded = ChainSectors(disk, FirstNamed(Stage2Name))
        /\ next < EndOfChain => next >= 2
        /\ /\ next < EndOfChain /\ current_cluster' = next
           /\ loaded' = Append(loaded, Data(next)) \/ loaded' = loaded \o <<Data(next)>>
           => Loading(Stage2Name)'
    BY <1>0, <1>2, <2>1, LoadGoesOn
  <2>3. CASE next < EndOfChain
    <3>1. current_cluster' = next /\ loaded' = loaded \o BiosRead(clusterLBA(next)) /\ stage' = stage
      <4>1. ~(next >= EndOfChain)
        BY <2>2, <2>3, Numbers
      <4> QED BY <1>7, <4>1 DEF oneMoreCluster1
    <3>2. BiosRead(clusterLBA(next)) = <<Data(next)>>
      <4> HIDE DEF next
      <4> QED BY <1>2, <2>1, <2>2, <2>3
    <3>3. Loading(Stage2Name)'
      BY <2>2, <2>3, <3>1, <3>2
    <3> QED BY <1>0, <1>3, <2>1, <3>1, <3>3 DEF BootInv, LoadsWhole, HaltsWithoutFile
  <2>4. CASE next >= EndOfChain
    <3>1. stage' = "stage 2" /\ loaded' = loaded
      <4>1. ~(next < EndOfChain)
        BY <2>2, <2>4, Numbers
      <4> QED BY <1>7, <4>1 DEF oneMoreCluster1
    <3>2. loaded' = ChainSectors(disk, FirstNamed(Stage2Name))'
      BY <1>0, <2>2, <2>4, <3>1, DiskKept
    <3> QED BY <1>0, <1>3, <2>1, <3>1, <3>2 DEF BootInv, LoadsWhole, HaltsWithoutFile
  <2> QED BY <2>2, <2>3, <2>4, Numbers
<1>8. CASE readCluster
  <2>1. stage = "stage 2" /\ stage' = "search 2" /\ begins' = begins
    BY <1>8 DEF readCluster
  <2>2. PICK e \in BufferEntries :
          list' = EntriesOf(disk, SectorAt(disk, clusterLBA(disk.root)))
                  \o [i \in 1 .. (disk.spc - 1) * EntriesPerSector |-> e]
    BY <1>8 DEF readCluster
  <2>3. [i \in 1 .. (disk.spc - 1) * EntriesPerSector |-> e] = <<>>
    <3>1. (disk.spc - 1) * EntriesPerSector = 0
      BY <1>0, VolumeFacts, Numbers DEF Geometry
    <3> QED BY <3>1
  <2>4. SectorAt(disk, clusterLBA(disk.root)) = Data(disk.root)
    BY <1>0, <1>2, <2>1
  <2>5. EntriesOf(disk, Data(disk.root)) \in Seq(Entries)
    BY <1>0, VolumeFacts, EntriesType
  <2>6. list' = EntriesOf(disk, Data(disk.root))
    BY <2>2, <2>3, <2>4, <2>5, ConcatEmptySeq
  <2> QED BY <1>0, <1>3, <2>1, <2>6 DEF BootInv, LoadsWhole, HaltsWithoutFile
<1>9. CASE searchFile
  <2>1. stage = "search 2" /\ Matching(KernelName) # {} /\ stage' = "load 2" /\ begins' = begins
    BY <1>9 DEF searchFile
  <2> DEFINE c == FirstNamed(KernelName)
  <2>2. 1 \in 1 .. Len(RootChain) /\ list = EntriesOf(disk, Data(RootChain[1]))
        /\ \A i \in Named(KernelName) : i > 16 * (1 - 1)
    BY <1>0, <2>1, FirstCluster2
  <2>3. /\ Named(KernelName) # {} /\ ClusterOf(list[Min(Matching(KernelName))]) = c
        /\ c \in Nat /\ Sound(disk, c)
    BY <1>0, <2>1, <2>2, FoundFirst
  <2>4. c >= 2
    <3>1. Chain(disk, c)[1] = c /\ Len(Chain(disk, c)) \in Nat /\ Len(Chain(disk, c)) >= 1
          /\ \A j \in 1 .. Len(Chain(disk, c)) : Chain(disk, c)[j] >= 2
      BY <1>0, <2>3, VolumeFacts, SoundChain
    <3> QED BY <3>1
  <2>5. current_cluster' = c /\ loaded' = <<Data(c)>>
    BY <1>2, <1>9, <2>1, <2>3, <2>4 DEF searchFile
  <2>6. Loading(KernelName)'
    BY <1>0, <2>3, <2>5, LoadStarts
  <2> QED BY <1>0, <1>3, <2>1, <2>6 DEF BootInv, LoadsWhole, HaltsWithoutFile
<1>10. CASE notFound
  <2>1. stage = "search 2" /\ Matching(KernelName) = {} /\ stage' = "wild" /\ begins' = begins
    BY <1>10 DEF notFound
  <2>2. 1 \in 1 .. Len(RootChain) /\ list = EntriesOf(disk, Data(RootChain[1]))
        /\ \A i \in Named(KernelName) : i > 16 * (1 - 1)
    BY <1>0, <2>1, FirstCluster2
  <2>3. ASSUME NEW i \in Named(KernelName) PROVE i > disk.spc * EntriesPerSector
    <3>1. /\ Matching(KernelName) = {j \in 1 .. 16 : 16 * (1 - 1) + j \in Named(KernelName)}
          /\ Named(KernelName) \in SUBSET Nat
      BY <1>0, <2>2, MatchingPlaces
    <3>2. i \in Nat /\ i > 0
      BY <2>2, <3>1
    <3>3. i <= 16 => 16 * (1 - 1) + i = i /\ i \in 1 .. 16
      BY <3>2
    <3>4. ~(i <= 16)
      BY <2>1, <3>1, <3>3
    <3>5. disk.spc * EntriesPerSector = 16
      BY <1>0, VolumeFacts, Numbers DEF Geometry
    <3> QED BY <3>2, <3>4, <3>5
  <2>4. \A i \in Named(KernelName)' : i > disk'.spc * EntriesPerSector
    BY <1>0, <2>3, DiskKept
  <2> QED BY <1>0, <1>3, <2>1, <2>4 DEF BootInv, LoadsWhole, HaltsWithoutFile
<1>11. CASE oneMoreCluster2
  <2>1. stage = "load 2" /\ begins' = begins /\ Loading(KernelName)
    BY <1>11 DEF oneMoreCluster2, BootInv
  <2> DEFINE next == getNextCluster(current_cluster)
  <2>2. /\ next \in Nat
        /\ next >= EndOfChain => loaded = ChainSectors(disk, FirstNamed(KernelName))
        /\ next < EndOfChain => next >= 2
        /\ /\ next < EndOfChain /\ current_cluster' = next
           /\ loaded' = Append(loaded, Data(next)) \/ loaded' = loaded \o <<Data(next)>>
           => Loading(KernelName)'
    BY <1>0, <1>2, <2>1, LoadGoesOn
  <2>5. KernelRoom \in Nat /\ Len(loaded) \in Nat
    <3>1. PICK k \in 1 .. Len(Chain(disk, FirstNamed(KernelName))) :
            loaded = [j \in 1 .. k |-> Data(Chain(disk, FirstNamed(KernelName))[j])]
      BY <2>1 DEF Loading, LoadedUpTo
    <3>2. loaded \in Seq({Data(Chain(disk, FirstNamed(KernelName))[j]) : j \in 1 .. k}) /\ k \in Nat
      BY <3>1
    <3> QED BY <3>2, StartupAssumption
  <2>3. CASE next < EndOfChain /\ Len(loaded) < KernelRoom
    <3>1. current_cluster' = next /\ loaded' = Append(loaded, SectorAt(disk, clusterLBA(next))) /\ stage' = stage
      <4>1. ~(next >= EndOfChain) /\ ~(Len(loaded) >= KernelRoom)
        BY <2>2, <2>3, <2>5, Numbers
      <4> QED BY <1>11, <4>1 DEF oneMoreCluster2, LoadNext
    <3>2. SectorAt(disk, clusterLBA(next)) = Data(next)
      <4> HIDE DEF next
      <4> QED BY <1>2, <2>1, <2>2, <2>3
    <3>3. Loading(KernelName)'
      BY <2>2, <2>3, <3>1, <3>2
    <3> QED BY <1>0, <1>3, <2>1, <3>1, <3>3 DEF BootInv, LoadsWhole, HaltsWithoutFile
  <2>4. CASE next >= EndOfChain
    <3>1. stage' = "elf" /\ loaded' = loaded
      <4>1. ~(next < EndOfChain)
        BY <2>2, <2>4, Numbers
      <4> QED BY <1>11, <4>1 DEF oneMoreCluster2, LoadNext
    <3>2. loaded' = ChainSectors(disk, FirstNamed(KernelName))'
      BY <1>0, <2>2, <2>4, <3>1, DiskKept
    <3> QED BY <1>0, <1>3, <2>1, <3>1, <3>2 DEF BootInv, LoadsWhole, HaltsWithoutFile
  <2>6. CASE next < EndOfChain /\ ~(Len(loaded) < KernelRoom)
    <3>1. stage' = "overrun"
      <4>1. ~(next >= EndOfChain)
        BY <2>2, <2>6, Numbers
      <4> QED BY <1>11, <2>6, <4>1 DEF oneMoreCluster2
    <3> QED BY <1>0, <1>3, <2>1, <3>1 DEF BootInv, LoadsWhole, HaltsWithoutFile
  <2> QED BY <2>2, <2>3, <2>4, <2>6, Numbers
<1>12. CASE loadelf
  <2>1. stage = "elf" /\ stage' = "kernel" /\ begins' = begins
    BY <1>12 DEF loadelf
  <2> QED BY <1>0, <1>3, <2>1 DEF BootInv, LoadsWhole, HaltsWithoutFile
<1>13. CASE Overrun1
  <2>1. stage = "load 1" /\ stage' = "overrun" /\ begins' = begins
    BY <1>13 DEF Overrun1
  <2> QED BY <1>0, <1>3, <2>1 DEF BootInv, LoadsWhole, HaltsWithoutFile
<1>14. CASE done
  <2>1. stage = "halted 1" /\ stage' = "wild 1" /\ begins' = begins
    BY <1>14 DEF done
  <2>2. Named(Stage2Name) = {}
    BY <2>1 DEF BootInv, HaltsWithoutFile
  <2>3. Named(Stage2Name)' = {}
    BY <1>0, <2>2, DiskKept
  <2> QED BY <1>0, <1>3, <2>1, <2>3 DEF BootInv, LoadsWhole, HaltsWithoutFile
<1> QED BY <1>4, <1>5, <1>6, <1>7, <1>8, <1>9, <1>10, <1>11, <1>12, <1>13, <1>14 DEF BootNext

-----------------------------------------------------------------------------
(* Names *)

\* What find_file() tests, for any name.
Fits(e, n) == strncmp(filename(e), n, strlen(n) - 1) = 1

\* An array whose text is of that length.
Terminated(n, L) ==
  /\ \E T \in Nat : DOMAIN n = 0 .. T /\ L \in 0 .. T
  /\ n[L] = NUL /\ \A i \in 0 .. L - 1 : n[i] # NUL

LEMMA StrlenIs ==
  ASSUME NEW n, NEW L, Terminated(n, L)
  PROVE  L \in Nat /\ strlen(n) = L + 1
<1> DEFINE S == {i \in DOMAIN n : n[i] = NUL}
<1>1. PICK T \in Nat : DOMAIN n = 0 .. T /\ L \in 0 .. T
  BY DEF Terminated
<1>2. n[L] = NUL /\ \A i \in 0 .. L - 1 : n[i] # NUL
  BY DEF Terminated
<1>3. S \in SUBSET Nat /\ L \in S
  BY <1>1, <1>2
<1>4. ASSUME NEW y \in S PROVE L <= y
  BY <1>1, <1>2
<1> HIDE DEF S
<1>5. Min(S) = L
  BY <1>3, <1>4, MinIs
<1> QED BY <1>1, <1>5 DEF strlen, S

LEMMA FilenameFacts ==
  ASSUME NEW e \in Entries
  PROVE  /\ NameSize \in Nat /\ NameSize > 0 /\ e.name \in Seq(Characters) /\ Len(e.name) = NameSize
         /\ DOMAIN filename(e) = 0 .. NameSize - 1 /\ filename(e)[NameSize - 1] = NUL
         /\ \A i \in 0 .. NameSize - 2 : filename(e)[i] = e.name[i + 1]
<1>1. NameSize \in Nat /\ NameSize > 0
  BY NameAssumption
<1>2. e.name \in [1 .. NameSize -> Characters]
  BY DEF Entries
<1>3. e.name \in Seq(Characters) /\ Len(e.name) = NameSize
  BY <1>1, <1>2
<1> QED BY <1>1, <1>3 DEF filename

\* An entry fits a name when its own, but for the last character, starts with it.
LEMMA FitsIff ==
  ASSUME NEW n, NEW L, Terminated(n, L), NEW e \in Entries
  PROVE  Fits(e, n) <=> L <= NameSize - 1 /\ \A i \in 0 .. L - 1 : e.name[i + 1] = n[i]
<1> DEFINE f == filename(e)
           stops == {i \in DOMAIN f \cap DOMAIN n \cap 0 .. L - 1 :
                       f[i] = NUL \/ n[i] = NUL \/ f[i] # n[i]}
<1>1. L \in Nat /\ strlen(n) = L + 1
  BY StrlenIs
<1>2. PICK T \in Nat : DOMAIN n = 0 .. T /\ L \in 0 .. T
  BY DEF Terminated
<1>3. \A i \in 0 .. L - 1 : n[i] # NUL
  BY DEF Terminated
<1>4. /\ NameSize \in Nat /\ NameSize > 0 /\ DOMAIN f = 0 .. NameSize - 1 /\ f[NameSize - 1] = NUL
      /\ \A i \in 0 .. NameSize - 2 : f[i] = e.name[i + 1]
  BY FilenameFacts
<1>5. Fits(e, n) <=> stops = {} \/ (f[Min(stops)] = NUL /\ n[Min(stops)] = NUL)
  <2>1. strlen(n) - 1 = L
    BY <1>1
  <2> QED BY <2>1 DEF Fits, strncmp
<1> HIDE DEF f
<1>6. stops \in SUBSET Nat /\ \A i \in stops : n[i] # NUL
  BY <1>1, <1>3
<1>7. Fits(e, n) <=> stops = {}
  <2>1. stops # {} => Min(stops) \in stops
    <3> HIDE DEF stops
    <3> QED BY <1>6, MinOf
  <2> HIDE DEF stops
  <2> QED BY <1>5, <1>6, <2>1
<1>8. ASSUME stops = {}
      PROVE  L <= NameSize - 1 /\ \A i \in 0 .. L - 1 : e.name[i + 1] = n[i]
  <2>1. \A i \in 0 .. L - 1 : i < NameSize => f[i] # NUL /\ f[i] = n[i]
    <3> SUFFICES ASSUME NEW i \in 0 .. L - 1, i < NameSize PROVE f[i] # NUL /\ f[i] = n[i]
      OBVIOUS
    <3>1. i \in DOMAIN f \cap DOMAIN n \cap 0 .. L - 1
      BY <1>1, <1>2, <1>4
    <3> QED BY <1>8, <3>1
  <2>2. ~(NameSize - 1 <= L - 1)
    <3>1. NameSize - 1 <= L - 1 => NameSize - 1 \in 0 .. L - 1 /\ NameSize - 1 < NameSize
      BY <1>1, <1>4
    <3> QED BY <1>4, <2>1, <3>1
  <2>3. L <= NameSize - 1
    BY <1>1, <1>4, <2>2
  <2>4. ASSUME NEW i \in 0 .. L - 1 PROVE e.name[i + 1] = n[i]
    <3>1. i \in 0 .. NameSize - 2 /\ i < NameSize
      BY <1>1, <1>4, <2>3
    <3> QED BY <1>4, <2>1, <3>1
  <2> QED BY <2>3, <2>4
<1>9. ASSUME L <= NameSize - 1, \A i \in 0 .. L - 1 : e.name[i + 1] = n[i] PROVE stops = {}
  <2>1. ASSUME NEW i \in 0 .. L - 1 PROVE f[i] = n[i] /\ n[i] # NUL
    <3>1. i \in 0 .. NameSize - 2
      BY <1>1, <1>4, <1>9
    <3> QED BY <1>3, <1>4, <1>9, <3>1
  <2> QED BY <2>1
<1> HIDE DEF stops
<1> QED BY <1>7, <1>8, <1>9

\* The argument of exec() as an array.
LEMMA ArgumentFacts ==
  ASSUME NEW text \in Arguments
  PROVE  LET a == Stored(text, Len(text) + 1)
         IN  /\ text \in Seq(Characters) /\ Len(text) \in Nat
             /\ Terminated(a, Len(text)) /\ Text(a) = text
             /\ \A i \in 0 .. Len(text) - 1 : a[i] = text[i + 1] /\ a[i] # NUL
<1> DEFINE a == Stored(text, Len(text) + 1)
           n == Len(text)
<1>1. text \in Seq(Characters \ {NUL})
  BY StartupAssumption
<1>2. n \in Nat /\ \A i \in 1 .. n : text[i] \in Characters /\ text[i] # NUL
  BY <1>1
<1>3. text \in Seq(Characters)
  BY <1>1
<1>4. a = [i \in 0 .. n |-> IF i < n THEN text[i + 1] ELSE NUL]
  <2>1. (n + 1) - 1 = n
    BY <1>2
  <2> QED BY <2>1 DEF Stored
<1> HIDE DEF a
<1>5. DOMAIN a = 0 .. n /\ a[n] = NUL
  BY <1>2, <1>4
<1>6. ASSUME NEW i \in 0 .. n - 1 PROVE a[i] = text[i + 1] /\ a[i] # NUL
  <2>1. i + 1 \in 1 .. n /\ i \in 0 .. n /\ i < n
    BY <1>2
  <2> QED BY <1>2, <1>4, <2>1
<1>7. Terminated(a, n)
  <2>1. n \in 0 .. n
    BY <1>2
  <2> QED BY <1>2, <1>5, <1>6, <2>1 DEF Terminated
<1>8. Text(a) = text
  <2>1. Min({i \in DOMAIN a : a[i] = NUL}) = n
    <3> DEFINE S == {i \in DOMAIN a : a[i] = NUL}
    <3>1. S \in SUBSET Nat /\ n \in S
      BY <1>2, <1>5
    <3>2. ASSUME NEW y \in S PROVE n <= y
      BY <1>2, <1>5, <1>6
    <3> HIDE DEF S
    <3>3. Min(S) = n
      BY <3>1, <3>2, MinIs
    <3> QED BY <3>3 DEF S
  <2>2. Text(a) = [k \in 1 .. n |-> a[k - 1]]
    BY <2>1 DEF Text
  <2>3. ASSUME NEW k \in 1 .. n PROVE a[k - 1] = text[k]
    <3>1. k - 1 \in 0 .. n - 1 /\ (k - 1) + 1 = k
      BY <1>2
    <3> QED BY <1>6, <3>1
  <2>4. text = [k \in 1 .. n |-> text[k]]
    BY <1>3
  <2> QED BY <2>2, <2>3, <2>4
<1> QED BY <1>2, <1>3, <1>6, <1>7, <1>8 DEF a

LEMMA PrefixIff ==
  ASSUME NEW text \in Seq(Characters), NEW e \in Entries
  PROVE  IsPrefix(text, SubSeq(e.name, 1, NameSize - 1))
           <=> Len(text) <= NameSize - 1 /\ \A i \in 1 .. Len(text) : e.name[i] = text[i]
<1> DEFINE n == Len(text)
           t == SubSeq(e.name, 1, NameSize - 1)
<1>1. NameSize \in Nat /\ NameSize > 0 /\ e.name \in Seq(Characters) /\ Len(e.name) = NameSize
  BY FilenameFacts
<1> DEFINE w == e.name
<1> HIDE DEF w
<1>2. w \in Seq(Characters) /\ Len(w) = NameSize
  BY <1>1 DEF w
<1>3. t \in Seq(Characters) /\ Len(t) = NameSize - 1 /\ \A i \in 1 .. NameSize - 1 : t[i] = w[i]
  <2>1. t = SubSeq(w, 1, NameSize - 1)
    BY DEF w
  <2> HIDE DEF t
  <2> QED BY <1>1, <1>2, <2>1
<1> HIDE DEF t
<1>4. n \in Nat /\ SubSeq(text, 1, n) = text
  <2>1. n \in Nat
    OBVIOUS
  <2>2. SubSeq(text, 1, n) \in Seq(Characters) /\ Len(SubSeq(text, 1, n)) = n
        /\ \A i \in 1 .. n : SubSeq(text, 1, n)[i] = text[i]
    OBVIOUS
  <2> QED BY <2>1, <2>2, SeqEqual
<1>5. CASE n <= NameSize - 1
  <2> DEFINE u == SubSeq(t, 1, n)
  <2>1. u \in Seq(Characters) /\ Len(u) = n /\ \A i \in 1 .. n : u[i] = t[i]
    BY <1>1, <1>3, <1>4, <1>5
  <2> HIDE DEF u
  <2>2. \A i \in 1 .. n : u[i] = w[i]
    BY <1>1, <1>3, <1>4, <1>5, <2>1
  <2>3. text = u <=> \A i \in 1 .. n : w[i] = text[i]
    BY <2>1, <2>2, SeqEqual
  <2>4. IsPrefix(text, t) <=> text = u
    BY <1>3, <1>4, <1>5 DEF IsPrefix, u
  <2> QED BY <1>5, <2>3, <2>4 DEF t, w
<1>6. CASE ~(n <= NameSize - 1)
  BY <1>3, <1>6 DEF IsPrefix, t
<1> QED BY <1>5, <1>6

\* The places of the entries that fit.
Wanted(n) == {j \in DOMAIN RootEntries(disk) : Fits(RootEntries(disk)[j], n)}

LEMMA WantedType ==
  ASSUME disk \in Volumes, NEW n
  PROVE  /\ Wanted(n) \in SUBSET Nat /\ \A j \in Wanted(n) : j >= 1 /\ j <= 16 * Len(RootChain)
         /\ \A j \in Wanted(n) : RootEntries(disk)[j] \in Entries
         /\ Wanted(n) # {} => Min(Wanted(n)) \in Wanted(n) /\ \A j \in Wanted(n) : Min(Wanted(n)) <= j
<1>1. RootEntries(disk) \in Seq(Entries) /\ DOMAIN RootEntries(disk) = 1 .. 16 * Len(RootChain)
      /\ Len(RootChain) \in Nat
  BY VolumeFacts, RootFacts, SoundChain DEF RootChain
<1>2. Wanted(n) \in SUBSET Nat /\ \A j \in Wanted(n) : j >= 1 /\ j <= 16 * Len(RootChain)
  BY <1>1 DEF Wanted
<1>3. \A j \in Wanted(n) : RootEntries(disk)[j] \in Entries
  BY <1>1 DEF Wanted
<1> QED BY <1>2, <1>3, MinOf

\* exec()'s first match is the first entry that fits its argument.
LEMMA FirstMatchIs ==
  ASSUME disk \in Volumes, NEW text \in Arguments, NEW a, a = Stored(text, Len(text) + 1)
  PROVE  FirstMatch(RootEntries(disk), text)
           = IF Wanted(a) = {} THEN None ELSE RootEntries(disk)[Min(Wanted(a))]
<1> DEFINE all == RootEntries(disk)
           M == {i \in DOMAIN all : IsPrefix(text, SubSeq(all[i].name, 1, NameSize - 1))}
<1>1. /\ text \in Seq(Characters) /\ Len(text) \in Nat /\ Terminated(a, Len(text))
      /\ \A i \in 0 .. Len(text) - 1 : a[i] = text[i + 1]
  BY ArgumentFacts
<1>2. all \in Seq(Entries)
  BY VolumeFacts, RootFacts
<1>3. ASSUME NEW e \in Entries PROVE IsPrefix(text, SubSeq(e.name, 1, NameSize - 1)) <=> Fits(e, a)
  <2>1. Fits(e, a) <=> Len(text) <= NameSize - 1 /\ \A i \in 0 .. Len(text) - 1 : e.name[i + 1] = a[i]
    BY <1>1, FitsIff
  <2>2. (\A i \in 0 .. Len(text) - 1 : e.name[i + 1] = a[i])
          <=> \A i \in 1 .. Len(text) : e.name[i] = text[i]
    <3>1. ASSUME \A i \in 0 .. Len(text) - 1 : e.name[i + 1] = a[i], NEW i \in 1 .. Len(text)
          PROVE  e.name[i] = text[i]
      <4>1. i - 1 \in 0 .. Len(text) - 1 /\ (i - 1) + 1 = i
        BY <1>1
      <4> QED BY <1>1, <3>1, <4>1
    <3>2. ASSUME \A i \in 1 .. Len(text) : e.name[i] = text[i], NEW i \in 0 .. Len(text) - 1
          PROVE  e.name[i + 1] = a[i]
      <4>1. i + 1 \in 1 .. Len(text)
        BY <1>1
      <4> QED BY <1>1, <3>2, <4>1
    <3> QED BY <3>1, <3>2
  <2> QED BY <1>1, <2>1, <2>2, PrefixIff
<1>4. M = Wanted(a)
  <2>1. \A i \in DOMAIN all : all[i] \in Entries
    BY <1>2
  <2> QED BY <1>3, <2>1 DEF Wanted
<1>5. FirstMatch(all, text) = IF M = {} THEN None ELSE all[Min(M)]
  BY DEF FirstMatch
<1> HIDE DEF M
<1> QED BY <1>4, <1>5

\* load_executable() is given the name in the first entry that fits, and finds the
\* same entry: what fits that name fits the argument.
LEMMA NameAgain ==
  ASSUME disk \in Volumes, NEW text \in Arguments, NEW a, a = Stored(text, Len(text) + 1),
         Wanted(a) # {}
  PROVE  LET n == filename(RootEntries(disk)[Min(Wanted(a))])
         IN  Wanted(n) # {} /\ Min(Wanted(n)) = Min(Wanted(a))
<1> DEFINE m == Min(Wanted(a))
           e == RootEntries(disk)[m]
           n == filename(e)
           K == Len(text)
<1>1. m \in Wanted(a) /\ (\A j \in Wanted(a) : m <= j) /\ e \in Entries /\ Wanted(a) \in SUBSET Nat
  BY WantedType
<1> HIDE DEF m
<1>2. /\ K \in Nat /\ Terminated(a, K) /\ \A i \in 0 .. K - 1 : a[i] # NUL
  BY ArgumentFacts
<1>3. /\ NameSize \in Nat /\ NameSize > 0 /\ DOMAIN n = 0 .. NameSize - 1 /\ n[NameSize - 1] = NUL
      /\ \A i \in 0 .. NameSize - 2 : n[i] = e.name[i + 1]
  BY <1>1, FilenameFacts
<1>4. K <= NameSize - 1 /\ \A i \in 0 .. K - 1 : e.name[i + 1] = a[i]
  <2>1. Fits(e, a)
    BY <1>1 DEF Wanted
  <2> HIDE DEF e
  <2> QED BY <1>1, <1>2, <2>1, FitsIff
<1> HIDE DEF n, e
<1>5. PICK L : Terminated(n, L) /\ L \in Nat /\ L <= NameSize - 1
  <2> DEFINE S == {i \in 0 .. NameSize - 1 : n[i] = NUL}
  <2>1. S \in SUBSET Nat /\ S # {}
    BY <1>3
  <2>2. PICK L \in S : \A y \in S : L <= y
    <3> HIDE DEF S
    <3> QED BY <2>1, LeastIn
  <2>3. ASSUME NEW i \in 0 .. L - 1 PROVE n[i] # NUL
    <3>1. i \in 0 .. NameSize - 1 /\ ~(L <= i)
      BY <1>3, <2>2
    <3> QED BY <2>2, <3>1
  <2>4. NameSize - 1 \in Nat /\ L \in 0 .. NameSize - 1 /\ n[L] = NUL
    BY <1>3, <2>2
  <2> HIDE DEF S
  <2>5. Terminated(n, L)
    BY <1>3, <2>3, <2>4 DEF Terminated
  <2> QED BY <2>4, <2>5
<1>6. K <= L /\ \A i \in 0 .. K - 1 : n[i] = a[i]
  <2>1. \A i \in 0 .. K - 1 : n[i] = a[i] /\ n[i] # NUL
    <3> SUFFICES ASSUME NEW i \in 0 .. K - 1 PROVE n[i] = a[i] /\ n[i] # NUL
      OBVIOUS
    <3>1. i \in 0 .. NameSize - 2
      BY <1>2, <1>3, <1>4
    <3> QED BY <1>2, <1>3, <1>4, <3>1
  <2>2. n[L] = NUL
    BY <1>5 DEF Terminated
  <2>3. ~(L <= K - 1)
    BY <1>2, <1>5, <2>1, <2>2
  <2> QED BY <1>2, <1>5, <2>1, <2>3
<1>7. Fits(e, n)
  <2>1. \A i \in 0 .. L - 1 : e.name[i + 1] = n[i]
    BY <1>3, <1>5
  <2> QED BY <1>1, <1>5, <2>1, FitsIff
<1>8. ASSUME NEW x \in Entries, Fits(x, n) PROVE Fits(x, a)
  <2>1. L <= NameSize - 1 /\ \A i \in 0 .. L - 1 : x.name[i + 1] = n[i]
    BY <1>5, <1>8, FitsIff
  <2>2. \A i \in 0 .. K - 1 : x.name[i + 1] = a[i]
    <3> SUFFICES ASSUME NEW i \in 0 .. K - 1 PROVE x.name[i + 1] = a[i]
      OBVIOUS
    <3>1. i \in 0 .. L - 1
      BY <1>2, <1>5, <1>6
    <3> QED BY <1>6, <2>1, <3>1
  <2> QED BY <1>2, <1>4, <2>2, FitsIff
<1>9. m \in Wanted(n)
  BY <1>1, <1>7 DEF Wanted, e
<1>10. \A j \in Wanted(n) : m <= j
  <2> SUFFICES ASSUME NEW j \in Wanted(n) PROVE m <= j
    OBVIOUS
  <2>1. RootEntries(disk)[j] \in Entries /\ Fits(RootEntries(disk)[j], n) /\ j \in DOMAIN RootEntries(disk)
    BY WantedType DEF Wanted
  <2>2. j \in Wanted(a)
    BY <1>8, <2>1 DEF Wanted
  <2> QED BY <1>1, <2>2
<1>11. Min(Wanted(n)) = m
  <2>1. Wanted(n) \in SUBSET Nat
    BY WantedType
  <2> QED BY <1>9, <1>10, <2>1, MinIs
<1> QED BY <1>9, <1>11 DEF m, e, n

-----------------------------------------------------------------------------
(* The kernel *)

DataLba(c) == ClusterBegin(disk) + (c - 2) * disk.spc
FatLba(c) == FatBegin(disk) + FatSector(c)

\* exec() was called with one of its arguments.
Called == \E text \in Arguments : argument = Stored(text, Len(text) + 1)

\* The entry that exec() is to find.
FirstWanted(e) == Wanted(argument) # {} /\ e = RootEntries(disk)[Min(Wanted(argument))]

\* find_file() is in the k-th cluster of the root directory, and nothing fits before.
Finding ==
  /\ Called /\ entry = None /\ space = 0 /\ buffer = <<>>
  /\ \/ caller = "exec" /\ name = argument
     \/ caller = "load" /\ FirstWanted(file) /\ name = filename(file)
  /\ \E k \in 1 .. Len(RootChain) :
       /\ cluster = RootChain[k]
       /\ pc = "find" => drive.lba = DataLba(cluster) /\ \A j \in Wanted(name) : j > 16 * (k - 1)
       /\ pc = "find next" => drive.lba = FatLba(cluster) /\ \A j \in Wanted(name) : j > 16 * k

\* read_file() has read the first clusters of the file into the buffer.
ReadUpTo(k) == buffer = [j \in 1 .. k |-> Data(Chain(disk, entry.low)[j])]

ReadingChain ==
  /\ entry.high = 0 /\ entry.low # 0
  /\ \E k \in 1 .. Len(Chain(disk, entry.low)) :
       /\ cluster = Chain(disk, entry.low)[k]
       /\ pc = "read" => drive.lba = DataLba(cluster) /\ ReadUpTo(k - 1)
       /\ pc = "read next" => drive.lba = FatLba(cluster) /\ ReadUpTo(k)

\* It reads one sector for a file that has no cluster.
ReadingNone ==
  /\ FirstCluster(entry) = 0 /\ cluster = 0
  /\ pc = "read" => buffer = <<>>
  /\ pc = "read next" => drive.lba = FatLba(cluster) /\ Len(buffer) = 1

\* It reads what is not the file: from the start, or from where find_next_cluster()
\* was not right.
Sectors == {SectorAt(disk, lba) : lba \in Int}

Astray ==
  /\ FirstCluster(entry) # 0 /\ cluster \in Nat /\ buffer \in Seq(Sectors)
  /\ entry.high = 0 =>
       \E m \in 1 .. Len(Chain(disk, entry.low)) :
         /\ ~Plain(disk, Chain(disk, entry.low)[m]) /\ m <= Len(buffer)
         /\ \A j \in 1 .. m : buffer[j] = Data(Chain(disk, entry.low)[j])

Reading ==
  /\ Called /\ FirstWanted(entry) /\ file = entry /\ space = BufferSize(entry)
  /\ ReadingChain \/ ReadingNone \/ Astray

DriveType == drive \in [state : {"idle", "busy", "ready", "failed"}, lba : Int, count : Int]

FatInv ==
  /\ DriveType
  /\ pc \notin {"boot", "table", "volume"} => fat_begin = FatBegin(disk) /\ cluster_begin = ClusterBegin(disk)
  /\ pc # "idle" => result = "none"
  /\ pc \in {"find", "find next"} => Finding
  /\ pc \in {"read", "read next"} => Reading
  /\ BufferFits /\ FindsFirst /\ ReadsWholeFile

\* A step of the drive, or of the boot loader.
LEMMA FatKept ==
  ASSUME FatInv, DriveType', drive'.lba = drive.lba, disk' = disk,
         UNCHANGED <<pc, memory, search, cluster, buffer, result>>
  PROVE  FatInv'
<1>1. /\ pc' = pc /\ fat_begin' = fat_begin /\ cluster_begin' = cluster_begin /\ argument' = argument
      /\ name' = name /\ caller' = caller /\ file' = file /\ entry' = entry /\ space' = space
      /\ cluster' = cluster /\ buffer' = buffer /\ result' = result
  BY DEF memory, search
<1>2. /\ RootChain' = RootChain /\ Wanted(name)' = Wanted(name) /\ Wanted(argument)' = Wanted(argument)
      /\ \A c : FatLba(c)' = FatLba(c) /\ DataLba(c)' = DataLba(c)
  BY <1>1 DEF RootChain, Wanted, FatLba, DataLba
<1>3. Called' = Called /\ FirstWanted(file)' = FirstWanted(file) /\ FirstWanted(entry)' = FirstWanted(entry)
  BY <1>1, <1>2 DEF Called, FirstWanted
<1>4. Finding => Finding'
  <2> SUFFICES ASSUME Finding PROVE Finding'
    OBVIOUS
  <2>1. PICK k \in 1 .. Len(RootChain) :
          /\ cluster = RootChain[k]
          /\ pc = "find" => drive.lba = DataLba(cluster) /\ \A j \in Wanted(name) : j > 16 * (k - 1)
          /\ pc = "find next" => drive.lba = FatLba(cluster) /\ \A j \in Wanted(name) : j > 16 * k
    BY DEF Finding
  <2>2. filename(file)' = filename(file)
    BY <1>1
  <2>3. Called' /\ entry' = None /\ space' = 0 /\ buffer' = <<>>
    BY <1>1, <1>3 DEF Finding
  <2>4. \/ caller' = "exec" /\ name' = argument'
        \/ caller' = "load" /\ FirstWanted(file)' /\ name' = filename(file)'
    BY <1>1, <1>3, <2>2 DEF Finding
  <2>5. DataLba(cluster)' = DataLba(cluster) /\ FatLba(cluster)' = FatLba(cluster)
    BY <1>1 DEF FatLba, DataLba
  <2> QED BY <1>1, <1>2, <2>1, <2>3, <2>4, <2>5 DEF Finding
<1>5. Reading => Reading'
  <2>1. ASSUME ReadingChain PROVE ReadingChain'
    <3>1. PICK k \in 1 .. Len(Chain(disk, entry.low)) :
            /\ cluster = Chain(disk, entry.low)[k]
            /\ pc = "read" => drive.lba = DataLba(cluster) /\ ReadUpTo(k - 1)
            /\ pc = "read next" => drive.lba = FatLba(cluster) /\ ReadUpTo(k)
      BY <2>1 DEF ReadingChain
    <3>2. Chain(disk, entry.low)' = Chain(disk, entry.low)
      BY <1>1
    <3>3. DataLba(cluster)' = DataLba(cluster) /\ FatLba(cluster)' = FatLba(cluster)
      BY <1>1 DEF FatLba, DataLba
    <3>4. ReadUpTo(k)' = ReadUpTo(k) /\ ReadUpTo(k - 1)' = ReadUpTo(k - 1)
      BY <1>1, <3>2 DEF ReadUpTo
    <3>5. entry'.high = 0 /\ entry'.low # 0
      BY <1>1, <2>1 DEF ReadingChain
    <3> QED BY <1>1, <3>1, <3>2, <3>3, <3>4, <3>5 DEF ReadingChain
  <2>2. ReadingNone => ReadingNone'
    BY <1>1 DEF ReadingNone, FatLba
  <2>3. BufferSize(entry)' = BufferSize(entry)
    BY <1>1 DEF BufferSize
  <2>4. Astray => Astray'
    BY <1>1 DEF Astray, Sectors
  <2> QED BY <1>1, <1>3, <2>1, <2>2, <2>3, <2>4 DEF Reading
<1>6. BufferFits' /\ FindsFirst' /\ ReadsWholeFile'
  BY <1>1 DEF FatInv, BufferFits, FindsFirst, ReadsWholeFile, Followed
<1>7. FatBegin(disk)' = FatBegin(disk) /\ ClusterBegin(disk)' = ClusterBegin(disk)
  OBVIOUS
<1> QED BY <1>1, <1>4, <1>5, <1>6, <1>7 DEF FatInv

LEMMA Integral ==
  ASSUME disk \in Volumes
  PROVE  /\ FatBegin(disk) \in Nat /\ ClusterBegin(disk) \in Nat /\ disk.spc = 1
         /\ \A c \in Nat : DataLba(c) \in Int /\ FatLba(c) \in Int
<1>1. Geometry(disk)
  BY VolumeFacts
<1>2. disk.fats * disk.spf \in Nat
  BY <1>1 DEF Geometry
<1>3. FatBegin(disk) \in Nat /\ ClusterBegin(disk) \in Nat /\ disk.spc = 1
  BY <1>1, <1>2 DEF Geometry, FatBegin, ClusterBegin
<1>4. \A c \in Nat : FatSector(c) \in Nat
  BY Numbers DEF FatSector
<1> QED BY <1>3, <1>4 DEF DataLba, FatLba

LEMMA CommandType ==
  ASSUME NEW lba \in Int, NEW count \in Int, Command(lba, count)
  PROVE  DriveType' /\ drive'.lba = lba
BY DEF Command, DriveType

\* The two commands of fat32.c, for a cluster and for its entry in the FAT.
LEMMA ReadsCluster ==
  ASSUME disk \in Volumes, NEW c \in Nat, Command(DataLba(c), disk.spc)
  PROVE  DriveType' /\ drive'.lba = DataLba(c)
<1>1. DataLba(c) \in Int /\ disk.spc \in Int
  BY Integral
<1> QED BY <1>1, CommandType

LEMMA ReadsFat ==
  ASSUME disk \in Volumes, NEW c \in Nat, Command(FatLba(c), 1)
  PROVE  DriveType' /\ drive'.lba = FatLba(c)
<1>1. FatLba(c) \in Int
  BY Integral
<1> QED BY <1>1, CommandType

\* find_next_cluster() is right where the first sector of the FAT is enough.
LEMMA NextWordsAre ==
  ASSUME disk \in Volumes, NEW c \in Nat, c < 128, drive.lba = FatLba(c)
  PROVE  NextWords(c) = {FatEntry(disk, c)}
<1>1. c \div 512 = 0 /\ c % 512 = c /\ c \div 128 = 0 /\ c % 128 = c
  OBVIOUS
<1>2. FatSector(c) = 0 /\ FatIndex(c) = c
  <2>1. 0 \div 4 = 0
    OBVIOUS
  <2> QED BY <1>1, <2>1, Numbers DEF FatSector, FatIndex
<1>3. disk.spf \in Nat /\ disk.spf > 0 /\ c < disk.spf * 128
  BY VolumeFacts DEF Geometry
<1>4. FatBegin(disk) + 0 = FatBegin(disk)
  BY Integral
<1>5. WordOf(disk, SectorAt(disk, FatBegin(disk)), c) = FatEntry(disk, c)
  <2>1. WordOf(disk, SectorAt(disk, FatBegin(disk) + c \div 128), c % 128) = FatEntry(disk, c)
    BY <1>3, VolumeFacts, FatWord
  <2> QED BY <1>1, <1>4, <2>1
<1>6. Copied = SectorAt(disk, FatBegin(disk))
  BY <1>2, <1>4 DEF Copied, FatLba
<1> QED BY <1>2, <1>5, <1>6, Numbers DEF NextWords

\* One link of a chain, and what the kernel can tell of it.
LEMMA PlainLink ==
  ASSUME disk \in Volumes, NEW c \in Nat, Sound(disk, c), NEW k \in 1 .. Len(Chain(disk, c))
  PROVE  LET s == Chain(disk, c)
         IN  /\ Len(s) \in Nat /\ s[1] = c /\ 1 \in 1 .. Len(s) /\ k \in Nat
             /\ s[k] \in Nat /\ s[k] >= 2 /\ FatEntry(disk, s[k]) \in Nat
             /\ Plain(disk, s[k]) =>
                  /\ s[k] < 128
                  /\ FatEntry(disk, s[k]) >= EndOfChain <=> k = Len(s)
                  /\ k # Len(s) => k + 1 \in 1 .. Len(s) /\ s[k + 1] = FatEntry(disk, s[k])
<1> DEFINE s == Chain(disk, c)
<1>1. /\ s \in Seq(Nat) /\ Len(s) \in Nat /\ Len(s) >= 1 /\ s[1] = c
      /\ s[k] \in Nat /\ s[k] >= 2
      /\ NextCluster(disk, s[k]) >= EndOfChain <=> k = Len(s)
      /\ \A j \in 1 .. Len(s) - 1 : s[j + 1] = NextCluster(disk, s[j])
  BY VolumeFacts, SoundChain
<1>2. FatEntry(disk, s[k]) \in Nat
  BY VolumeFacts, NextClusterType
<1> HIDE DEF s
<1>3. k # Len(s) => k + 1 \in 1 .. Len(s) /\ k \in 1 .. Len(s) - 1
  BY <1>1 DEF s
<1>4. k \in Nat /\ 1 \in 1 .. Len(s)
  BY <1>1
<1>5. ASSUME Plain(disk, s[k])
      PROVE  s[k] < 128 /\ NextCluster(disk, s[k]) = FatEntry(disk, s[k])
  <2>1. s[k] < 128 /\ FatEntry(disk, s[k]) < ClusterMask
    BY <1>5, Numbers DEF Plain
  <2> QED BY <1>2, <2>1, Numbers, ModOfSmaller DEF NextCluster
<1> QED BY <1>1, <1>2, <1>3, <1>4, <1>5 DEF s

\* Whatever find_next_cluster() takes for the next cluster is a word.
LEMMA NextWordsNat ==
  ASSUME disk \in Volumes, NEW c, NEW next \in NextWords(c)
  PROVE  next \in Nat
<1>1. HeapWords \subseteq Nat /\ WellFormed(disk)
  BY StartupAssumption
<1>2. \A i : FatEntry(disk, i) \in Nat
  BY <1>1 DEF FatEntry, WellFormed
<1>3. \A sector, i : WordOf(disk, sector, i) \in Nat
  BY <1>2 DEF WordOf
<1> QED BY <1>1, <1>3 DEF NextWords

LEMMA RootNear ==
  ASSUME disk \in Volumes, NEW k \in 1 .. Len(RootChain)
  PROVE  /\ Len(RootChain) \in Nat /\ RootChain[1] = disk.root /\ 1 \in 1 .. Len(RootChain) /\ k \in Nat
         /\ RootChain[k] \in Nat /\ RootChain[k] >= 2 /\ RootChain[k] < 128
         /\ FatEntry(disk, RootChain[k]) \in Nat
         /\ FatEntry(disk, RootChain[k]) >= EndOfChain <=> k = Len(RootChain)
         /\ k # Len(RootChain) =>
              k + 1 \in 1 .. Len(RootChain) /\ RootChain[k + 1] = FatEntry(disk, RootChain[k])
<1>1. k \in DOMAIN RootChain
  <2>1. RootChain \in Seq(Nat)
    BY VolumeFacts, SoundChain DEF RootChain
  <2> QED BY <2>1
<1>2. Plain(disk, RootChain[k])
  BY <1>1, VolumeFacts DEF Near, RootChain
<1> QED BY <1>2, VolumeFacts, PlainLink DEF RootChain

LEMMA WantedKept ==
  ASSUME disk' = disk
  PROVE  /\ RootChain' = RootChain /\ \A n : Wanted(n)' = Wanted(n)
         /\ \A c : DataLba(c)' = DataLba(c) /\ FatLba(c)' = FatLba(c)
BY DEF RootChain, Wanted, DataLba, FatLba

\* The kernel's variables say where the volume is.
LEMMA KernelReads ==
  ASSUME FatInv, pc \notin {"boot", "table", "volume"}, NEW c
  PROVE  cluster2lba(c) = DataLba(c) /\ fat_begin + FatSector(c) = FatLba(c)
BY DEF FatInv, cluster2lba, DataLba, FatLba

LEMMA ExecStep ==
  ASSUME disk \in Volumes, FatInv, NEW text \in Arguments, exec(text)
  PROVE  FatInv'
<1>1. /\ pc = "idle" /\ argument' = Stored(text, Len(text) + 1) /\ name' = argument' /\ caller' = "exec"
      /\ cluster' = disk.root /\ Command(cluster2lba(disk.root), disk.spc) /\ pc' = "find"
      /\ entry' = None /\ result' = "none" /\ space' = 0 /\ buffer' = <<>>
      /\ disk' = disk /\ fat_begin' = fat_begin /\ cluster_begin' = cluster_begin
  BY DEF exec, find_file, read_cluster, memory
<1>2. cluster2lba(disk.root) = DataLba(disk.root) /\ disk.root \in Nat
  BY <1>1, KernelReads, VolumeFacts
<1>3. DriveType' /\ drive'.lba = DataLba(disk.root)
  <2>1. Command(DataLba(disk.root), disk.spc)
    BY <1>1, <1>2
  <2> QED BY <1>2, <2>1, ReadsCluster
<1>4. 1 \in 1 .. Len(RootChain) /\ RootChain[1] = disk.root
  BY RootStart
<1>5. \A j \in Wanted(name') : j > 16 * (1 - 1)
  BY WantedType
<1>6. Called'
  BY <1>1 DEF Called
<1>7. Finding'
  <2>1. Wanted(name)' = Wanted(name')
    BY <1>1 DEF Wanted
  <2>2. DataLba(cluster)' = DataLba(disk.root)
    BY <1>1 DEF DataLba
  <2>3. RootChain' = RootChain
    BY <1>1, WantedKept
  <2> QED BY <1>1, <1>3, <1>4, <1>5, <1>6, <2>1, <2>2, <2>3 DEF Finding
<1>8. BufferFits' /\ FindsFirst' /\ ReadsWholeFile'
  BY <1>1, Numbers DEF BufferFits, FindsFirst, ReadsWholeFile
<1>9. fat_begin' = FatBegin(disk)' /\ cluster_begin' = ClusterBegin(disk)'
  BY <1>1 DEF FatInv
<1> QED BY <1>1, <1>3, <1>7, <1>8, <1>9 DEF FatInv

\* The entries that are searched are those of the sector.
LEMMA ListsAre ==
  ASSUME disk \in Volumes, NEW c \in Nat, c >= 2, drive.lba = DataLba(c), NEW lst \in Lists
  PROVE  lst = EntriesOf(disk, Data(c))
<1>1. Copied = Data(c)
  BY VolumeFacts, DataSector DEF Copied, DataLba
<1>2. PICK e \in HeapEntries :
        lst = EntriesOf(disk, Data(c)) \o [i \in 1 .. (disk.spc - 1) * EntriesPerSector |-> e]
  BY <1>1 DEF Lists
<1>3. [i \in 1 .. (disk.spc - 1) * EntriesPerSector |-> e] = <<>>
  <2>1. (disk.spc - 1) * EntriesPerSector = 0
    BY VolumeFacts, Numbers DEF Geometry
  <2> QED BY <2>1
<1>4. EntriesOf(disk, Data(c)) \in Seq(Entries)
  BY VolumeFacts, EntriesType
<1> QED BY <1>2, <1>3, <1>4, ConcatEmptySeq

\* What a search of one cluster finds.
LEMMA FindsInBlock ==
  ASSUME disk \in Volumes, NEW k \in 1 .. Len(RootChain), \A j \in Wanted(name) : j > 16 * (k - 1),
         NEW lst, lst = EntriesOf(disk, Data(RootChain[k])),
         NEW found, found = {i \in DOMAIN lst : Matches(lst[i])}
  PROVE  /\ found = {} => \A j \in Wanted(name) : j > 16 * k
         /\ found # {} => /\ Wanted(name) # {}
                          /\ lst[Min(found)] = RootEntries(disk)[Min(Wanted(name))]
<1> DEFINE n == Len(RootChain)
           all == RootEntries(disk)
           S == Wanted(name)
<1>1. WellFormed(disk) /\ n \in Nat /\ k \in Nat /\ k >= 1
  BY RootNear, VolumeFacts
<1>2. /\ DOMAIN all = 1 .. 16 * n
      /\ \A i \in 1 .. 16 : all[16 * (k - 1) + i] = lst[i]
  BY <1>1, RootFacts DEF RootChain
<1>3. DOMAIN lst = 1 .. 16
  BY <1>1, EntriesType
<1>4. S \in SUBSET Nat
  BY WantedType
<1>5. \A i \in 1 .. 16 : i \in found <=> 16 * (k - 1) + i \in S
  <2> SUFFICES ASSUME NEW i \in 1 .. 16 PROVE i \in found <=> 16 * (k - 1) + i \in S
    OBVIOUS
  <2>1. 16 * (k - 1) + i \in DOMAIN all
    <3>1. k <= n
      OBVIOUS
    <3> HIDE DEF n
    <3>2. 16 * (k - 1) + i \in 1 .. 16 * n
      BY <1>1, <3>1
    <3>3. DOMAIN all = 1 .. 16 * n
      BY <1>2
    <3> QED BY <3>2, <3>3
  <2>2. Matches(lst[i]) <=> Fits(all[16 * (k - 1) + i], name)
    BY <1>2 DEF Matches, Fits
  <2> QED BY <1>3, <2>1, <2>2 DEF Wanted
<1>6. found \in SUBSET (1 .. 16)
  BY <1>3
<1>7. ASSUME found = {}, NEW j \in S PROVE j > 16 * k
  <2>1. j \in Nat /\ j > 16 * (k - 1)
    BY <1>4
  <2>2. j <= 16 * k => j - 16 * (k - 1) \in 1 .. 16 /\ 16 * (k - 1) + (j - 16 * (k - 1)) = j
    BY <1>1, <2>1
  <2>3. ~(j <= 16 * k)
    BY <1>5, <1>7, <2>2
  <2> QED BY <1>1, <2>1, <2>3
<1>8. ASSUME found # {} PROVE S # {} /\ lst[Min(found)] = all[Min(S)]
  <2>1. FirstBlock(S, k, found)
    BY <1>1, <1>4, <1>5, <1>6, <1>8 DEF FirstBlock
  <2>2. Min(found) \in 1 .. 16 /\ 16 * (k - 1) + Min(found) \in S /\ Min(S) = 16 * (k - 1) + Min(found)
    BY <2>1, FirstInBlock
  <2> QED BY <1>2, <2>2
<1> QED BY <1>7, <1>8

\* What exec() looks for, and what load_executable() looks for again.
LEMMA WantedIs ==
  ASSUME disk \in Volumes, Called
  PROVE  LET m == Min(Wanted(argument))
             e == RootEntries(disk)[m]
         IN  /\ FirstMatch(RootEntries(disk), Text(argument))
                  = IF Wanted(argument) = {} THEN None ELSE e
             /\ Wanted(argument) # {} =>
                  e \in Entries /\ Readable(disk, e)
                  /\ Wanted(filename(e)) # {} /\ Min(Wanted(filename(e))) = m
<1> DEFINE m == Min(Wanted(argument))
           e == RootEntries(disk)[m]
<1>1. PICK text \in Arguments : argument = Stored(text, Len(text) + 1)
  BY DEF Called
<1>2. Text(argument) = text
  BY <1>1, ArgumentFacts
<1>3. FirstMatch(RootEntries(disk), text) = IF Wanted(argument) = {} THEN None ELSE e
  BY <1>1, FirstMatchIs
<1>4. Readable(disk, FirstMatch(RootEntries(disk), text))
  BY StartupAssumption
<1>5. Wanted(argument) # {} => Wanted(filename(e)) # {} /\ Min(Wanted(filename(e))) = m
  BY <1>1, NameAgain
<1>6. Wanted(argument) # {} => e \in Entries
  BY WantedType
<1> QED BY <1>2, <1>3, <1>4, <1>5, <1>6

\* elf.c:26 is right about the first cluster when it is in the low word.
LEMMA FirstClusterIs ==
  ASSUME NEW e \in Entries
  PROVE  /\ e.low \in Nat /\ e.high \in Nat /\ e.size \in Nat /\ FirstClusterOf(e) \in Nat
         /\ FirstCluster(e) = 0 <=> e.high = 0 /\ e.low = 0
         /\ e.high = 0 => FirstCluster(e) = e.low /\ FirstClusterOf(e) = e.low
<1>1. e.low \in Nat /\ e.high \in Nat /\ e.size \in Nat
  BY DEF Entries
<1> QED BY <1>1 DEF FirstCluster, FirstClusterOf

\* The two uses of what was found.
FoundFirstTime(e) ==
  /\ file' = e /\ find_file(filename(e), "load")
  /\ UNCHANGED <<memory, argument, entry, space, buffer, result>>

FoundAgain(e) ==
  /\ entry' = e /\ cluster' = FirstClusterOf(e)
  /\ read_cluster(FirstClusterOf(e)) /\ pc' = "read"
  /\ space' = BufferSize(e) /\ buffer' = <<>>
  /\ UNCHANGED <<memory, argument, file, result>>

\* exec() has found the entry: another search from the start of the root directory.
LEMMA SearchFrom ==
  ASSUME disk \in Volumes, FatInv, pc = "find", disk' = disk,
         NEW e \in Entries, FirstWanted(e), FoundFirstTime(e)
  PROVE  FatInv'
<1>1. /\ file' = e /\ name' = filename(e) /\ caller' = "load" /\ pc' = "find" /\ cluster' = disk.root
      /\ Command(cluster2lba(disk.root), disk.spc) /\ entry' = entry /\ space' = space /\ buffer' = buffer
      /\ result' = result /\ fat_begin' = fat_begin /\ cluster_begin' = cluster_begin
      /\ argument' = argument
  BY DEF FoundFirstTime, find_file, read_cluster, memory
<1>2. cluster2lba(disk.root) = DataLba(disk.root) /\ disk.root \in Nat
  BY KernelReads, VolumeFacts
<1>3. DriveType' /\ drive'.lba = DataLba(disk.root)
  <2>1. Command(DataLba(disk.root), disk.spc)
    BY <1>1, <1>2
  <2> QED BY <1>2, <2>1, ReadsCluster
<1>4. 1 \in 1 .. Len(RootChain) /\ RootChain[1] = disk.root
  BY RootStart
<1>5. \A j \in Wanted(name') : j > 16 * (1 - 1)
  BY WantedType
<1>6. Finding /\ result = "none"
  BY DEF FatInv
<1>7. Finding'
  <2>1. Wanted(name)' = Wanted(name')
    BY DEF Wanted
  <2>2. DataLba(cluster)' = DataLba(disk.root)
    BY <1>1 DEF DataLba
  <2>3. RootChain' = RootChain
    BY WantedKept
  <2>4. Called' /\ entry' = None /\ space' = 0 /\ buffer' = <<>>
    BY <1>1, <1>6 DEF Finding, Called
  <2>5. FirstWanted(file)'
    <3>1. Wanted(argument)' = Wanted(argument)
      BY <1>1 DEF Wanted
    <3> QED BY <1>1, <3>1 DEF FirstWanted
  <2>6. name' = filename(file)'
    BY <1>1
  <2>7. \E k \in 1 .. Len(RootChain)' :
          /\ cluster' = RootChain[k]'
          /\ pc' = "find" => drive'.lba = DataLba(cluster)' /\ \A j \in Wanted(name)' : j > 16 * (k - 1)
          /\ pc' = "find next" => drive'.lba = FatLba(cluster)' /\ \A j \in Wanted(name)' : j > 16 * k
    BY <1>1, <1>3, <1>4, <1>5, <2>1, <2>2, <2>3
  <2> QED BY <1>1, <2>4, <2>5, <2>6, <2>7 DEF Finding
<1>8. BufferFits' /\ FindsFirst' /\ ReadsWholeFile'
  <2>1. result' = "none"
    BY <1>1, <1>6
  <2>2. BufferFits'
    BY <1>1 DEF FatInv, BufferFits, Followed
  <2> QED BY <2>1, <2>2 DEF FindsFirst, ReadsWholeFile
<1>9. fat_begin' = FatBegin(disk)' /\ cluster_begin' = ClusterBegin(disk)'
  BY <1>1 DEF FatInv
<1> QED BY <1>1, <1>3, <1>6, <1>7, <1>8, <1>9 DEF FatInv

\* The file is found: its first cluster is read.
LEMMA ReadStarts ==
  ASSUME disk \in Volumes, FatInv, pc = "find", disk' = disk,
         NEW e \in Entries, FirstWanted(e), file = e, FoundAgain(e)
  PROVE  FatInv'
<1>1. /\ Command(cluster2lba(FirstClusterOf(e)), disk.spc) /\ file' = file /\ argument' = argument
      /\ result' = result /\ fat_begin' = fat_begin /\ cluster_begin' = cluster_begin
      /\ entry' = e /\ cluster' = FirstClusterOf(e) /\ pc' = "read"
      /\ space' = BufferSize(e) /\ buffer' = <<>>
  BY DEF FoundAgain, read_cluster, memory
<1>2. Called /\ result = "none"
  BY DEF FatInv, Finding
<1>3. e \in Entries /\ Readable(disk, e)
  BY <1>2, WantedIs DEF FirstWanted
<1> DEFINE c == FirstClusterOf(e)
<1>4. /\ e.low \in Nat /\ e.size \in Nat /\ c \in Nat
      /\ FirstCluster(e) = 0 <=> e.high = 0 /\ e.low = 0
      /\ e.high = 0 => FirstCluster(e) = e.low /\ c = e.low
  BY <1>3, FirstClusterIs
<1> HIDE DEF c
<1>5. DriveType' /\ drive'.lba = DataLba(c)
  <2>1. cluster2lba(c) = DataLba(c)
    BY KernelReads
  <2>2. Command(DataLba(c), disk.spc)
    BY <1>1, <2>1 DEF c
  <2> QED BY <1>4, <2>2, ReadsCluster
<1>6. Called' /\ FirstWanted(entry)' /\ file' = entry' /\ space' = BufferSize(entry)'
  <2>1. Wanted(argument)' = Wanted(argument)
    BY <1>1 DEF Wanted
  <2> QED BY <1>1, <1>2, <2>1 DEF Called, FirstWanted, BufferSize
<1>7. ASSUME e.high = 0, e.low # 0 PROVE ReadingChain'
  <2>1. Sound(disk, e.low)
    BY <1>3, <1>4, <1>7 DEF Readable
  <2> DEFINE s == Chain(disk, e.low)
  <2>2. s[1] = e.low /\ 1 \in 1 .. Len(s)
    BY <1>4, <2>1, VolumeFacts, SoundChain
  <2>3. Chain(disk, entry.low)' = s
    BY <1>1
  <2>4. ReadUpTo(1 - 1)'
    <3>1. [j \in 1 .. 1 - 1 |-> Data(s[j])] = <<>>
      OBVIOUS
    <3>2. ReadUpTo(1 - 1)' <=> buffer' = [j \in 1 .. 1 - 1 |-> Data(s[j])]
      BY <2>3 DEF ReadUpTo
    <3> QED BY <1>1, <3>1, <3>2
  <2>5. DataLba(cluster)' = DataLba(e.low) /\ cluster' = e.low /\ c = e.low
    BY <1>1, <1>4, <1>7 DEF DataLba, c
  <2> QED BY <1>1, <1>5, <1>7, <2>2, <2>3, <2>4, <2>5 DEF ReadingChain
<1>8. ASSUME FirstCluster(e) = 0 PROVE ReadingNone'
  <2>1. FirstCluster(entry)' = 0 /\ cluster' = 0
    BY <1>1, <1>4, <1>8 DEF c
  <2> QED BY <1>1, <2>1 DEF ReadingNone
<1>12. ASSUME e.high # 0 PROVE Astray'
  <2>1. FirstCluster(entry)' # 0 /\ cluster' \in Nat /\ entry'.high # 0
    BY <1>1, <1>4, <1>12 DEF c
  <2>2. buffer' \in Seq(Sectors')
    BY <1>1
  <2> QED BY <2>1, <2>2 DEF Astray
<1>9. Reading'
  BY <1>4, <1>6, <1>7, <1>8, <1>12 DEF Reading
<1>10. BufferFits' /\ FindsFirst' /\ ReadsWholeFile'
  <2>1. BufferFits'
    <3>1. space' = e.size + 512
      BY <1>1, Integral, Numbers DEF BufferSize
    <3> QED BY <1>1, <1>4, <3>1, Numbers DEF BufferFits
  <2> QED BY <1>1, <1>2, <2>1 DEF FindsFirst, ReadsWholeFile
<1>11. fat_begin' = FatBegin(disk)' /\ cluster_begin' = ClusterBegin(disk)'
  BY <1>1 DEF FatInv
<1> QED BY <1>1, <1>2, <1>5, <1>9, <1>10, <1>11 DEF FatInv

\* What Finding says of a place in the root directory.
FindingAt(k) ==
  /\ k \in 1 .. Len(RootChain) /\ cluster = RootChain[k]
  /\ pc = "find" => drive.lba = DataLba(cluster) /\ \A j \in Wanted(name) : j > 16 * (k - 1)
  /\ pc = "find next" => drive.lba = FatLba(cluster) /\ \A j \in Wanted(name) : j > 16 * k

\* The search goes on for the same name.
LEMMA FindingOn ==
  ASSUME Finding, disk' = disk, UNCHANGED <<search, buffer>>, NEW k, FindingAt(k)'
  PROVE  Finding'
<1>1. /\ argument' = argument /\ name' = name /\ caller' = caller /\ file' = file
      /\ entry' = entry /\ space' = space /\ buffer' = buffer
  BY DEF search
<1>2. Called' /\ entry' = None /\ space' = 0 /\ buffer' = <<>>
  BY <1>1 DEF Finding, Called
<1>3. FirstWanted(file)' = FirstWanted(file) /\ filename(file)' = filename(file)
  <2>1. Wanted(argument)' = Wanted(argument)
    BY <1>1 DEF Wanted
  <2> QED BY <1>1, <2>1 DEF FirstWanted
<1>4. \/ caller' = "exec" /\ name' = argument'
      \/ caller' = "load" /\ FirstWanted(file)' /\ name' = filename(file)'
  BY <1>1, <1>3 DEF Finding
<1>5. \E i \in 1 .. Len(RootChain)' :
        /\ cluster' = RootChain[i]'
        /\ pc' = "find" => drive'.lba = DataLba(cluster)' /\ \A j \in Wanted(name)' : j > 16 * (i - 1)
        /\ pc' = "find next" => drive'.lba = FatLba(cluster)' /\ \A j \in Wanted(name)' : j > 16 * i
  BY DEF FindingAt
<1> QED BY <1>2, <1>4, <1>5 DEF Finding

LEMMA FindStep ==
  ASSUME disk \in Volumes, FatInv, Find
  PROVE  FatInv'
<1>1. /\ pc = "find" /\ disk' = disk /\ fat_begin' = fat_begin /\ cluster_begin' = cluster_begin
      /\ result' = result /\ memory' = memory
  BY DEF Find, At, memory
<1>2. Finding /\ result = "none"
  BY <1>1 DEF FatInv
<1>3. PICK k \in 1 .. Len(RootChain) :
        /\ cluster = RootChain[k] /\ drive.lba = DataLba(cluster)
        /\ \A j \in Wanted(name) : j > 16 * (k - 1)
  BY <1>1, <1>2 DEF Finding
<1>4. PICK lst \in Lists :
        LET found == {i \in DOMAIN lst : Matches(lst[i])}
        IN  IF found # {} THEN Found(lst[Min(found)])
            ELSE read_fat(cluster) /\ pc' = "find next" /\ UNCHANGED <<search, cluster, buffer>>
  BY DEF Find
<1>5. cluster \in Nat /\ cluster >= 2 /\ k \in Nat
  BY <1>3, RootNear
<1>6. lst = EntriesOf(disk, Data(RootChain[k]))
  BY <1>3, <1>5, ListsAre
<1> DEFINE found == {i \in DOMAIN lst : Matches(lst[i])}
           e == lst[Min(found)]
<1>7. /\ found = {} => \A j \in Wanted(name) : j > 16 * k
      /\ found # {} => Wanted(name) # {} /\ e = RootEntries(disk)[Min(Wanted(name))]
  BY <1>3, <1>6, FindsInBlock
<1>8. ASSUME found = {} PROVE FatInv'
  <2>1. /\ read_fat(cluster) /\ pc' = "find next" /\ cluster' = cluster /\ UNCHANGED <<search, buffer>>
    BY <1>4, <1>8
  <2>2. buffer' = buffer /\ space' = space /\ entry' = entry
    BY <2>1 DEF search
  <2>3. DriveType' /\ drive'.lba = FatLba(cluster)
    <3>1. Command(FatLba(cluster), 1)
      BY <1>1, <2>1, KernelReads DEF read_fat, read_sector
    <3> QED BY <1>5, <3>1, ReadsFat
  <2>4. FindingAt(k)'
    <3>1. RootChain' = RootChain /\ FatLba(cluster)' = FatLba(cluster) /\ Wanted(name)' = Wanted(name)
      BY <1>1, <2>1 DEF RootChain, FatLba, Wanted, search
    <3>2. \A j \in Wanted(name)' : j > 16 * k
      BY <1>7, <1>8, <3>1
    <3> QED BY <1>3, <2>1, <2>3, <3>1, <3>2 DEF FindingAt
  <2>5. Finding'
    BY <1>1, <1>2, <2>1, <2>4, FindingOn
  <2>6. BufferFits' /\ FindsFirst' /\ ReadsWholeFile'
    <3>1. BufferFits'
      BY <1>1, <2>2 DEF FatInv, BufferFits, Followed
    <3> QED BY <1>1, <1>2, <3>1 DEF FindsFirst, ReadsWholeFile
  <2>7. fat_begin' = FatBegin(disk)' /\ cluster_begin' = ClusterBegin(disk)'
    BY <1>1 DEF FatInv
  <2> QED BY <1>1, <1>2, <2>1, <2>3, <2>5, <2>6, <2>7 DEF FatInv
<1>9. ASSUME found # {} PROVE FatInv'
  <2>1. Found(e)
    BY <1>4, <1>9
  <2>2. Wanted(name) # {} /\ e = RootEntries(disk)[Min(Wanted(name))]
    BY <1>7, <1>9
  <2>3. e \in Entries
    BY <2>2, WantedType
  <2> HIDE DEF e
  <2>4. CASE caller = "exec"
    <3>1. FirstWanted(e)
      BY <1>2, <2>2, <2>4 DEF Finding, FirstWanted
    <3>2. FoundFirstTime(e)
      BY <1>1, <2>1, <2>4 DEF Found, FoundFirstTime
    <3> QED BY <1>1, <2>3, <3>1, <3>2, SearchFrom
  <2>5. CASE caller = "load"
    <3>1. FirstWanted(file) /\ name = filename(file) /\ Called
      BY <1>2, <2>5 DEF Finding
    <3>2. Min(Wanted(name)) = Min(Wanted(argument))
      BY <3>1, WantedIs DEF FirstWanted
    <3>3. e = file
      BY <2>2, <3>1, <3>2 DEF FirstWanted
    <3>4. FoundAgain(e)
      BY <1>1, <2>1, <2>5 DEF Found, FoundAgain
    <3> QED BY <1>1, <2>3, <3>1, <3>3, <3>4, ReadStarts
  <2> QED BY <1>2, <2>4, <2>5 DEF Finding
<1> QED BY <1>8, <1>9

LEMMA FindNextStep ==
  ASSUME disk \in Volumes, FatInv, FindNext
  PROVE  FatInv'
<1>1. /\ pc = "find next" /\ disk' = disk /\ fat_begin' = fat_begin /\ cluster_begin' = cluster_begin
      /\ UNCHANGED <<search, buffer>> /\ buffer' = buffer /\ space' = space /\ argument' = argument
      /\ entry' = entry
  BY DEF FindNext, At, memory, search
<1>2. Finding /\ result = "none"
  BY <1>1 DEF FatInv
<1>3. PICK k \in 1 .. Len(RootChain) :
        /\ cluster = RootChain[k] /\ drive.lba = FatLba(cluster)
        /\ \A j \in Wanted(name) : j > 16 * k
  BY <1>1, <1>2 DEF Finding
<1>4. /\ cluster \in Nat /\ cluster < 128 /\ k \in Nat /\ FatEntry(disk, cluster) \in Nat
      /\ FatEntry(disk, cluster) >= EndOfChain <=> k = Len(RootChain)
      /\ k # Len(RootChain) => k + 1 \in 1 .. Len(RootChain) /\ RootChain[k + 1] = FatEntry(disk, cluster)
  BY <1>3, RootNear
<1> DEFINE next == FatEntry(disk, cluster)
<1>5. NextWords(cluster) = {next}
  BY <1>3, <1>4, NextWordsAre
<1>6. \/ /\ ~IsEnd(next) /\ cluster' = next /\ read_cluster(next) /\ pc' = "find" /\ result' = result
      \/ /\ IsEnd(next) /\ cluster' = cluster
         /\ Return(IF caller = "exec" THEN "not found" ELSE "entry 0")
  BY <1>5 DEF FindNext
<1>7. IsEnd(next) <=> k = Len(RootChain)
  BY <1>4 DEF IsEnd
<1>8. fat_begin' = FatBegin(disk)' /\ cluster_begin' = ClusterBegin(disk)'
  BY <1>1 DEF FatInv
<1>9. BufferFits'
  BY <1>1 DEF FatInv, BufferFits, Followed
<1>10. ASSUME ~IsEnd(next) PROVE FatInv'
  <2>1. cluster' = next /\ read_cluster(next) /\ pc' = "find" /\ result' = result
    BY <1>6, <1>10
  <2>2. DriveType' /\ drive'.lba = DataLba(next)
    <3>1. Command(DataLba(next), disk.spc)
      BY <1>1, <2>1, KernelReads DEF read_cluster
    <3>2. next \in Nat
      BY <1>4
    <3> HIDE DEF next
    <3> QED BY <3>1, <3>2, ReadsCluster
  <2>3. FindingAt(k + 1)'
    <3>1. RootChain' = RootChain /\ DataLba(cluster)' = DataLba(next) /\ Wanted(name)' = Wanted(name)
      BY <1>1, <2>1 DEF RootChain, DataLba, Wanted, search
    <3>2. (k + 1) - 1 = k
      BY <1>4
    <3>3. \A j \in Wanted(name)' : j > 16 * ((k + 1) - 1)
      BY <1>3, <3>1, <3>2
    <3> QED BY <1>4, <1>7, <1>10, <2>1, <2>2, <3>1, <3>3 DEF FindingAt
  <2>4. Finding'
    BY <1>1, <1>2, <2>3, FindingOn
  <2>5. FindsFirst' /\ ReadsWholeFile'
    BY <1>2, <2>1 DEF FindsFirst, ReadsWholeFile
  <2> QED BY <1>2, <1>8, <1>9, <2>1, <2>2, <2>4, <2>5 DEF FatInv
<1>11. ASSUME IsEnd(next) PROVE FatInv'
  <2>1. Return(IF caller = "exec" THEN "not found" ELSE "entry 0")
    BY <1>6, <1>11
  <2>2. Wanted(name) = {}
    <3>1. \A j \in Wanted(name) : j \in Nat /\ j <= 16 * Len(RootChain)
      BY WantedType
    <3>2. 16 * Len(RootChain) = 16 * k
      BY <1>7, <1>11
    <3>3. ASSUME NEW j \in Wanted(name) PROVE FALSE
      <4>1. j \in Nat /\ j <= 16 * k /\ j > 16 * k
        BY <1>3, <3>1, <3>2
      <4> QED BY <1>4, <4>1
    <3> QED BY <3>3
  <2>3. caller = "exec" /\ name = argument /\ Called
    <3>1. CASE caller = "load"
      <4>1. FirstWanted(file) /\ name = filename(file) /\ Called
        BY <1>2, <3>1 DEF Finding
      <4> QED BY <2>2, <4>1, WantedIs DEF FirstWanted
    <3> QED BY <1>2, <3>1 DEF Finding
  <2>4. result' = "not found" /\ pc' = "idle" /\ DriveType'
    BY <2>1, <2>3 DEF Return, FatInv, DriveType
  <2>5. FindsFirst'
    <3>1. FirstMatch(RootEntries(disk), Text(argument)) = None
      BY <2>2, <2>3, WantedIs
    <3>2. FirstMatch(RootEntries(disk), Text(argument))' = None
      BY <1>1, <3>1
    <3> QED BY <2>4, <3>2 DEF FindsFirst
  <2>6. ReadsWholeFile'
    BY <2>4 DEF ReadsWholeFile
  <2> QED BY <1>8, <1>9, <2>4, <2>5, <2>6 DEF FatInv
<1> QED BY <1>10, <1>11

\* What reading goes on with: the same file, and the same buffer.
LEMMA ReadingOn ==
  ASSUME Reading, disk' = disk, UNCHANGED search, ReadingChain' \/ ReadingNone' \/ Astray'
  PROVE  Reading'
<1>1. argument' = argument /\ file' = file /\ entry' = entry /\ space' = space
  BY DEF search
<1>2. Called' /\ FirstWanted(entry)' /\ space' = BufferSize(entry)'
  <2>1. Wanted(argument)' = Wanted(argument)
    BY <1>1 DEF Wanted
  <2> QED BY <1>1, <2>1 DEF Reading, Called, FirstWanted, BufferSize
<1> QED BY <1>1, <1>2 DEF Reading

\* What is known of the file that is read.
LEMMA EntryFacts ==
  ASSUME disk \in Volumes, Reading
  PROVE  /\ entry \in Entries /\ entry.low \in Nat /\ entry.size \in Nat
         /\ space = entry.size + 512 /\ Readable(disk, entry)
         /\ entry = FirstMatch(RootEntries(disk), Text(argument))
<1>1. Called /\ FirstWanted(entry) /\ space = BufferSize(entry)
  BY DEF Reading
<1>2. entry \in Entries /\ Readable(disk, entry) /\ entry = FirstMatch(RootEntries(disk), Text(argument))
  BY <1>1, WantedIs DEF FirstWanted
<1>3. entry.low \in Nat /\ entry.size \in Nat
  BY <1>2 DEF Entries
<1>4. space = entry.size + 512
  BY <1>1, Integral, Numbers DEF BufferSize
<1> QED BY <1>2, <1>3, <1>4

\* A file with a chain, of which k clusters are at hand.
LEMMA EntryChain ==
  ASSUME disk \in Volumes, Reading, entry.high = 0, entry.low # 0,
         NEW k \in 1 .. Len(Chain(disk, entry.low))
  PROVE  LET s == Chain(disk, entry.low)
         IN  /\ Len(s) \in Nat /\ Len(s) <= MaxSectors /\ (Len(s) - 1) * 512 <= entry.size /\ k \in Nat
             /\ s[k] \in Nat /\ s[k] >= 2 /\ FatEntry(disk, s[k]) \in Nat
             /\ Plain(disk, s[k]) =>
                  /\ s[k] < 128
                  /\ FatEntry(disk, s[k]) >= EndOfChain <=> k = Len(s)
                  /\ k # Len(s) => k + 1 \in 1 .. Len(s) /\ s[k + 1] = FatEntry(disk, s[k])
<1>1. entry \in Entries /\ entry.low \in Nat /\ Readable(disk, entry)
  BY EntryFacts
<1>2. FirstCluster(entry) = entry.low
  BY <1>1, FirstClusterIs
<1>3. /\ Sound(disk, entry.low)
      /\ (Len(Chain(disk, entry.low)) - 1) * 512 <= entry.size
      /\ Len(Chain(disk, entry.low)) <= MaxSectors
  BY <1>1, <1>2, Numbers DEF Readable
<1> QED BY <1>1, <1>3, PlainLink

\* What is copied to the buffer is a sector of the disk.
LEMMA SectorsOnly ==
  ASSUME disk \in Volumes, disk' = disk, NEW b \in Seq(Sectors), DriveType
  PROVE  /\ Sectors' = Sectors /\ b \o <<Copied>> \in Seq(Sectors)
         /\ Len(b \o <<Copied>>) = Len(b) + 1
         /\ \A j \in 1 .. Len(b) : (b \o <<Copied>>)[j] = b[j]
<1>1. Sectors' = Sectors
  BY DEF Sectors
<1>2. Copied \in Sectors
  BY DEF Copied, Sectors, DriveType
<1> HIDE DEF Sectors
<1> QED BY <1>1, <1>2

LEMMA ReadStep ==
  ASSUME disk \in Volumes, FatInv, Read
  PROVE  FatInv'
<1>1. /\ pc = "read" /\ pc' = "read next" /\ disk' = disk
      /\ fat_begin' = fat_begin /\ cluster_begin' = cluster_begin
      /\ UNCHANGED search /\ space' = space /\ entry' = entry /\ cluster' = cluster /\ result' = result
      /\ read_fat(cluster)
      /\ buffer' = IF Len(buffer) < MaxSectors THEN CopyNext(buffer) ELSE buffer
  BY DEF Read, At, memory, search
<1>2. Reading /\ result = "none"
  BY <1>1 DEF FatInv
<1>3. /\ entry.low \in Nat /\ entry.size \in Nat /\ space = entry.size + 512
  BY <1>2, EntryFacts
<1>4. CopyNext(buffer) = buffer \o <<Copied>>
  <2>1. [k \in 1 .. 1 |-> IF k = 1 THEN Copied ELSE Unread] = <<Copied>>
    OBVIOUS
  <2> QED BY <2>1, Integral DEF CopyNext
<1>5. ASSUME cluster \in Nat PROVE DriveType' /\ drive'.lba = FatLba(cluster)
  <2>1. Command(FatLba(cluster), 1)
    BY <1>1, KernelReads DEF read_fat, read_sector
  <2> QED BY <1>5, <2>1, ReadsFat
<1>6. FatLba(cluster)' = FatLba(cluster)
  BY <1>1 DEF FatLba
<1>7. ASSUME ReadingChain
      PROVE  ReadingChain' /\ BufferFits' /\ cluster \in Nat
  <2> DEFINE s == Chain(disk, entry.low)
  <2>1. PICK k \in 1 .. Len(s) : cluster = s[k] /\ drive.lba = DataLba(cluster) /\ ReadUpTo(k - 1)
    BY <1>1, <1>7 DEF ReadingChain
  <2>2. /\ Len(s) \in Nat /\ Len(s) <= MaxSectors /\ (Len(s) - 1) * 512 <= entry.size /\ k \in Nat
        /\ s[k] \in Nat /\ s[k] >= 2 /\ entry.high = 0 /\ entry.low # 0
    <3>1. entry.high = 0 /\ entry.low # 0
      BY <1>7 DEF ReadingChain
    <3> QED BY <1>2, <3>1, EntryChain
  <2>3. Copied = Data(s[k])
    BY <2>1, <2>2, VolumeFacts, DataSector DEF Copied, DataLba
  <2>4. buffer = [j \in 1 .. k - 1 |-> Data(s[j])]
    BY <2>1 DEF ReadUpTo
  <2> HIDE DEF s
  <2>5. k - 1 \in Nat /\ (k - 1) + 1 = k
    BY <2>1, <2>2
  <2>6. /\ [j \in 1 .. k - 1 |-> Data(s[j])] \o <<Data(s[k])>> = [j \in 1 .. k |-> Data(s[j])]
        /\ Len([j \in 1 .. k - 1 |-> Data(s[j])]) = k - 1 /\ Len([j \in 1 .. k |-> Data(s[j])]) = k
    <3>1. PICK n \in Nat : n = k - 1 /\ n + 1 = k
      BY <2>5
    <3>2. /\ [j \in 1 .. n |-> Data(s[j])] \o <<Data(s[n + 1])>> = [j \in 1 .. n + 1 |-> Data(s[j])]
          /\ Len([j \in 1 .. n |-> Data(s[j])]) = n /\ Len([j \in 1 .. n + 1 |-> Data(s[j])]) = n + 1
      BY OneMoreSector
    <3> QED BY <3>1, <3>2
  <2>7. MaxSectors \in Nat
    BY StartupAssumption
  <2>8. Len(buffer) < MaxSectors
    BY <2>1, <2>2, <2>4, <2>5, <2>6, <2>7
  <2>9. buffer' = [j \in 1 .. k |-> Data(s[j])]
    BY <1>1, <1>4, <2>3, <2>4, <2>6, <2>8
  <2>10. Len(buffer') = k
    BY <2>6, <2>9
  <2>11. BufferFits'
    <3>1. k * 512 <= entry.size + 512
      BY <1>3, <2>1, <2>2
    <3>2. BytesPerSector = 512
      BY Numbers
    <3>3. space' = entry.size + 512
      BY <1>1, <1>3
    <3> QED BY <2>10, <3>1, <3>2, <3>3 DEF BufferFits
  <2>12. Chain(disk, entry.low)' = s /\ entry'.high = 0 /\ entry'.low # 0
    BY <1>1, <2>2 DEF s
  <2>13. ReadUpTo(k)'
    BY <2>9, <2>12 DEF ReadUpTo
  <2>14. cluster \in Nat
    BY <2>1, <2>2
  <2>15. drive'.lba = FatLba(cluster)'
    BY <1>5, <1>6, <2>14
  <2>16. ReadingChain'
    BY <1>1, <2>1, <2>12, <2>13, <2>15 DEF ReadingChain
  <2> QED BY <2>11, <2>14, <2>16
<1>8. ASSUME ReadingNone
      PROVE  ReadingNone' /\ BufferFits' /\ cluster \in Nat
  <2>1. buffer = <<>> /\ cluster = 0 /\ FirstCluster(entry) = 0
    BY <1>1, <1>8 DEF ReadingNone
  <2>2. buffer' = <<Copied>>
    <3>1. MaxSectors \in Nat /\ MaxSectors > 0
      BY StartupAssumption
    <3>2. Len(<<>>) < MaxSectors
      BY <3>1
    <3>3. <<>> \o <<Copied>> = <<Copied>>
      OBVIOUS
    <3> QED BY <1>1, <1>4, <2>1, <3>2, <3>3
  <2>3. Len(buffer') = 1
    BY <2>2
  <2>4. BufferFits'
    <3>1. 1 * 512 <= entry.size + 512
      BY <1>3
    <3>2. BytesPerSector = 512
      BY Numbers
    <3>3. space' = entry.size + 512
      BY <1>1, <1>3
    <3> QED BY <2>3, <3>1, <3>2, <3>3 DEF BufferFits
  <2>5. FirstCluster(entry)' = 0
    BY <1>1, <2>1
  <2>6. drive'.lba = FatLba(cluster)'
    BY <1>5, <1>6, <2>1
  <2> QED BY <1>1, <2>1, <2>3, <2>4, <2>5, <2>6 DEF ReadingNone
<1>12. ASSUME Astray
       PROVE  Astray' /\ BufferFits' /\ cluster \in Nat
  <2>1. /\ FirstCluster(entry) # 0 /\ cluster \in Nat /\ buffer \in Seq(Sectors)
        /\ Len(buffer) \in Nat
    BY <1>12 DEF Astray
  <2>2. DriveType
    BY DEF FatInv
  <2>3. /\ Sectors' = Sectors /\ buffer' \in Seq(Sectors)
        /\ Len(buffer') >= Len(buffer) /\ Len(buffer') \in Nat
        /\ \A j \in 1 .. Len(buffer) : buffer'[j] = buffer[j]
    <3>1. /\ Sectors' = Sectors /\ buffer \o <<Copied>> \in Seq(Sectors)
          /\ Len(buffer \o <<Copied>>) = Len(buffer) + 1
          /\ \A j \in 1 .. Len(buffer) : (buffer \o <<Copied>>)[j] = buffer[j]
      BY <1>1, <2>1, <2>2, SectorsOnly
    <3>2. buffer' = buffer \o <<Copied>> \/ buffer' = buffer
      BY <1>1, <1>4
    <3>3. CASE buffer' = buffer \o <<Copied>>
      BY <2>1, <3>1, <3>3
    <3>4. CASE buffer' = buffer
      BY <2>1, <3>1, <3>4
    <3> QED BY <3>2, <3>3, <3>4
  <2>4. FirstCluster(entry)' # 0 /\ Chain(disk, entry.low)' = Chain(disk, entry.low)
    BY <1>1, <2>1
  <2>5. ASSUME entry.high = 0
        PROVE  /\ \E m \in 1 .. Len(Chain(disk, entry.low)) :
                    /\ ~Plain(disk, Chain(disk, entry.low)[m]) /\ m <= Len(buffer')
                    /\ \A j \in 1 .. m : buffer'[j] = Data(Chain(disk, entry.low)[j])
               /\ ~Near(disk, entry.low)
    <3>1. PICK m \in 1 .. Len(Chain(disk, entry.low)) :
            /\ ~Plain(disk, Chain(disk, entry.low)[m]) /\ m <= Len(buffer)
            /\ \A j \in 1 .. m : buffer[j] = Data(Chain(disk, entry.low)[j])
      BY <1>12, <2>5 DEF Astray
    <3>2. m \in Nat /\ m <= Len(buffer') /\ \A j \in 1 .. m : j \in 1 .. Len(buffer)
      BY <2>1, <2>3, <3>1
    <3>3. \A j \in 1 .. m : buffer'[j] = Data(Chain(disk, entry.low)[j])
      BY <2>3, <3>1, <3>2
    <3>4. ~Near(disk, entry.low)
      <4>1. entry \in Entries /\ entry.low \in Nat /\ Readable(disk, entry)
        BY <1>2, EntryFacts
      <4>2. Sound(disk, entry.low)
        BY <2>1, <2>5, <4>1, FirstClusterIs DEF Readable
      <4>3. Chain(disk, entry.low) \in Seq(Nat)
        BY <4>1, <4>2, VolumeFacts, SoundChain
      <4>4. m \in DOMAIN Chain(disk, entry.low)
        BY <4>3
      <4> QED BY <3>1, <4>4 DEF Near
    <3> QED BY <3>1, <3>2, <3>3, <3>4
  <2>6. BufferFits'
    BY <1>1, <2>1, <2>5 DEF BufferFits, Followed
  <2>7. entry.high = 0 =>
          \E m \in 1 .. Len(Chain(disk, entry.low)) :
            /\ ~Plain(disk, Chain(disk, entry.low)[m]) /\ m <= Len(buffer')
            /\ \A j \in 1 .. m : buffer'[j] = Data(Chain(disk, entry.low)[j])
    BY <2>5
  <2>8. Astray'
    BY <1>1, <2>1, <2>3, <2>4, <2>7 DEF Astray
  <2> QED BY <2>1, <2>6, <2>8
<1>9. Reading' /\ BufferFits' /\ cluster \in Nat
  <2>1. ReadingChain \/ ReadingNone \/ Astray
    BY <1>2 DEF Reading
  <2>2. ReadingChain' \/ ReadingNone' \/ Astray'
    BY <1>7, <1>8, <1>12, <2>1
  <2> QED BY <1>1, <1>2, <1>7, <1>8, <1>12, <2>1, <2>2, ReadingOn
<1>10. FindsFirst' /\ ReadsWholeFile'
  BY <1>1, <1>2 DEF FindsFirst, ReadsWholeFile
<1>11. fat_begin' = FatBegin(disk)' /\ cluster_begin' = ClusterBegin(disk)'
  BY <1>1 DEF FatInv
<1> QED BY <1>1, <1>2, <1>5, <1>9, <1>10, <1>11 DEF FatInv

\* read_file() is done, and exec() returns.
LEMMA ReadEnds ==
  ASSUME disk \in Volumes, FatInv, pc = "read next", disk' = disk,
         fat_begin' = fat_begin, cluster_begin' = cluster_begin, UNCHANGED search, buffer' = buffer,
         Return(IF elf_check(buffer) THEN "loaded" ELSE "entry 0"),
         entry.high = 0 /\ entry.low # 0 => ReadRight(disk, entry.low, buffer)
  PROVE  FatInv'
<1>1. argument' = argument /\ file' = file /\ entry' = entry /\ space' = space
  BY DEF search
<1>2. Reading
  BY DEF FatInv
<1>3. pc' = "idle" /\ result' \in {"loaded", "entry 0"} /\ DriveType'
  <2>1. pc' = "idle" /\ (result' = "loaded" \/ result' = "entry 0")
    BY DEF Return
  <2>2. DriveType'
    BY DEF Return, FatInv, DriveType
  <2> QED BY <2>1, <2>2
<1>4. BufferFits'
  BY <1>1 DEF FatInv, BufferFits, Followed
<1>5. FindsFirst'
  <2>1. entry = file /\ file = FirstMatch(RootEntries(disk), Text(argument))
    BY <1>2, EntryFacts DEF Reading
  <2>2. entry' = file' /\ file' = FirstMatch(RootEntries(disk), Text(argument))'
    BY <1>1, <2>1
  <2>3. result' # "not found"
    BY <1>3
  <2> QED BY <2>2, <2>3 DEF FindsFirst
<1>6. ReadsWholeFile'
  <2>1. ReadRight(disk, entry.low, buffer)' = ReadRight(disk, entry.low, buffer)
    BY <1>1
  <2> QED BY <1>1, <2>1 DEF ReadsWholeFile
<1>7. fat_begin' = FatBegin(disk)' /\ cluster_begin' = ClusterBegin(disk)'
  BY DEF FatInv
<1> QED BY <1>3, <1>4, <1>5, <1>6, <1>7 DEF FatInv

\* Where reading went on from a cluster that find_next_cluster() is not right for.
LEMMA RightSoFar ==
  ASSUME disk \in Volumes, Reading, entry.high = 0, entry.low # 0,
         NEW m \in 1 .. Len(Chain(disk, entry.low)),
         ~Plain(disk, Chain(disk, entry.low)[m]) \/ Len(buffer) = Len(Chain(disk, entry.low)),
         m <= Len(buffer), m = Len(Chain(disk, entry.low)) \/ ~Plain(disk, Chain(disk, entry.low)[m]),
         \A j \in 1 .. m : buffer[j] = Data(Chain(disk, entry.low)[j]), Len(buffer) \in Nat
  PROVE  ReadRight(disk, entry.low, buffer)
<1> DEFINE s == Chain(disk, entry.low)
<1>1. entry \in Entries /\ entry.low \in Nat /\ Readable(disk, entry)
  BY EntryFacts
<1>2. Sound(disk, entry.low)
  BY <1>1, FirstClusterIs DEF Readable
<1>3. s \in Seq(Nat) /\ Len(s) \in Nat /\ DOMAIN s = 1 .. Len(s)
  BY <1>1, <1>2, VolumeFacts, SoundChain
<1>4. ChainSectors(disk, entry.low) = [j \in 1 .. Len(s) |-> Data(s[j])]
  BY <1>1, VolumeFacts, SectorsOfChain
<1> HIDE DEF s
<1>5. ASSUME NEW k \in DOMAIN s, \A j \in 1 .. k - 1 : Plain(disk, s[j])
      PROVE  k <= Len(buffer) /\ buffer[k] = ChainSectors(disk, entry.low)[k]
  <2>1. k \in 1 .. Len(s) /\ k \in Nat /\ m \in Nat
    BY <1>3 DEF s
  <2>2. k <= m
    <3>1. m < k => m \in 1 .. k - 1 /\ m # Len(s)
      BY <1>3, <2>1 DEF s
    <3> QED BY <1>5, <2>1, <3>1 DEF s
  <2>3. k \in 1 .. m
    BY <2>1, <2>2
  <2> QED BY <1>4, <2>1, <2>2, <2>3 DEF s
<1>6. Near(disk, entry.low) => Len(buffer) = Len(s)
  <2>1. m \in DOMAIN s
    BY <1>3 DEF s
  <2> QED BY <2>1 DEF Near, s
<1> QED BY <1>5, <1>6 DEF ReadRight, s

\* Reading goes on in that cluster, of the file or not.
LEMMA ReadGoesOn ==
  ASSUME disk \in Volumes, FatInv, pc = "read next", disk' = disk,
         fat_begin' = fat_begin, cluster_begin' = cluster_begin, UNCHANGED search, buffer' = buffer,
         NEW next \in Nat, cluster' = next, read_cluster(next), pc' = "read", result' = result,
         DriveType' /\ drive'.lba = DataLba(next) => ReadingChain' \/ Astray'
  PROVE  FatInv'
<1>1. argument' = argument /\ file' = file /\ entry' = entry /\ space' = space
  BY DEF search
<1>2. Reading /\ result = "none"
  BY DEF FatInv
<1>3. DriveType' /\ drive'.lba = DataLba(next)
  <2>1. Command(DataLba(next), disk.spc)
    BY KernelReads DEF read_cluster
  <2> QED BY <2>1, ReadsCluster
<1>4. Reading'
  BY <1>2, <1>3, ReadingOn
<1>5. BufferFits' /\ FindsFirst' /\ ReadsWholeFile'
  <2>1. BufferFits'
    BY <1>1 DEF FatInv, BufferFits, Followed
  <2> QED BY <1>2, <2>1 DEF FindsFirst, ReadsWholeFile
<1>6. fat_begin' = FatBegin(disk)' /\ cluster_begin' = ClusterBegin(disk)'
  BY DEF FatInv
<1> QED BY <1>2, <1>3, <1>4, <1>5, <1>6 DEF FatInv

LEMMA ReadNextStep ==
  ASSUME disk \in Volumes, FatInv, ReadNext
  PROVE  FatInv'
<1>1. /\ pc = "read next" /\ disk' = disk /\ fat_begin' = fat_begin /\ cluster_begin' = cluster_begin
      /\ UNCHANGED search /\ buffer' = buffer /\ space' = space /\ entry' = entry
  BY DEF ReadNext, At, memory, search
<1>2. Reading /\ result = "none" /\ DriveType
  BY <1>1 DEF FatInv
<1>3. entry \in Entries /\ Readable(disk, entry) /\ entry.low \in Nat
  BY <1>2, EntryFacts
<1>4. PICK next \in NextWords(cluster) :
        \/ /\ ~IsEnd(next) /\ cluster' = next /\ read_cluster(next) /\ pc' = "read" /\ result' = result
        \/ /\ IsEnd(next) /\ Return(IF elf_check(buffer) THEN "loaded" ELSE "entry 0")
  BY DEF ReadNext
<1>5. next \in Nat
  BY <1>4, NextWordsNat
<1>6. CASE ReadingNone
  <2>1. cluster = 0 /\ drive.lba = FatLba(cluster) /\ FirstCluster(entry) = 0
    BY <1>1, <1>6 DEF ReadingNone
  <2>2. next = FatEntry(disk, 0)
    <3>1. 0 \in Nat /\ 0 < 128 /\ drive.lba = FatLba(0)
      BY <2>1
    <3>2. NextWords(0) = {FatEntry(disk, 0)}
      BY <3>1, NextWordsAre
    <3> QED BY <1>4, <2>1, <3>2
  <2>3. IsEnd(next)
    BY <2>2, VolumeFacts DEF WellFormed, IsEnd
  <2>4. Return(IF elf_check(buffer) THEN "loaded" ELSE "entry 0")
    BY <1>4, <2>3
  <2>5. ~(entry.high = 0 /\ entry.low # 0)
    BY <1>3, <2>1, FirstClusterIs
  <2> QED BY <1>1, <2>4, <2>5, ReadEnds
<1>7. CASE ReadingChain
  <2> DEFINE s == Chain(disk, entry.low)
  <2>1. PICK k \in 1 .. Len(s) : cluster = s[k] /\ drive.lba = FatLba(cluster) /\ ReadUpTo(k)
    BY <1>1, <1>7 DEF ReadingChain
  <2>2. entry.high = 0 /\ entry.low # 0 /\ FirstCluster(entry) # 0
    BY <1>3, <1>7, FirstClusterIs DEF ReadingChain
  <2>3. /\ Len(s) \in Nat /\ k \in Nat /\ s[k] \in Nat /\ FatEntry(disk, s[k]) \in Nat
        /\ Plain(disk, s[k]) =>
             /\ s[k] < 128
             /\ FatEntry(disk, s[k]) >= EndOfChain <=> k = Len(s)
             /\ k # Len(s) => k + 1 \in 1 .. Len(s) /\ s[k + 1] = FatEntry(disk, s[k])
    BY <1>2, <2>2, EntryChain
  <2>4. buffer = [j \in 1 .. k |-> Data(s[j])]
    BY <2>1 DEF ReadUpTo
  <2> HIDE DEF s
  <2>5. Len(buffer) = k /\ \A j \in 1 .. k : buffer[j] = Data(s[j])
    BY <2>3, <2>4
  <2>6. Plain(disk, s[k]) => next = FatEntry(disk, s[k]) /\ (IsEnd(next) <=> k = Len(s))
    <3> SUFFICES ASSUME Plain(disk, s[k])
                 PROVE  next = FatEntry(disk, s[k]) /\ (IsEnd(next) <=> k = Len(s))
      OBVIOUS
    <3>1. NextWords(s[k]) = {FatEntry(disk, s[k])}
      BY <2>1, <2>3, NextWordsAre
    <3> QED BY <1>4, <2>1, <2>3, <3>1 DEF IsEnd
  <2>7. ASSUME IsEnd(next) PROVE FatInv'
    <3>1. Return(IF elf_check(buffer) THEN "loaded" ELSE "entry 0")
      BY <1>4, <2>7
    <3>2. k = Len(s) \/ ~Plain(disk, s[k])
      BY <2>6, <2>7
    <3>3. ~Plain(disk, s[k]) \/ Len(buffer) = Len(s)
      BY <2>5, <3>2
    <3>4. ReadRight(disk, entry.low, buffer)
      <4>1. k <= Len(buffer) /\ Len(buffer) \in Nat
        BY <2>3, <2>5
      <4> QED BY <1>2, <2>1, <2>2, <2>5, <3>2, <3>3, <4>1, RightSoFar DEF s
    <3> QED BY <1>1, <3>1, <3>4, ReadEnds
  <2>8. ASSUME ~IsEnd(next), Plain(disk, s[k]) PROVE FatInv'
    <3>1. cluster' = next /\ read_cluster(next) /\ pc' = "read" /\ result' = result
      BY <1>4, <2>8
    <3>2. next = s[k + 1] /\ k + 1 \in 1 .. Len(s) /\ (k + 1) - 1 = k
      BY <2>3, <2>6, <2>8
    <3>3. Chain(disk, entry.low)' = s /\ entry'.high = 0 /\ entry'.low # 0
      BY <1>1, <2>2 DEF s
    <3>4. ReadUpTo((k + 1) - 1)'
      BY <1>1, <2>4, <3>2, <3>3 DEF ReadUpTo
    <3>5. DataLba(cluster)' = DataLba(next)
      BY <1>1, <3>1 DEF DataLba
    <3>6. drive'.lba = DataLba(next) => ReadingChain'
      BY <3>1, <3>2, <3>3, <3>4, <3>5 DEF ReadingChain
    <3> QED BY <1>1, <1>5, <3>1, <3>6, ReadGoesOn
  <2>9. ASSUME ~IsEnd(next), ~Plain(disk, s[k]) PROVE FatInv'
    <3>1. cluster' = next /\ read_cluster(next) /\ pc' = "read" /\ result' = result
      BY <1>4, <2>9
    <3>2. Chain(disk, entry.low)' = s /\ FirstCluster(entry)' # 0
      BY <1>1, <2>2 DEF s
    <3>3. buffer' \in Seq(Sectors')
      <4>1. \A j \in 1 .. k : Data(s[j]) \in Sectors
        <5> SUFFICES ASSUME NEW j \in 1 .. k PROVE Data(s[j]) \in Sectors
          OBVIOUS
        <5>1. j \in 1 .. Len(s)
          BY <2>1, <2>3
        <5>2. s[j] \in Nat /\ s[j] >= 2
          BY <1>2, <2>2, <5>1, EntryChain DEF s
        <5>3. Data(s[j]) = SectorAt(disk, DataLba(s[j])) /\ DataLba(s[j]) \in Int
          BY <5>2, VolumeFacts, DataSector, Integral DEF DataLba
        <5> QED BY <5>3 DEF Sectors
      <4>2. Sectors' = Sectors
        BY <1>1 DEF Sectors
      <4> HIDE DEF Sectors
      <4>3. [j \in 1 .. k |-> Data(s[j])] \in Seq(Sectors)
        BY <2>3, <4>1
      <4> QED BY <1>1, <2>4, <4>2, <4>3
    <3>4. k <= Len(buffer') /\ \A j \in 1 .. k : buffer'[j] = Data(s[j])
      <4>1. buffer' = buffer
        BY <1>1
      <4>2. k <= Len(buffer)
        BY <2>3, <2>5
      <4> QED BY <2>5, <4>1, <4>2
    <3>5. ~Plain(disk', s[k]) /\ cluster' \in Nat
      BY <1>1, <1>5, <2>9, <3>1
    <3>6. Astray'
      BY <1>1, <2>1, <2>9, <3>2, <3>3, <3>4, <3>5 DEF Astray
    <3> QED BY <1>1, <1>5, <3>1, <3>6, ReadGoesOn
  <2> QED BY <2>7, <2>8, <2>9
<1>8. CASE Astray
  <2>1. FirstCluster(entry) # 0 /\ buffer \in Seq(Sectors) /\ Len(buffer) \in Nat
    BY <1>8 DEF Astray
  <2>2. ASSUME IsEnd(next) PROVE FatInv'
    <3>1. Return(IF elf_check(buffer) THEN "loaded" ELSE "entry 0")
      BY <1>4, <2>2
    <3>2. ASSUME entry.high = 0, entry.low # 0 PROVE ReadRight(disk, entry.low, buffer)
      <4>1. PICK m \in 1 .. Len(Chain(disk, entry.low)) :
              /\ ~Plain(disk, Chain(disk, entry.low)[m]) /\ m <= Len(buffer)
              /\ \A j \in 1 .. m : buffer[j] = Data(Chain(disk, entry.low)[j])
        BY <1>8, <3>2 DEF Astray
      <4> QED BY <1>2, <2>1, <3>2, <4>1, RightSoFar
    <3> QED BY <1>1, <3>1, <3>2, ReadEnds
  <2>3. ASSUME ~IsEnd(next) PROVE FatInv'
    <3>1. cluster' = next /\ read_cluster(next) /\ pc' = "read" /\ result' = result
      BY <1>4, <2>3
    <3>2. Sectors' = Sectors
      BY <1>1 DEF Sectors
    <3>3. Astray'
      BY <1>1, <1>5, <1>8, <3>1, <3>2 DEF Astray
    <3> QED BY <1>1, <1>5, <3>1, <3>3, ReadGoesOn
  <2> QED BY <2>2, <2>3
<1> QED BY <1>2, <1>6, <1>7, <1>8 DEF Reading

LEMMA StartStep ==
  ASSUME disk \in Volumes, FatInv, ReadTable \/ ReadVolume \/ SetVolume
  PROVE  FatInv'
<1>1. /\ disk' = disk /\ UNCHANGED search /\ buffer' = buffer /\ result' = result
      /\ entry' = entry /\ file' = file /\ space' = space /\ argument' = argument
      /\ pc \in {"boot", "table", "volume"}
  <2>1. CASE ReadTable
    BY <2>1 DEF ReadTable, search
  <2>2. CASE ReadVolume
    BY <2>2 DEF ReadVolume, search, At
  <2>3. CASE SetVolume
    BY <2>3 DEF SetVolume, search, At
  <2> QED BY <2>1, <2>2, <2>3
<1>2. result = "none"
  BY <1>1 DEF FatInv
<1>3. BufferFits' /\ FindsFirst' /\ ReadsWholeFile'
  <2>1. BufferFits'
    BY <1>1 DEF FatInv, BufferFits, Followed
  <2> QED BY <1>1, <1>2, <2>1 DEF FindsFirst, ReadsWholeFile
<1>4. CASE ReadTable
  <2>1. Command(0, 1) /\ pc' = "table"
    BY <1>4 DEF ReadTable, read_sector
  <2>2. DriveType'
    BY <2>1, CommandType
  <2> QED BY <1>1, <1>2, <1>3, <2>1, <2>2 DEF FatInv
<1>5. CASE ReadVolume
  <2>1. Command(disk.lba, 1) /\ pc' = "volume"
    BY <1>5 DEF ReadVolume, read_sector
  <2>2. disk.lba \in Int
    BY VolumeFacts DEF Geometry
  <2>3. DriveType'
    BY <2>1, <2>2, CommandType
  <2> QED BY <1>1, <1>2, <1>3, <2>1, <2>3 DEF FatInv
<1>6. CASE SetVolume
  <2>1. /\ fat_begin' = disk.lba + disk.reserved /\ pc' = "idle"
        /\ cluster_begin' = disk.lba + disk.reserved + disk.fats * disk.spf
        /\ drive' = [drive EXCEPT !.state = "idle"]
    BY <1>6 DEF SetVolume
  <2>2. DriveType'
    BY <2>1 DEF FatInv, DriveType
  <2>3. fat_begin' = FatBegin(disk)' /\ cluster_begin' = ClusterBegin(disk)'
    BY <1>1, <2>1 DEF FatBegin, ClusterBegin
  <2> QED BY <1>1, <1>2, <1>3, <2>1, <2>2, <2>3 DEF FatInv
<1> QED BY <1>4, <1>5, <1>6

\* The kernel's part of a step.
LEMMA FatStep ==
  ASSUME disk \in Volumes, FatInv, FatNext
  PROVE  FatInv' /\ disk' = disk
<1>1. CASE ReadTable \/ ReadVolume \/ SetVolume
  BY <1>1, StartStep DEF ReadTable, ReadVolume, SetVolume
<1>2. CASE Find
  BY <1>2, FindStep DEF Find
<1>3. CASE FindNext
  BY <1>3, FindNextStep DEF FindNext
<1>4. CASE Read
  BY <1>4, ReadStep DEF Read
<1>5. CASE ReadNext
  BY <1>5, ReadNextStep DEF ReadNext
<1>6. ASSUME NEW text \in Arguments, exec(text) PROVE FatInv' /\ disk' = disk
  BY <1>6, ExecStep DEF exec
<1>7. CASE Answer
  <2>1. DriveType' /\ drive'.lba = drive.lba
    BY <1>7 DEF Answer, FatInv, DriveType
  <2> QED BY <1>7, <2>1, FatKept DEF Answer
<1>8. CASE Fail
  <2>1. DriveType' /\ drive'.lba = drive.lba
    BY <1>8 DEF Fail, FatInv, DriveType
  <2> QED BY <1>8, <2>1, FatKept DEF Fail
<1> QED BY <1>1, <1>2, <1>3, <1>4, <1>5, <1>6, <1>7, <1>8 DEF FatNext, Step

-----------------------------------------------------------------------------
(* The theorems *)

StartupInv == BootInv /\ FatInv

LEMMA StartupInit == ASSUME Init PROVE StartupInv
<1>1. BootInv
  BY DEF Init, BootInit, BootInv, LoadsWhole, HaltsWithoutFile
<1>2. /\ drive = [state |-> "idle", lba |-> 0, count |-> 0] /\ pc = "boot"
      /\ buffer = <<>> /\ space = 0 /\ result = "none"
  BY DEF Init, FatInit
<1>3. DriveType
  BY <1>2 DEF DriveType
<1>4. BufferFits /\ FindsFirst /\ ReadsWholeFile
  BY <1>2, Numbers DEF BufferFits, FindsFirst, ReadsWholeFile
<1> QED BY <1>1, <1>2, <1>3, <1>4 DEF StartupInv, FatInv

LEMMA StartupStep == ASSUME StartupInv, [Next]_vars PROVE StartupInv'
<1>1. disk \in Volumes /\ BootInv /\ FatInv
  BY DEF StartupInv, BootInv
<1>2. CASE BootNext /\ UNCHANGED fat_vars
  <2>1. BootInv'
    BY <1>1, <1>2, BootStep
  <2>2. disk' = disk
    BY <1>2 DEF BootNext, Stage1, Search1, NotFound1, oneMoreCluster1, Overrun1, done, readCluster,
                searchFile, notFound, oneMoreCluster2, loadelf
  <2>3. drive' = drive /\ UNCHANGED <<pc, memory, search, cluster, buffer, result>>
    BY <1>2 DEF fat_vars
  <2>4. DriveType'
    BY <1>1, <2>3 DEF FatInv, DriveType
  <2> QED BY <1>1, <2>1, <2>2, <2>3, <2>4, FatKept DEF StartupInv
<1>3. CASE Kernel
  <2>1. FatInv' /\ disk' = disk /\ UNCHANGED boot_vars
    BY <1>1, <1>3, FatStep DEF Kernel
  <2> QED BY <1>1, <2>1, BootKeepsOthers DEF StartupInv
<1>4. CASE UNCHANGED vars
  <2>1. disk' = disk /\ UNCHANGED boot_vars /\ UNCHANGED fat_vars
    BY <1>4 DEF vars
  <2>2. drive' = drive /\ UNCHANGED <<pc, memory, search, cluster, buffer, result>>
    BY <2>1 DEF fat_vars
  <2>3. DriveType'
    BY <1>1, <2>2 DEF FatInv, DriveType
  <2> QED BY <1>1, <2>1, <2>2, <2>3, FatKept, BootKeepsOthers DEF StartupInv
<1> QED BY <1>2, <1>3, <1>4 DEF Next

LEMMA Invariance == Spec => []StartupInv
BY StartupInit, StartupStep, PTL DEF Spec

\* stage1.asm:97 "travel through root directory and look for our file": on every
\* volume, of any number of clusters, stage 1 stops only without STAGE2, and stage 2
\* gives up only when KERNEL is not in the first cluster.
THEOREM BootHaltsWithoutFile == Spec => []HaltsWithoutFile
<1>1. StartupInv => HaltsWithoutFile
  BY DEF StartupInv, BootInv
<1> QED BY <1>1, Invariance, PTL

\* stage1.asm:154 "load complete file": both stages hand over with all sectors of the
\* file in memory, in the order of its chain, of any length that the memory there
\* holds; with a longer file they do not hand over.
THEOREM BootLoadsWhole == Spec => []LoadsWhole
<1>1. StartupInv => LoadsWhole
  BY DEF StartupInv, BootInv
<1> QED BY <1>1, Invariance, PTL

\* fat32.c:84 find_file(), twice: exec() finds the first entry of the root directory
\* that starts with its argument, or says that there is none, and load_executable(),
\* which has only the name of that entry, finds the same one.
THEOREM ExecFindsFirst == Spec => []FindsFirst
<1>1. StartupInv => FindsFirst
  BY DEF StartupInv, FatInv
<1> QED BY <1>1, Invariance, PTL

\* elf.c:25 "read to buffer": on every volume read_file() leaves the sectors of the file
\* in the buffer, in the order of its chain, up to the first cluster that
\* find_next_cluster() cannot look up, and all of them if there is no such cluster.
THEOREM ExecReadsWholeFile == Spec => []ReadsWholeFile
<1>1. StartupInv => ReadsWholeFile
  BY DEF StartupInv, FatInv
<1> QED BY <1>1, Invariance, PTL

\* elf.c:23 kmalloc(): read_file(), which is not told a size, stays within the buffer of
\* load_executable(), at every step, also for an empty file, if it can look up the
\* clusters of the file.
THEOREM ExecBufferFits == Spec => []BufferFits
<1>1. StartupInv => BufferFits
  BY DEF StartupInv, FatInv
<1> QED BY <1>1, Invariance, PTL
=============================================================================
