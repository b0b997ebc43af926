---------------------------- MODULE FrameMapProofs ----------------------------
(***************************************************************************)
(* The allocator never hands out a block that is in use, reserved or not   *)
(* memory, and its counter agrees with its map, for every memory map.      *)
(***************************************************************************)
EXTENDS FrameScan, FiniteSetTheorems, WellFoundedInduction, TLAPS

-----------------------------------------------------------------------------
(* The map *)

\* The map has a bit for every block.
LEMMA BlocksInMap == ASSUME max_blocks \in Nat PROVE Words \in Nat /\ Blocks \subseteq MapBits
<1>1. Words \in Nat /\ max_blocks < (Words + 1) * WordSize
  <2>1. \A m, w \in Nat : w >= 1 => m \div w \in Nat /\ m < w * (m \div w + 1)
    OBVIOUS
  <2>2. Words \in Nat /\ max_blocks < WordSize * (Words + 1)
    BY <2>1, WordSizeAssumption DEF Words
  <2> QED  BY <2>2, WordSizeAssumption
<1>2. (Words + 1) * WordSize \in Nat  BY <1>1, WordSizeAssumption
<1> QED  BY <1>1, <1>2 DEF Blocks, MapBits

LEMMA UsedFinite ==
  ASSUME max_blocks \in Nat
  PROVE  /\ IsFiniteSet(Blocks) /\ IsFiniteSet(set_bits \intersect Blocks)
         /\ Cardinality(Blocks) = max_blocks
<1>1. IsFiniteSet(Blocks) /\ Cardinality(Blocks) = max_blocks
  BY FS_Interval DEF Blocks
<1> QED  BY <1>1, FS_Subset

\* The counter stays right when it goes down by the number of bits cleared.
LEMMA CountClears ==
  ASSUME TypeOK, CountMatchesMap, NEW X, X \subseteq set_bits \intersect Blocks,
         set_bits' = set_bits \ X, used_blocks' = used_blocks - Cardinality(X),
         max_blocks' = max_blocks
  PROVE  CountMatchesMap' /\ used_blocks' \in 0 .. max_blocks'
<1> DEFINE S == set_bits \intersect Blocks
<1>0. max_blocks \in Nat /\ Blocks' = Blocks  BY DEF TypeOK, Blocks
<1>1. IsFiniteSet(S) /\ IsFiniteSet(X)  BY <1>0, UsedFinite, FS_Subset
<1>2. S \intersect X = X /\ (set_bits' \intersect Blocks') = S \ X  BY <1>0
<1> HIDE DEF S
<1>3. Cardinality(S \ X) = Cardinality(S) - Cardinality(X)  BY <1>1, <1>2, FS_Difference
<1>4. IsFiniteSet(S \ X)  BY <1>1, FS_Difference, Zenon
<1>5. Cardinality(S \ X) \in Nat /\ Cardinality(X) \in Nat  BY <1>1, <1>4, FS_CardinalityType
<1>6. used_blocks = Cardinality(S) /\ used_blocks \in 0 .. max_blocks
  BY DEF CountMatchesMap, TypeOK, S
<1>7. used_blocks' = Cardinality(S \ X) /\ used_blocks' \in 0 .. max_blocks
  BY <1>0, <1>3, <1>5, <1>6
<1> QED  BY <1>2, <1>7 DEF CountMatchesMap

\* And when it goes up by the number of bits set.
LEMMA CountSets ==
  ASSUME TypeOK, CountMatchesMap, NEW X, X \subseteq Blocks \ set_bits,
         set_bits' = set_bits \union X, used_blocks' = used_blocks + Cardinality(X),
         max_blocks' = max_blocks
  PROVE  CountMatchesMap' /\ used_blocks' \in 0 .. max_blocks'
<1> DEFINE S == set_bits \intersect Blocks
<1>0. max_blocks \in Nat /\ Blocks' = Blocks  BY DEF TypeOK, Blocks
<1>1. IsFiniteSet(S) /\ IsFiniteSet(X) /\ IsFiniteSet(Blocks) /\ Cardinality(Blocks) = max_blocks
  BY <1>0, UsedFinite, FS_Subset
<1>2. S \intersect X = {} /\ (set_bits' \intersect Blocks') = S \union X
      /\ (S \union X) \subseteq Blocks
  BY <1>0
<1> HIDE DEF S
<1>3. Cardinality(S \union X) = Cardinality(S) + Cardinality(X)
  <2>1. Cardinality(S \union X) = Cardinality(S) + Cardinality(X) - Cardinality({})
    BY <1>1, <1>2, FS_Union
  <2>2. Cardinality({}) = 0  BY FS_EmptySet
  <2>3. Cardinality(S) \in Nat /\ Cardinality(X) \in Nat  BY <1>1, FS_CardinalityType
  <2> QED  BY <2>1, <2>2, <2>3
<1>4. Cardinality(S \union X) <= max_blocks /\ Cardinality(S \union X) \in Nat
  BY <1>1, <1>2, FS_Subset, FS_CardinalityType
<1>5. used_blocks = Cardinality(S)  BY DEF CountMatchesMap, S
<1> QED  BY <1>0, <1>2, <1>3, <1>4, <1>5 DEF CountMatchesMap

-----------------------------------------------------------------------------
(* The calls *)

\* The regions of type 1 lie below the limit.
LEMMA InitFrames == Init => FrameInv
<1> SUFFICES ASSUME Init PROVE FrameInv  OBVIOUS
<1>1. memory_map \in Seq(Region)  BY MemoryMapsAssumption DEF Init
<1>r. \A i \in DOMAIN memory_map : memory_map[i].start \in Nat /\ memory_map[i].blocks \in Nat
  <2>1. \A i \in DOMAIN memory_map : memory_map[i] \in Region  BY <1>1
  <2> QED  BY <2>1 DEF Region
<1>2. max_blocks \in Nat
  <2>1. CASE max_blocks = 0  BY <2>1
  <2>2. CASE \E i \in DOMAIN memory_map : max_blocks = memory_map[i].start + memory_map[i].blocks
    BY <1>r, <2>2
  <2> QED  BY <2>1, <2>2 DEF Init
<1>3. Available \subseteq Blocks
  <2> SUFFICES ASSUME NEW b \in Available PROVE b \in Blocks  OBVIOUS
  <2>1. PICK i \in DOMAIN memory_map : memory_map[i].available /\ b \in RegionBlocks(memory_map[i])
    BY DEF Available
  <2>2. memory_map[i].start + memory_map[i].blocks <= max_blocks  BY <2>1 DEF Init, IsLimit
  <2> QED  BY <1>r, <1>2, <2>1, <2>2 DEF RegionBlocks, Blocks
<1>4. used_blocks = Cardinality(set_bits \intersect Blocks)
  <2>1. set_bits \intersect Blocks = Blocks  BY <1>2, BlocksInMap DEF Init
  <2> QED  BY <1>2, <2>1, UsedFinite DEF Init
<1>5. TypeOK
  <2>1. Len(memory_map) \in Nat  BY <1>1
  <2>2. region \in 0 .. Len(memory_map) /\ used_blocks \in 0 .. max_blocks
    BY <1>2, <2>1 DEF Init
  <2> QED  BY <1>2, <2>2 DEF Init, TypeOK
<1>6. MapBits \ set_bits = Cleared  BY DEF Init, Cleared
<1> QED  BY <1>3, <1>4, <1>5, <1>6 DEF Init, FrameInv, CountMatchesMap, OwnedBlocksSafe, NothingLost

LEMMA InitRegionFrames == ASSUME FrameInv, InitRegion PROVE FrameInv'
<1>1. memory_map \in Seq(Region) /\ region + 1 \in DOMAIN memory_map /\ region \in Nat
  BY MemoryMapsAssumption DEF FrameInv, TypeOK, InitRegion
<1> DEFINE r == memory_map[region + 1]
<1>2. r \in Region  BY <1>1
<1>3. /\ UNCHANGED <<memory_map, max_blocks, ready, owned, Blocks, MapBits, Available, Disjoint>>
      /\ ready = FALSE /\ owned = {} /\ region' = region + 1 /\ region' \in 0 .. Len(memory_map)
  BY <1>1 DEF InitRegion, FrameInv, Blocks, MapBits, Words, Available, Disjoint
<1>4. r.available => RegionBlocks(r) \subseteq Available  BY <1>1 DEF Available
<1>c. Cleared' = Cleared \union (IF r.available THEN RegionBlocks(r) ELSE {})
  <2>1. 1 .. region + 1 = (1 .. region) \union {region + 1}  BY <1>1
  <2> QED  BY <1>3, <2>1 DEF Cleared
<1>5. CASE ~r.available
  <2>1. UNCHANGED <<set_bits, used_blocks>>  BY <1>5 DEF InitRegion
  <2>2. Cleared' = Cleared  BY <1>c, <1>5
  <2> HIDE DEF r
  <2> QED
    BY <1>3, <2>1, <2>2 DEF FrameInv, TypeOK, CountMatchesMap, OwnedBlocksSafe, NothingLost
<1>6. CASE r.available
  <2>1. PICK stop \in r.start .. r.start + r.blocks :
          /\ r.start .. stop - 1 \subseteq set_bits
          /\ stop = r.start + r.blocks \/ stop \notin set_bits
          /\ set_bits' = set_bits \ (r.start .. stop - 1)
          /\ used_blocks' = used_blocks - (stop - r.start)
    BY <1>6 DEF InitRegion, MemInitRegion, RegionStop
  <2> DEFINE X == r.start .. stop - 1
  <2>2. r.start \in Nat /\ r.blocks \in Nat  BY <1>2 DEF Region
  <2>3. X \subseteq Available /\ X \subseteq set_bits \intersect Blocks
    BY <1>4, <1>6, <2>1, <2>2, SMTT(30) DEF RegionBlocks, FrameInv
  <2>4. Cardinality(X) = stop - r.start
    <3>1. r.start \in Int /\ stop - 1 \in Int /\ stop >= r.start /\ stop \in Int  BY <2>2
    <3>2. Cardinality(X) = IF r.start > stop - 1 THEN 0 ELSE stop - 1 - r.start + 1
      BY <3>1, FS_Interval
    <3> QED  BY <3>1, <3>2
\* A region apart from the others has none of its bits clear yet.
  <2>a. Disjoint => X = RegionBlocks(r)
    <3> SUFFICES ASSUME Disjoint PROVE X = RegionBlocks(r)  OBVIOUS
    <3>1. RegionBlocks(r) \intersect Cleared = {}
      <4>1. \A j \in 1 .. region : j \in DOMAIN memory_map /\ j # region + 1
        BY <1>1 DEF FrameInv, TypeOK
      <4> QED  BY <1>1, <4>1 DEF Disjoint, Cleared
    <3>2. RegionBlocks(r) \subseteq MapBits
      <4>1. Blocks \subseteq MapBits  BY BlocksInMap DEF FrameInv, TypeOK
      <4> QED  BY <1>4, <1>6, <4>1 DEF FrameInv
    <3>3. RegionBlocks(r) \subseteq set_bits  BY <1>3, <3>1, <3>2 DEF FrameInv
    <3>4. stop = r.start + r.blocks  BY <2>1, <2>2, <3>3 DEF RegionBlocks
    <3> QED  BY <2>2, <3>4 DEF RegionBlocks
  <2>b. Disjoint => Cleared' = Cleared \union X  BY <1>c, <1>6, <2>a
  <2> HIDE DEF X, r
  <2>5. CountMatchesMap' /\ used_blocks' \in 0 .. max_blocks'
    BY <1>3, <2>1, <2>3, <2>4, CountClears DEF FrameInv, X
  <2>6. set_bits' = set_bits \ X  BY <2>1 DEF X
  <2>7. Disjoint => MapBits' \ set_bits' = Cleared'
    <3>1. Blocks \subseteq MapBits  BY BlocksInMap DEF FrameInv, TypeOK
    <3> QED  BY <1>3, <2>3, <2>6, <2>b, <3>1 DEF FrameInv
  <2> QED  BY <1>3, <2>3, <2>5, <2>6, <2>7 DEF FrameInv, TypeOK, OwnedBlocksSafe, NothingLost
<1> QED  BY <1>5, <1>6

LEMMA ReserveFrames == ASSUME FrameInv, Reserve PROVE FrameInv'
<1> DEFINE X == Reserved \ set_bits
<1>1. /\ UNCHANGED <<memory_map, region, max_blocks, owned, Blocks, MapBits, Available, Disjoint>>
      /\ ~ready /\ owned = {} /\ ready' = TRUE /\ region = Len(memory_map)
      /\ set_bits' = set_bits \union X /\ used_blocks' = used_blocks + Cardinality(X)
  BY DEF Reserve, FrameInv, Blocks, MapBits, Words, Available, Disjoint
<1>2. X \subseteq Blocks \ set_bits  BY DEF FrameInv
<1>3. CountMatchesMap' /\ used_blocks' \in 0 .. max_blocks'
  BY <1>1, <1>2, CountSets DEF FrameInv
<1>4. Blocks \subseteq MapBits  BY BlocksInMap DEF FrameInv, TypeOK
\* Now all regions have been gone through.
<1>5. NothingLost'
  <2>1. Cleared = Available
    <3>1. DOMAIN memory_map = 1 .. region
      BY <1>1, MemoryMapsAssumption DEF FrameInv, TypeOK
    <3> QED  BY <3>1 DEF Cleared, Available
  <2> HIDE DEF X
  <2>2. Disjoint => MapBits \ set_bits = Available  BY <1>1, <2>1 DEF FrameInv
  <2>3. Disjoint => Available \ (Reserved \union owned) = Blocks \ set_bits'
    BY <1>1, <1>2, <1>4, <2>2 DEF FrameInv, X
  <2> QED  BY <1>1, <2>3 DEF NothingLost
<1> QED  BY <1>1, <1>2, <1>3, <1>4, <1>5 DEF FrameInv, TypeOK, OwnedBlocksSafe

\* Handing out blocks whose bits are clear.
LEMMA HandOut ==
  ASSUME FrameInv, ready, NEW X, X \subseteq MapBits \ set_bits,
         set_bits' = set_bits \union X, owned' = owned \union X,
         used_blocks' = used_blocks + Cardinality(X),
         UNCHANGED <<memory_map, region, ready, max_blocks>>
  PROVE  FrameInv'
<1>1. UNCHANGED <<Blocks, MapBits, Available, Disjoint>>
  BY DEF Blocks, MapBits, Words, Available, Disjoint
<1>2. X \subseteq Available /\ X \subseteq Blocks \ set_bits /\ X \intersect Reserved = {}
  BY DEF FrameInv
<1>3. CountMatchesMap' /\ used_blocks' \in 0 .. max_blocks'
  BY <1>2, CountSets DEF FrameInv
<1>4. NothingLost'  BY <1>1, <1>2 DEF FrameInv, NothingLost
<1> QED  BY <1>1, <1>2, <1>3, <1>4 DEF FrameInv, TypeOK, OwnedBlocksSafe

\* Taking back blocks that were handed out.
LEMMA TakeBack ==
  ASSUME FrameInv, NEW X, X \subseteq owned,
         set_bits' = set_bits \ X, owned' = owned \ X,
         used_blocks' = used_blocks - Cardinality(X),
         UNCHANGED <<memory_map, region, ready, max_blocks>>
  PROVE  FrameInv'
<1>1. UNCHANGED <<Blocks, MapBits, Available, Disjoint>>
  BY DEF Blocks, MapBits, Words, Available, Disjoint
<1>2. X \subseteq Available /\ X \subseteq set_bits \intersect Blocks /\ X \intersect Reserved = {}
  BY DEF FrameInv, OwnedBlocksSafe, TypeOK
<1>3. CountMatchesMap' /\ used_blocks' \in 0 .. max_blocks'
  BY <1>2, CountClears DEF FrameInv
<1>4. NothingLost'  BY <1>1, <1>2 DEF FrameInv, NothingLost
<1>5. UNCHANGED Cleared /\ (~ready => X = {})  BY DEF Cleared, FrameInv
<1> QED  BY <1>1, <1>2, <1>3, <1>4, <1>5 DEF FrameInv, TypeOK, OwnedBlocksSafe

LEMMA AllocFrames ==
  ASSUME FrameInv, MemAllocBlock \/ \E size \in 1 .. max_blocks : MemAllocBlocks(size)
  PROVE  FrameInv'
<1>0. max_blocks \in Nat /\ Blocks \subseteq MapBits  BY BlocksInMap DEF FrameInv, TypeOK
<1>1. CASE MemAllocBlock
  <2>1. PICK b \in Blocks : /\ IsFree(b)
                            /\ set_bits' = set_bits \union {b} /\ owned' = owned \union {b}
    BY <1>1 DEF MemAllocBlock, FirstFree
  <2>2. {b} \subseteq MapBits \ set_bits  BY <1>0, <2>1 DEF IsFree
  <2>3. Cardinality({b}) = 1  BY FS_Singleton
  <2> QED  BY <1>1, <2>1, <2>2, <2>3, HandOut DEF MemAllocBlock
<1>2. CASE \E size \in 1 .. max_blocks : MemAllocBlocks(size)
  <2>1. PICK size \in 1 .. max_blocks : MemAllocBlocks(size)  BY <1>2
  <2>2. PICK b \in Blocks : /\ FirstFreeZone(size, b) /\ b # 0
                            /\ set_bits' = set_bits \union (b .. b + size - 1)
                            /\ owned' = owned \union (b .. b + size - 1)
    BY <2>1 DEF MemAllocBlocks
  <2>3. b \in Nat /\ size \in Nat /\ size >= 1  BY <1>0 DEF Blocks
  <2>4. b .. b + size - 1 \subseteq MapBits \ set_bits
    <3>1. CASE size = 1
      BY <1>0, <2>2, <2>3, <3>1 DEF FirstFreeZone, FirstFree, IsFree
    <3>2. CASE size > 1
      BY <2>2, <2>3, <3>2 DEF FirstFreeZone, ZoneAt, IsFree
    <3> QED  BY <2>3, <3>1, <3>2
  <2>5. Cardinality(b .. b + size - 1) = size  BY <2>3, FS_Interval
  <2> QED  BY <2>1, <2>2, <2>4, <2>5, HandOut DEF MemAllocBlocks
<1> QED  BY <1>1, <1>2

LEMMA FreeFrames ==
  ASSUME FrameInv,
         \/ \E b \in Blocks : MemFreeBlock(b)
         \/ \E b \in Blocks, size \in 1 .. max_blocks : MemFreeBlocks(b, size)
  PROVE  FrameInv'
<1>1. CASE \E b \in Blocks : MemFreeBlock(b)
  <2>1. PICK b \in Blocks : MemFreeBlock(b)  BY <1>1
  <2>2. Cardinality({b}) = 1  BY FS_Singleton
  <2> QED  BY <2>1, <2>2, TakeBack DEF MemFreeBlock
<1>2. CASE \E b \in Blocks, size \in 1 .. max_blocks : MemFreeBlocks(b, size)
  <2>1. PICK b \in Blocks, size \in 1 .. max_blocks : MemFreeBlocks(b, size)  BY <1>2
  <2>2. b \in Nat /\ size \in Nat /\ size >= 1  BY DEF Blocks, FrameInv, TypeOK
  <2>3. Cardinality(b .. b + size - 1) = size  BY <2>2, FS_Interval
  <2> QED  BY <2>1, <2>3, TakeBack DEF MemFreeBlocks
<1> QED  BY <1>1, <1>2

-----------------------------------------------------------------------------
(* The loops *)

FullBits == Words * WordSize
AllBits == (Words + 1) * WordSize

\* The least number of a set, and 0 of none.
First(S) == IF S = {} THEN 0 ELSE CHOOSE x \in S : \A y \in S : x <= y

LEMMA LeastIn ==
  ASSUME NEW S \in SUBSET Nat, S # {}
  PROVE  \E x \in S : \A y \in S : x <= y
<1> DEFINE R == OpToRel(<, Nat)
<1>1. \E x \in S : \A y \in S : ~(<<y, x>> \in R)
  BY NatLessThanWellFounded, WFMin
<1>2. \A x, y \in Nat : x < y => <<x, y>> \in R
  BY DEF OpToRel
<1> HIDE DEF R
<1>3. PICK x \in S : \A y \in S : ~(<<y, x>> \in R)
  BY <1>1
<1>4. ASSUME NEW y \in S PROVE x <= y
  <2>1. ~(y < x)
    BY <1>2, <1>3
  <2> QED BY <2>1
<1> QED BY <1>4

LEMMA GreatestIn ==
  ASSUME NEW N \in Nat, NEW S \in SUBSET (0 .. N), S # {}
  PROVE  \E x \in S : \A y \in S : y <= x
<1> DEFINE T == {N - x : x \in S}
<1>1. T \in SUBSET Nat /\ T # {}
  <2>1. PICK x \in S : TRUE
    OBVIOUS
  <2>2. N - x \in T
    BY <2>1
  <2>3. \A y \in T : y \in Nat
    OBVIOUS
  <2> QED BY <2>2, <2>3
<1>2. PICK z \in T : \A y \in T : z <= y
  <2> HIDE DEF T
  <2> QED BY <1>1, LeastIn
<1>3. PICK x \in S : z = N - x
  BY <1>2
<1>4. ASSUME NEW y \in S PROVE y <= x
  <2>1. N - y \in T
    OBVIOUS
  <2>2. N - x <= N - y
    BY <1>2, <1>3, <2>1
  <2> QED BY <2>2
<1> QED BY <1>4

LEMMA FirstIs ==
  ASSUME NEW S \in SUBSET Nat, NEW x \in S, \A y \in S : x <= y
  PROVE  First(S) = x
<1>1. PICK z : z = First(S)
  OBVIOUS
<1>2. z \in S /\ \A y \in S : z <= y
  BY <1>1 DEF First
<1>3. x <= z /\ z <= x
  BY <1>2
<1> QED BY <1>1, <1>2, <1>3

LEMMA FirstFacts ==
  ASSUME NEW S \in SUBSET Nat, S # {}
  PROVE  First(S) \in S /\ \A y \in S : First(S) <= y
<1>1. PICK x \in S : \A y \in S : x <= y
  BY LeastIn
<1> QED BY <1>1, FirstIs

LEMMA WordMultiples ==
  ASSUME NEW w \in Nat, w >= 1, NEW n \in Nat, NEW b \in Nat, b <= (n + 1) * w
  PROVE  /\ n * w \in Nat /\ (n + 1) * w = n * w + w
         /\ (b % w = 0 /\ b \div w >= n) <=> (b = n * w \/ b = (n + 1) * w)
         /\ b % w = 0 /\ ~(b \div w >= n) => b + w <= n * w
         /\ n > 0 <=> n * w > 0
<1>1. n * w \in Nat /\ (n + 1) * w = n * w + w
  OBVIOUS
<1>2. PICK q, r : q = b \div w /\ r = b % w
  OBVIOUS
<1>3. q \in Nat /\ r \in 0 .. w - 1 /\ b = q * w + r
  BY <1>2
<1>4. \A x, y \in Nat : x < y => x * w + w <= y * w
  <2>1. ASSUME NEW x \in Nat, NEW y \in Nat, x < y PROVE x * w + w <= y * w
    <3>1. PICK d \in Nat : y = x + 1 + d
      <4>1. y - (x + 1) \in Nat /\ y = x + 1 + (y - (x + 1))
        BY <2>1
      <4> QED BY <4>1
    <3>2. y * w = x * w + w + d * w
      BY <3>1
    <3>3. d * w \in Nat /\ x * w \in Nat
      OBVIOUS
    <3> QED BY <3>2, <3>3
  <2> QED BY <2>1
<1>5. n > 0 <=> n * w > 0
  <2>1. n > 0 => 0 * w + w <= n * w
    BY <1>4
  <2>2. n = 0 => n * w = 0
    OBVIOUS
  <2> QED BY <2>1, <2>2
<1>6. r = 0 /\ q >= n => b = n * w \/ b = (n + 1) * w
  <2> SUFFICES ASSUME r = 0, q >= n PROVE q = n \/ q = n + 1
    BY <1>3
  <2>1. q > n + 1 => (n + 1) * w + w <= q * w
    BY <1>3, <1>4
  <2>2. ~(q > n + 1)
    BY <1>1, <1>3, <2>1
  <2> QED BY <1>3, <2>2
<1>7. b = n * w => r = 0 /\ q = n
  <2> SUFFICES ASSUME b = n * w PROVE r = 0 /\ q = n
    OBVIOUS
  <2>1. ~(q < n)
    BY <1>1, <1>3, <1>4
  <2>2. ~(n < q)
    BY <1>1, <1>3, <1>4
  <2> QED BY <1>1, <1>3, <2>1, <2>2
<1>8. b = (n + 1) * w => r = 0 /\ q = n + 1
  <2> SUFFICES ASSUME b = (n + 1) * w PROVE r = 0 /\ q = n + 1
    OBVIOUS
  <2>1. ~(q < n + 1)
    BY <1>1, <1>3, <1>4
  <2>2. ~(n + 1 < q)
    BY <1>1, <1>3, <1>4
  <2> QED BY <1>1, <1>3, <2>1, <2>2
<1>9. r = 0 /\ ~(q >= n) => b + w <= n * w
  BY <1>3, <1>4
<1> QED BY <1>1, <1>2, <1>3, <1>5, <1>6, <1>7, <1>8, <1>9

\* The words of the map; the last bit of it belongs to no block and is set.
LEMMA Grid ==
  ASSUME FrameInv
  PROVE  /\ WordSize \in Nat /\ WordSize >= 1 /\ Words \in Nat
         /\ FullBits \in Nat /\ AllBits = FullBits + WordSize /\ MapBits = 0 .. AllBits - 1
         /\ Words > 0 <=> FullBits > 0
         /\ \A b \in 0 .. AllBits : OuterEnd(b) <=> b = FullBits \/ b = AllBits
         /\ \A b \in 0 .. AllBits : OuterSkip(b) /\ ~OuterEnd(b) => b + WordSize <= FullBits
         /\ set_bits \subseteq MapBits /\ AllBits - 1 \in set_bits
<1>1. max_blocks \in Nat /\ set_bits \subseteq MapBits /\ MapBits \ set_bits \subseteq Blocks
  BY DEF FrameInv, TypeOK
<1>2. Words \in Nat /\ Blocks \subseteq MapBits /\ WordSize \in Nat /\ WordSize >= 1
  BY <1>1, BlocksInMap, WordSizeAssumption
<1>3. FullBits \in Nat /\ AllBits = FullBits + WordSize /\ (Words > 0 <=> FullBits > 0)
  <2>1. 0 <= (Words + 1) * WordSize
    BY <1>2
  <2> QED BY <1>2, <2>1, WordMultiples DEF FullBits, AllBits
<1>4. ASSUME NEW b \in 0 .. AllBits
      PROVE  /\ OuterEnd(b) <=> b = FullBits \/ b = AllBits
             /\ OuterSkip(b) /\ ~OuterEnd(b) => b + WordSize <= FullBits
  <2>1. b \in Nat /\ b <= (Words + 1) * WordSize
    BY <1>2, <1>3 DEF AllBits
  <2> QED BY <1>2, <2>1, WordMultiples DEF FullBits, AllBits, OuterEnd, OuterSkip
<1>5. MapBits = 0 .. AllBits - 1
  BY DEF MapBits, AllBits
<1>6. AllBits - 1 \in set_bits
  <2>1. AllBits - 1 \in MapBits
    BY <1>2, <1>3, <1>5
  <2>2. AllBits - 1 \notin Blocks
    <3>1. max_blocks \notin Blocks
      BY <1>1 DEF Blocks
    <3>2. max_blocks < AllBits
      <4>1. \A m, w \in Nat : w >= 1 => m \div w \in Nat /\ m < w * (m \div w + 1)
        OBVIOUS
      <4>2. max_blocks < WordSize * (Words + 1)
        BY <1>1, <1>2, <4>1 DEF Words
      <4> QED  BY <1>2, <4>2 DEF AllBits
    <3> QED BY <1>1, <1>2, <1>3, <3>2 DEF Blocks
  <2> QED BY <1>1, <2>1, <2>2
<1> QED BY <1>1, <1>2, <1>3, <1>4, <1>5, <1>6

\* Where mmap_first_free() looks from bit b on.
FreeFrom(b) == {c \in b .. (IF b <= FullBits THEN FullBits ELSE AllBits) - 1 : IsFree(c)}

\* One turn of its loop at bit b, when f tells what the turns at later bits return.
FreeTurn(f, b) ==
  CASE OuterEnd(b)  -> 0
    [] ~OuterEnd(b) /\ OuterSkip(b) -> f[b + WordSize]
    [] OTHER -> IF IsFree(b) THEN b ELSE f[b + 1]

\* Each turn returns the first free bit from there on.
LEMMA FreeTurns ==
  ASSUME FrameInv, NEW f, NEW b \in 0 .. AllBits,
         \A c \in b + 1 .. AllBits : f[c] = First(FreeFrom(c))
  PROVE  FreeTurn(f, b) = First(FreeFrom(b))
<1> USE Grid
<1>1. CASE OuterEnd(b)
  <2>1. FreeFrom(b) = {}
    BY <1>1 DEF FreeFrom
  <2> QED BY <1>1, <2>1 DEF FreeTurn, First
<1>2. CASE ~OuterEnd(b) /\ OuterSkip(b)
  <2>1. b + WordSize <= FullBits /\ b + WordSize \in b + 1 .. AllBits
    BY <1>2
  <2>2. \A c \in b .. b + WordSize - 1 : ~IsFree(c)
    BY <1>2 DEF OuterSkip, WordFull, IsFree
  <2>3. FreeFrom(b) = FreeFrom(b + WordSize)
    BY <2>1, <2>2 DEF FreeFrom
  <2>4. FreeTurn(f, b) = f[b + WordSize]
    BY <1>2 DEF FreeTurn
  <2> QED BY <2>1, <2>3, <2>4
<1>3. CASE ~OuterEnd(b) /\ ~OuterSkip(b)
  <2>1. b + 1 \in b + 1 .. AllBits /\ b # FullBits /\ b # AllBits
    BY <1>3
  <2>2. FreeTurn(f, b) = IF IsFree(b) THEN b ELSE f[b + 1]
    BY <1>3 DEF FreeTurn
  <2>3. CASE IsFree(b)
    <3>1. FreeFrom(b) \in SUBSET Nat /\ b \in FreeFrom(b) /\ \A y \in FreeFrom(b) : b <= y
      BY <2>1, <2>3 DEF FreeFrom
    <3>2. First(FreeFrom(b)) = b
      BY <3>1, FirstIs
    <3> QED BY <2>2, <2>3, <3>2
  <2>4. CASE ~IsFree(b)
    <3>1. FreeFrom(b) = FreeFrom(b + 1)
      BY <2>1, <2>4 DEF FreeFrom
    <3> QED BY <2>1, <2>2, <2>4, <3>1
  <2> QED BY <2>3, <2>4
<1> QED BY <1>1, <1>2, <1>3

LEMMA FreeLoop == ASSUME FrameInv PROVE FirstFreeLoop = First(FreeFrom(0))
<1> DEFINE D == 0 .. AllBits
           g == [b \in D |-> First(FreeFrom(b))]
<1>0. D = 0 .. (Words + 1) * WordSize /\ AllBits \in Nat /\ 0 \in D
  BY Grid DEF AllBits
<1>1. g = [b \in D |-> FreeTurn(g, b)]
  <2>1. ASSUME NEW b \in D PROVE First(FreeFrom(b)) = FreeTurn(g, b)
    <3>1. \A c \in b + 1 .. AllBits : g[c] = First(FreeFrom(c))
      BY <1>0
    <3> HIDE DEF g
    <3> QED BY <3>1, FreeTurns
  <2> QED BY <2>1
<1> HIDE DEF g
<1>2. PICK f : f = [b \in D |-> FreeTurn(f, b)] /\ FirstFreeLoop = f[0]
  BY <1>0, <1>1 DEF FirstFreeLoop, FreeTurn, AllBits
<1> DEFINE Wrong == {b \in D : f[b] # First(FreeFrom(b))}
<1>3. ASSUME Wrong # {} PROVE FALSE
  <2>1. PICK b \in Wrong : \A c \in Wrong : c <= b
    <3>1. Wrong \in SUBSET (0 .. AllBits)
      OBVIOUS
    <3> HIDE DEF Wrong
    <3> QED BY <1>0, <1>3, <3>1, GreatestIn
  <2>2. ASSUME NEW c \in b + 1 .. AllBits PROVE f[c] = First(FreeFrom(c))
    <3>1. c \in D /\ ~(c <= b)
      BY <1>0, <2>1
    <3> QED BY <2>1, <3>1
  <2>3. FreeTurn(f, b) = First(FreeFrom(b))
    BY <2>1, <2>2, FreeTurns
  <2>4. f[b] = FreeTurn(f, b)
    BY <1>2, <2>1
  <2> QED BY <2>1, <2>3, <2>4
<1>4. f[0] = First(FreeFrom(0))
  BY <1>0, <1>3
<1> QED BY <1>2, <1>4

LEMMA FirstFreeMatches ==
  ASSUME FrameInv, NEW b \in MapBits
  PROVE  FirstFree(b) <=> b = FirstFreeLoop
<1> DEFINE S == FreeFrom(0)
<1>0. S \in SUBSET Nat /\ S = {c \in 0 .. FullBits - 1 : IsFree(c)} /\ FullBits \in Nat
      /\ b \in Nat /\ FirstFreeLoop = First(S)
  BY Grid, FreeLoop DEF FreeFrom
<1>1. FirstFree(b) <=> \/ b \in S /\ \A c \in 0 .. b - 1 : ~IsFree(c)
                       \/ b = 0 /\ S = {}
  BY <1>0 DEF FirstFree, FullBits
<1> HIDE DEF S
<1>2. CASE S = {}
  BY <1>0, <1>1, <1>2 DEF First
<1>3. CASE S # {}
  <2>1. First(S) \in S /\ \A y \in S : First(S) <= y
    BY <1>0, <1>3, FirstFacts
  <2>2. ASSUME b = First(S) PROVE FirstFree(b)
    BY <1>0, <1>1, <2>1, <2>2
  <2>3. ASSUME FirstFree(b) PROVE b = First(S)
    <3>1. b \in S /\ \A y \in S : b <= y
      BY <1>0, <1>1, <1>3, <2>3
    <3> QED BY <1>0, <3>1, FirstIs
  <2> QED BY <1>0, <2>2, <2>3
<1> QED BY <1>2, <1>3

\* Where mmap_first_free_zone() looks for the start of a zone from bit b on.
StartsFrom(b) ==
  b .. (IF b > FullBits \/ (b < FullBits /\ IsFree(FullBits - 1)) THEN AllBits ELSE FullBits) - 1

ZonesFrom(size, b) == {c \in StartsFrom(b) : ZoneAt(c, size)}

ZoneTurn(f, size, b) ==
  CASE OuterEnd(b)  -> 0
    [] ~OuterEnd(b) /\ OuterSkip(b) -> f[b + WordSize]
    [] ~OuterEnd(b) /\ ~OuterSkip(b) /\ ~IsFree(b) -> f[b + 1]
    [] OTHER -> IF SetBitAfter(b) - b >= size THEN b ELSE f[SetBitAfter(b) + 1]

\* The loop over count ends inside the map.
LEMMA SetBitAfterFacts ==
  ASSUME FrameInv, NEW b \in MapBits
  PROVE  /\ SetBitAfter(b) \in set_bits /\ b <= SetBitAfter(b)
         /\ \A d \in b .. SetBitAfter(b) - 1 : IsFree(d)
<1> DEFINE S == {c \in set_bits : b <= c}
<1>1. S \in SUBSET Nat /\ S # {} /\ b \in Nat
  BY Grid
<1>2. PICK c \in S : \A d \in S : c <= d
  <2> HIDE DEF S
  <2> QED BY <1>1, LeastIn
<1>3. c \in set_bits /\ b <= c /\ \A d \in b .. c - 1 : IsFree(d)
  BY <1>1, <1>2 DEF IsFree
<1> QED BY <1>3 DEF SetBitAfter

\* The first zone is found from each bit on: a jump over a zone that is too small
\* passes no other.
LEMMA ZoneTurns ==
  ASSUME FrameInv, NEW f, NEW size \in Nat, size > 1, NEW b \in 0 .. AllBits,
         \A c \in b + 1 .. AllBits : f[c] = First(ZonesFrom(size, c))
  PROVE  ZoneTurn(f, size, b) = First(ZonesFrom(size, b))
<1> USE Grid
<1>0. \A c \in Nat : ZoneAt(c, size) => IsFree(c)
  BY DEF ZoneAt
<1>1. CASE OuterEnd(b)
  <2>1. ZonesFrom(size, b) = {}
    BY <1>1 DEF ZonesFrom, StartsFrom
  <2> QED BY <1>1, <2>1 DEF ZoneTurn, First
<1>2. CASE ~OuterEnd(b) /\ OuterSkip(b)
  <2>1. b + WordSize <= FullBits /\ b + WordSize \in b + 1 .. AllBits
    BY <1>2
  <2>2. \A c \in b .. b + WordSize - 1 : ~IsFree(c)
    BY <1>2 DEF OuterSkip, WordFull, IsFree
  <2>3. StartsFrom(b) \ (b .. b + WordSize - 1) = StartsFrom(b + WordSize)
    <3>1. CASE b + WordSize = FullBits
      <4>1. ~IsFree(FullBits - 1)
        BY <2>1, <2>2, <3>1
      <4> QED BY <2>1, <3>1, <4>1 DEF StartsFrom
    <3>2. CASE b + WordSize # FullBits
      BY <2>1, <3>2, SMTT(30) DEF StartsFrom
    <3> QED BY <3>1, <3>2
  <2>5. \A c \in b .. b + WordSize - 1 : ~ZoneAt(c, size)
    BY <1>0, <2>2
  <2>6. ZonesFrom(size, b) = ZonesFrom(size, b + WordSize)
    BY <2>3, <2>5 DEF ZonesFrom
  <2>4. ZoneTurn(f, size, b) = f[b + WordSize]
    BY <1>2 DEF ZoneTurn
  <2> QED BY <2>1, <2>4, <2>6
<1>3. CASE ~OuterEnd(b) /\ ~OuterSkip(b) /\ ~IsFree(b)
  <2>1. b + 1 \in b + 1 .. AllBits /\ b # FullBits /\ b # AllBits
    BY <1>3
  <2>2. ZonesFrom(size, b) = ZonesFrom(size, b + 1)
    BY <1>0, <1>3, <2>1 DEF ZonesFrom, StartsFrom
  <2>3. ZoneTurn(f, size, b) = f[b + 1]
    BY <1>3 DEF ZoneTurn
  <2> QED BY <2>1, <2>2, <2>3
<1>4. CASE ~OuterEnd(b) /\ ~OuterSkip(b) /\ IsFree(b)
  <2>1. b # FullBits /\ b # AllBits /\ b \in MapBits
    BY <1>4
  <2>2. PICK c : c = SetBitAfter(b)
    OBVIOUS
  <2>3. c \in set_bits /\ c \in b + 1 .. AllBits - 1 /\ \A d \in b .. c - 1 : IsFree(d)
    <3>1. c \in set_bits /\ b <= c /\ \A d \in b .. c - 1 : IsFree(d)
      BY <2>1, <2>2, SetBitAfterFacts
    <3>2. c # b
      BY <1>4, <3>1 DEF IsFree
    <3> QED BY <3>1, <3>2
  <2>4. ZoneTurn(f, size, b) = IF c - b >= size THEN b ELSE f[c + 1]
    BY <1>4, <2>2 DEF ZoneTurn
  <2>5. CASE c - b >= size
    <3>1. ZoneAt(b, size)
      BY <2>1, <2>3, <2>5 DEF ZoneAt
    <3>2. b \in ZonesFrom(size, b) /\ ZonesFrom(size, b) \in SUBSET Nat
          /\ \A y \in ZonesFrom(size, b) : b <= y
      BY <2>1, <3>1 DEF ZonesFrom, StartsFrom
    <3>3. First(ZonesFrom(size, b)) = b
      BY <3>2, FirstIs
    <3> QED BY <2>4, <2>5, <3>3
  <2>6. CASE ~(c - b >= size)
    <3>1. ASSUME NEW d \in b .. c PROVE ~ZoneAt(d, size)
      <4>1. c \in d .. d + size - 1
        BY <2>1, <2>3, <2>6
      <4>2. ~IsFree(c)
        BY <2>3 DEF IsFree
      <4> QED BY <4>1, <4>2 DEF ZoneAt
    <3>2. StartsFrom(b) \ (b .. c) = StartsFrom(c + 1)
      <4>1. CASE b > FullBits
        BY <2>1, <2>3, <4>1 DEF StartsFrom
      <4>2. CASE b < FullBits /\ c < FullBits - 1
        BY <2>1, <2>3, <4>2 DEF StartsFrom
      <4>3. CASE b < FullBits /\ c = FullBits - 1
        <5>1. ~IsFree(FullBits - 1)
          BY <2>3, <4>3 DEF IsFree
        <5> QED BY <2>1, <2>3, <4>3, <5>1 DEF StartsFrom
      <4>4. CASE b < FullBits /\ c >= FullBits
        <5>1. IsFree(FullBits - 1)
          BY <2>1, <2>3, <4>4
        <5> QED BY <2>1, <2>3, <4>4, <5>1 DEF StartsFrom
      <4> QED BY <2>1, <2>3, <4>1, <4>2, <4>3, <4>4
    <3>3. ZonesFrom(size, b) = ZonesFrom(size, c + 1)
      BY <3>1, <3>2 DEF ZonesFrom
    <3>4. c + 1 \in b + 1 .. AllBits
      BY <2>1, <2>3
    <3> QED BY <2>4, <2>6, <3>3, <3>4
  <2> QED BY <2>5, <2>6
<1> QED BY <1>1, <1>2, <1>3, <1>4

LEMMA ZoneLoopIs ==
  ASSUME FrameInv, NEW size \in Nat, size > 1 PROVE ZoneLoop(size) = First(ZonesFrom(size, 0))
<1> DEFINE D == 0 .. AllBits
           g == [b \in D |-> First(ZonesFrom(size, b))]
<1>0. D = 0 .. (Words + 1) * WordSize /\ AllBits \in Nat /\ 0 \in D
  BY Grid DEF AllBits
<1>1. g = [b \in D |-> ZoneTurn(g, size, b)]
  <2>1. ASSUME NEW b \in D PROVE First(ZonesFrom(size, b)) = ZoneTurn(g, size, b)
    <3>1. \A c \in b + 1 .. AllBits : g[c] = First(ZonesFrom(size, c))
      BY <1>0
    <3> HIDE DEF g
    <3> QED BY <3>1, ZoneTurns
  <2> QED BY <2>1
<1> HIDE DEF g
<1>2. PICK f : f = [b \in D |-> ZoneTurn(f, size, b)] /\ ZoneLoop(size) = f[0]
  <2>1. ~(size <= 1)
    OBVIOUS
  <2> QED BY <1>0, <1>1, <2>1 DEF ZoneLoop, ZoneTurn, AllBits
<1> DEFINE Wrong == {b \in D : f[b] # First(ZonesFrom(size, b))}
<1>3. ASSUME Wrong # {} PROVE FALSE
  <2>1. PICK b \in Wrong : \A c \in Wrong : c <= b
    <3>1. Wrong \in SUBSET (0 .. AllBits)
      OBVIOUS
    <3> HIDE DEF Wrong
    <3> QED BY <1>0, <1>3, <3>1, GreatestIn
  <2>2. ASSUME NEW c \in b + 1 .. AllBits PROVE f[c] = First(ZonesFrom(size, c))
    <3>1. c \in D /\ ~(c <= b)
      BY <1>0, <2>1
    <3> QED BY <2>1, <3>1
  <2>3. ZoneTurn(f, size, b) = First(ZonesFrom(size, b))
    BY <2>1, <2>2, ZoneTurns
  <2>4. f[b] = ZoneTurn(f, size, b)
    BY <1>2, <2>1
  <2> QED BY <2>1, <2>3, <2>4
<1>4. f[0] = First(ZonesFrom(size, 0))
  BY <1>0, <1>3
<1> QED BY <1>2, <1>4

LEMMA ZoneMatches ==
  ASSUME FrameInv, NEW size \in Nat, NEW b \in MapBits
  PROVE  FirstFreeZone(size, b) <=> b = ZoneLoop(size)
<1>1. CASE size = 0
  BY <1>1 DEF FirstFreeZone, ZoneLoop
<1>2. CASE size = 1
  <2>1. ZoneLoop(size) = FirstFreeLoop
    BY <1>2 DEF ZoneLoop
  <2>2. FirstFreeZone(size, b) <=> FirstFree(b)
    BY <1>2 DEF FirstFreeZone
  <2> QED BY <2>1, <2>2, FirstFreeMatches
<1>3. CASE size > 1
  <2> DEFINE S == ZonesFrom(size, 0)
  <2>1. StartsFrom(0) = ZoneStarts /\ ZoneStarts \subseteq Nat
    <3>1. ZoneStarts = IF Words > 0 /\ IsFree(FullBits - 1) THEN MapBits ELSE 0 .. FullBits - 1
      BY DEF ZoneStarts, FullBits
    <3> QED BY <3>1, Grid DEF StartsFrom
  <2>2. S = {c \in ZoneStarts : ZoneAt(c, size)} /\ S \in SUBSET Nat /\ b \in Nat
        /\ ZoneLoop(size) = First(S)
    <3>1. ZoneLoop(size) = First(S)
      BY <1>3, ZoneLoopIs
    <3>2. S = {c \in ZoneStarts : ZoneAt(c, size)}
      BY <2>1 DEF ZonesFrom
    <3> HIDE DEF S
    <3>3. b \in Nat
      BY Grid
    <3>4. S \in SUBSET Nat
      BY <2>1, <3>2
    <3> QED BY <3>1, <3>2, <3>3, <3>4, Zenon
  <2>3. \A c \in Nat : c < b /\ b \in ZoneStarts => c \in ZoneStarts
    BY <2>2, Grid DEF ZoneStarts, FullBits
  <2>4. FirstFreeZone(size, b) <=> \/ b \in S /\ \A c \in 0 .. b - 1 : ~ZoneAt(c, size)
                                   \/ b = 0 /\ S = {}
    BY <1>3, <2>2 DEF FirstFreeZone
  <2> HIDE DEF S
  <2>5. CASE S = {}
    BY <2>2, <2>4, <2>5 DEF First
  <2>6. CASE S # {}
    <3>1. First(S) \in S /\ \A y \in S : First(S) <= y
      BY <2>2, <2>6, FirstFacts
    <3>2. ASSUME b = First(S) PROVE FirstFreeZone(size, b)
      <4>1. ASSUME NEW c \in 0 .. b - 1 PROVE ~ZoneAt(c, size)
        BY <2>2, <2>3, <3>1, <3>2
      <4> QED BY <2>4, <3>1, <3>2, <4>1
    <3>3. ASSUME FirstFreeZone(size, b) PROVE b = First(S)
      <4>1. b \in S /\ \A y \in S : b <= y
        BY <2>2, <2>4, <2>6, <3>3
      <4> QED BY <2>2, <4>1, FirstIs
    <3> QED BY <2>2, <3>2, <3>3
  <2> QED BY <2>5, <2>6
<1> QED BY <1>1, <1>2, <1>3

\* The loop of mem_init_region() comes to a stop that RegionStop() describes.
LEMMA RegionLoopIs ==
  ASSUME NEW start \in Nat, NEW blocks \in Nat, NEW stop \in start .. start + blocks,
         RegionStop(start, blocks, stop)
  PROVE  RegionLoop(start, blocks) = stop
<1> DEFINE Turn(f, n) == IF n = 0 THEN start
                         ELSE IF f[n - 1] \in set_bits THEN f[n - 1] + 1 ELSE f[n - 1]
           h == [n \in 0 .. blocks |-> IF start + n <= stop THEN start + n ELSE stop]
<1>1. \A f : \A n \in 0 .. blocks : (n # 0 => f[n - 1] = h[n - 1]) => Turn(f, n) = h[n]
  <2> SUFFICES ASSUME NEW f, NEW n \in 0 .. blocks, n # 0 => f[n - 1] = h[n - 1]
               PROVE  Turn(f, n) = h[n]
    OBVIOUS
  <2>1. CASE n = 0
    BY <2>1
  <2>2. CASE n # 0
    <3>1. n - 1 \in 0 .. blocks /\ f[n - 1] = IF start + (n - 1) <= stop THEN start + (n - 1) ELSE stop
      BY <2>2
    <3>2. CASE start + (n - 1) < stop
      <4>1. f[n - 1] = start + (n - 1) /\ start + (n - 1) \in start .. stop - 1
        BY <2>2, <3>1, <3>2
      <4>2. f[n - 1] \in set_bits
        BY <4>1 DEF RegionStop
      <4> QED BY <2>2, <3>2, <4>1, <4>2
    <3>3. CASE ~(start + (n - 1) < stop)
      <4>1. f[n - 1] = stop /\ stop # start + blocks
        BY <2>2, <3>1, <3>3
      <4>2. f[n - 1] \notin set_bits
        BY <4>1 DEF RegionStop
      <4> QED BY <2>2, <3>3, <4>1, <4>2
    <3> QED BY <3>2, <3>3
  <2> QED BY <2>1, <2>2
<1>2. h = [n \in 0 .. blocks |-> Turn(h, n)]
  <2>1. h = [n \in 0 .. blocks |-> h[n]]
    OBVIOUS
  <2> HIDE DEF h, Turn
  <2>2. \A n \in 0 .. blocks : h[n] = Turn(h, n)
    BY <1>1, Zenon
  <2> QED BY <2>1, <2>2, Zenon
<1>3. h[blocks] = stop
  OBVIOUS
<1> HIDE DEF h
<1>4. PICK f : f = [n \in 0 .. blocks |-> Turn(f, n)] /\ RegionLoop(start, blocks) = f[blocks]
  BY <1>2 DEF RegionLoop
<1> DEFINE Wrong == {n \in 0 .. blocks : f[n] # h[n]}
<1>5. ASSUME Wrong # {} PROVE FALSE
  <2>1. PICK n \in Wrong : \A m \in Wrong : n <= m
    <3>1. Wrong \in SUBSET Nat
      OBVIOUS
    <3> HIDE DEF Wrong
    <3> QED BY <1>5, <3>1, LeastIn
  <2>2. n # 0 => f[n - 1] = h[n - 1]
    BY <2>1
  <2>3. f[n] = Turn(f, n)
    BY <1>4, <2>1
  <2>4. Turn(f, n) = h[n]
    <3>1. n \in 0 .. blocks
      BY <2>1
    <3> HIDE DEF Turn
    <3> QED BY <1>1, <2>2, <3>1, Zenon
  <2> QED BY <2>1, <2>3, <2>4
<1>6. f[blocks] = h[blocks]
  <2>1. blocks \in 0 .. blocks /\ blocks \notin Wrong
    BY <1>5
  <2> QED BY <2>1
<1> QED BY <1>3, <1>4, <1>6, Zenon

LEMMA RegionMatches ==
  ASSUME NEW start \in Nat, NEW blocks \in Nat, NEW stop \in start .. start + blocks
  PROVE  RegionStop(start, blocks, stop) <=> stop = RegionLoop(start, blocks)
<1> DEFINE S == {n \in start .. start + blocks : n = start + blocks \/ n \notin set_bits}
<1>1. S \in SUBSET Nat /\ start + blocks \in S
  OBVIOUS
<1>2. PICK s \in S : \A n \in S : s <= n
  <2> HIDE DEF S
  <2> QED BY <1>1, LeastIn
<1>3. RegionStop(start, blocks, s)
  BY <1>2 DEF RegionStop
<1>4. RegionLoop(start, blocks) = s
  BY <1>2, <1>3, RegionLoopIs
<1>5. stop = RegionLoop(start, blocks) => RegionStop(start, blocks, stop)
  BY <1>3, <1>4
<1> QED BY <1>5, RegionLoopIs

-----------------------------------------------------------------------------
(* The theorems *)

\* Everything above holds in every state.
THEOREM FrameInvariant == Spec => []FrameInv
<1>1. FrameInv /\ [Next]_vars => FrameInv'
  <2> SUFFICES ASSUME FrameInv, [Next]_vars PROVE FrameInv'  OBVIOUS
  <2>1. CASE Next
    BY <2>1, InitRegionFrames, ReserveFrames, AllocFrames, FreeFrames DEF Next
  <2>2. CASE UNCHANGED vars
    BY <2>2
    DEF vars, FrameInv, TypeOK, CountMatchesMap, OwnedBlocksSafe, Blocks, MapBits, Words,
        Available, Disjoint, Cleared, NothingLost
  <2> QED  BY <2>1, <2>2
<1> QED  BY <1>1, InitFrames, PTL DEF Spec

\* Whatever memory map the BIOS reports, and however its regions overlap, the
\* blocks that callers hold are marked in the map, are available memory and
\* are neither low memory nor the kernel's.
THEOREM BlocksSafe == Spec => []OwnedBlocksSafe
<1>1. FrameInv => OwnedBlocksSafe  BY DEF FrameInv
<1> QED  BY <1>1, FrameInvariant, PTL

\* _mem_used_blocks is the number of blocks whose bit is set.
THEOREM CountExact == Spec => []CountMatchesMap
<1>1. FrameInv => CountMatchesMap  BY DEF FrameInv
<1> QED  BY <1>1, FrameInvariant, PTL

\* No block of memory is lost: when the regions of the BIOS do not overlap,
\* what nobody holds and nobody reserved can be handed out.
THEOREM MemoryKept == Spec => []NothingLost
<1>1. FrameInv => NothingLost  BY DEF FrameInv
<1> QED  BY <1>1, FrameInvariant, PTL

\* mmap_first_free(), mmap_first_free_zone() and mem_init_region() return what the
\* allocator's specification says, for every map that calls can make and words of any
\* size.
THEOREM ScanLoopsMatch == Spec => []LoopsMatch
<1>1. FrameInv => LoopsMatch
  <2> SUFFICES ASSUME FrameInv PROVE LoopsMatch
    OBVIOUS
  <2>1. max_blocks \in Nat
    BY DEF FrameInv, TypeOK
  <2>2. \A b \in MapBits : FirstFree(b) <=> b = FirstFreeLoop
    BY FirstFreeMatches
  <2>3. \A size \in 0 .. max_blocks, b \in MapBits : FirstFreeZone(size, b) <=> b = ZoneLoop(size)
    BY <2>1, ZoneMatches
  <2>4. \A start \in Blocks : \A blocks \in 0 .. max_blocks - start :
          \A stop \in start .. start + blocks :
            RegionStop(start, blocks, stop) <=> stop = RegionLoop(start, blocks)
    <3> SUFFICES ASSUME NEW start \in Blocks, NEW blocks \in 0 .. max_blocks - start,
                        NEW stop \in start .. start + blocks
                 PROVE  RegionStop(start, blocks, stop) <=> stop = RegionLoop(start, blocks)
      OBVIOUS
    <3>1. start \in Nat /\ blocks \in Nat
      BY <2>1 DEF Blocks
    <3> QED BY <3>1, RegionMatches
  <2> QED BY <2>2, <2>3, <2>4 DEF LoopsMatch
<1> QED  BY <1>1, FrameInvariant, PTL
=============================================================================
