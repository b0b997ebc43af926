----------------------------- MODULE KHeapProofs -----------------------------
(***************************************************************************)
(* Proofs about KHeap: up to the first named defect, blocks and holes tile *)
(* the heap and every block keeps its header and its footer.               *)
(***************************************************************************)
EXTENDS KHeap, WellFoundedInduction, FiniteSetTheorems, SequenceTheorems, TLAPS

-----------------------------------------------------------------------------
\* The inductive invariant

Cell == [magic : BOOLEAN, is_hole : BOOLEAN, val : Int]

Frame == [header : Nat, test_header : Nat, do_add : BOOLEAN, old_length : Int,
          marks : Int, block : Nat, kept : Cell]

Multiple(n) == \E k \in Nat : n = k * Page

\* The variables have their types.
Typed ==
  /\ mem \in [Cells -> Cell]
  /\ index \in Seq(Nat)
  /\ end_address \in Nat /\ end_address <= MaxEnd /\ Start + MinSize <= end_address
  /\ Multiple(end_address - Start)
  /\ slack \in BOOLEAN /\ monitor \in BOOLEAN
  /\ request = None \/ request \in [size : Nat \ {0}, align : BOOLEAN, owner : {"caller", "lock"}]
  /\ entry \in Nat
  /\ frames \in Seq(Frame)
  /\ live \subseteq Nat

\* The byte after piece s.
After(m, s) == s + m[s].val

\* The pieces of P cover the heap up to e and do not overlap; none is so small that
\* its footer would overwrite its header.
Tiles(P, m, e) ==
  /\ \A s \in P : s \in Start .. e - 1 /\ m[s].val >= 2 * Rec /\ After(m, s) <= e
  /\ \A s, t \in P : s < t => After(m, s) <= t
  /\ \A c \in Start .. e - 1 : \E s \in P : s <= c /\ c < After(m, s)

\* No item is in the array twice.
Once(s) == \A i, j \in DOMAIN s : s[i] = s[j] => i = j

Listed == Once(index) /\ Holes \cap live = {}

\* Header and footer of a block in use.
Solid(m, s) ==
  /\ m[s].magic /\ ~m[s].is_hole
  /\ m[After(m, s) - Rec].magic /\ m[After(m, s) - Rec].val = s

\* Header and footer of a hole: the footer may be that of a hole it was unified with.
Hollow(m, s) ==
  /\ m[s].magic /\ m[s].is_hole
  /\ m[After(m, s) - Rec].magic
  /\ m[After(m, s) - Rec].val \in s .. After(m, s) - Rec
  /\ m[m[After(m, s) - Rec].val].is_hole

\* create_heap() writes no footer.
Fresh(m, s, e) ==
  s = Start /\ m[s].magic /\ m[s].is_hole /\ After(m, s) = e /\ ~m[e - Rec].magic

Vacant == Pieces \ live

Marked ==
  /\ ~mem[Start - Rec].magic
  /\ \A s \in live : Solid(mem, s)
  /\ \A s \in Vacant : Hollow(mem, s) \/ (s \in Holes /\ Fresh(mem, s, end_address))

\* A suspended free() is going to insert its hole.
Adding == \E i \in DOMAIN frames : frames[i].do_add

\* The piece ends the heap, or a hole after it does.
Ends(s) ==
  \/ After(mem, s) = end_address
  \/ After(mem, s) \in Holes /\ After(mem, After(mem, s)) = end_address

\* The hole that free() is suspended with ends the heap, ...
Resting ==
  LET h == Top.header
  IN  /\ h \notin live /\ After(mem, h) = end_address /\ (h \in Holes <=> ~Adding)
      /\ entry # 0 => After(mem, entry) # h

\* ... or the heap was expanded behind it, there being no other hole, ...
Grown ==
  LET h == Top.header
  IN  /\ request # None /\ Adding /\ h \notin Holes \cup live
      /\ Holes = {After(mem, h)} /\ After(mem, After(mem, h)) = end_address

\* ... or the queue entry of the monitor lock was taken from it, ...
Inside ==
  LET h == Top.header
  IN  /\ entry = h /\ entry # 0 /\ ~Adding /\ Ends(h)
      /\ \A s \in Vacant : After(mem, s) # h

\* ... or from the new hole behind it.
Behind ==
  LET h == Top.header
  IN  /\ entry = After(mem, h) /\ entry # 0 /\ Adding /\ h \notin Holes \cup live
      /\ Ends(entry) /\ Holes \subseteq {After(mem, entry)}

\* All suspended calls are about one hole, and one of them at most inserts it.
Suspended ==
  /\ \A i, j \in DOMAIN frames : frames[i].header = frames[j].header
  /\ \A i, j \in DOMAIN frames : frames[i].do_add /\ frames[j].do_add => i = j
  /\ frames # <<>> => Resting \/ Grown \/ Inside \/ Behind

Called ==
  /\ request # None => /\ entry = 0 /\ (frames # <<>> => ~request.align)
                       /\ request.owner = "lock" <=> frames # <<>>
  /\ entry # 0 => frames # <<>> /\ entry \in live

\* Two holes side by side are one, but for the moment between expand() and placement.
Apart == \A s, t \in Vacant : After(mem, s) = t => frames # <<>> /\ s = Top.header /\ Grown

Sound ==
  Typed /\ Tiles(Pieces, mem, end_address) /\ Listed /\ Marked /\ Suspended /\ Called /\ Apart

HeapInv == defect = "none" => Sound

-----------------------------------------------------------------------------
\* Numbers and sequences

LEMMA LeastIn ==
  ASSUME NEW S \in SUBSET Nat, S # {}
  PROVE  \E x \in S : \A y \in S : x <= y
<1> DEFINE R == OpToRel(<, Nat)
<1>1. \E x \in S : \A y \in S : ~(<<y, x>> \in R)
  BY NatLessThanWellFounded, WFMin
<1>2. \A x, y \in Nat : x < y => <<x, y>> \in R
  BY DEF OpToRel
<1> HIDE DEF R
<1>3. PICK x \in S : \A y \in S : ~(<<y, x>> \in R)
  BY <1>1
<1>4. ASSUME NEW y \in S PROVE x <= y
  <2>1. ~(y < x)
    BY <1>2, <1>3
  <2> QED BY <2>1
<1> QED BY <1>4

LEMMA GreatestIn ==
  ASSUME NEW N \in Nat, NEW S \in SUBSET (0 .. N), S # {}
  PROVE  \E x \in S : \A y \in S : y <= x
<1> DEFINE T == {N - x : x \in S}
<1>1. T \in SUBSET Nat /\ T # {}
  <2>1. PICK x \in S : TRUE
    OBVIOUS
  <2>2. N - x \in T
    BY <2>1
  <2>3. \A y \in S : N - y \in Nat
    OBVIOUS
  <2> QED BY <2>2, <2>3
<1>2. PICK z \in T : \A y \in T : z <= y
  <2> HIDE DEF T
  <2> QED BY <1>1, LeastIn
<1>3. PICK x \in S : z = N - x
  BY <1>2
<1>4. ASSUME NEW y \in S PROVE y <= x
  <2>1. N - y \in T
    OBVIOUS
  <2>2. N - x <= N - y
    BY <1>2, <1>3, <2>1
  <2> QED BY <2>2
<1> QED BY <1>4

\* The constants are lengths in bytes.
LEMMA RecFacts == Rec \in Nat /\ Rec > 0
  BY HeapAssumption

\* A page has room for a block of one record.
LEMMA PageFacts ==
  Page \in Nat /\ Page >= 3 * Rec /\ Start \in Nat /\ Start = Page /\ MaxEnd \in Nat
  BY HeapAssumption, RecFacts DEF Start

\* RoundUp() gives the next multiple of a page.
LEMMA RoundUpFacts ==
  ASSUME NEW n \in Nat
  PROVE  RoundUp(n) \in Nat /\ n <= RoundUp(n) /\ RoundUp(n) < n + Page /\ Multiple(RoundUp(n))
<1>1. PICK q, r : q = (n + Page - 1) \div Page /\ r = (n + Page - 1) % Page
  OBVIOUS
<1>2. q \in Nat /\ r \in 0 .. Page - 1 /\ n + Page - 1 = Page * q + r
  BY <1>1, PageFacts, RecFacts
<1>3. RoundUp(n) = q * Page
  BY <1>1 DEF RoundUp
<1>4. q * Page \in Nat /\ q * Page = Page * q
  BY <1>2, PageFacts
<1> QED BY <1>2, <1>3, <1>4, PageFacts DEF Multiple

\* It gives no more than a multiple that is large enough.
LEMMA RoundUpLeast ==
  ASSUME NEW n \in Nat, NEW m \in Nat, Multiple(m), n <= m
  PROVE  RoundUp(n) <= m
<1>1. PICK j \in Nat : m = j * Page
  BY DEF Multiple
<1>2. PICK k \in Nat : RoundUp(n) = k * Page
  BY RoundUpFacts DEF Multiple
<1>3. k * Page < j * Page + Page
  <2>1. RoundUp(n) < n + Page /\ RoundUp(n) \in Nat
    BY RoundUpFacts
  <2>2. RoundUp(n) < m + Page
    BY <2>1, PageFacts
  <2> QED BY <1>1, <1>2, <2>2
<1>4. k <= j
  <2>1. SUFFICES ASSUME k >= j + 1 PROVE FALSE
    OBVIOUS
  <2>2. k * Page >= (j + 1) * Page
    BY <2>1, PageFacts
  <2>3. (j + 1) * Page = j * Page + Page
    BY PageFacts
  <2> QED BY <1>3, <2>2, <2>3, PageFacts
<1> QED BY <1>1, <1>2, <1>4, PageFacts

\* Where alloc() puts the block in the hole, it is as far as find_smallest_hole() took it
\* to be.
LEMMA OffsetFacts ==
  ASSUME NEW h \in Nat, FrontSize(h) >= 0
  PROVE  FrontSize(h) \in Nat /\ Offset(h) = FrontSize(h)
<1>0. Page \in Nat /\ Page > 0 /\ Rec \in Nat /\ Rec > 0
  BY PageFacts, RecFacts
<1>1. PICK q, r, p, s : /\ q = h \div Page /\ r = h % Page
                        /\ p = (h + Rec) \div Page /\ s = (h + Rec) % Page
  OBVIOUS
<1>2. /\ q \in Nat /\ r \in 0 .. Page - 1 /\ h = Page * q + r
      /\ p \in Nat /\ s \in 0 .. Page - 1 /\ h + Rec = Page * p + s
  BY <1>0, <1>1
<1>3. /\ Offset(h) = IF s # 0 THEN Page - s ELSE 0
      /\ FrontSize(h) = IF s # 0 THEN Page - r - Rec ELSE 0
  BY <1>1 DEF Offset, FrontSize
<1>4. CASE s = 0
  BY <1>3, <1>4
<1>5. CASE s # 0
  <2>1. r + Rec <= Page
    BY <1>0, <1>2, <1>3, <1>5
  <2>2. PICK x, y : x = Page * q /\ y = Page * p
    OBVIOUS
  <2>3. x \in Nat /\ y \in Nat /\ x + r + Rec = y + s
    BY <1>0, <1>2, <2>2
  <2>4. p = q
    <3>1. CASE p >= q + 1
      <4>1. Page * p >= Page * (q + 1) /\ Page * (q + 1) = Page * q + Page
        BY <1>0, <1>2, <3>1
      <4>2. y >= x + Page
        BY <2>2, <4>1
      <4> QED BY <1>0, <1>2, <1>5, <2>1, <2>3, <4>2
    <3>2. CASE q >= p + 1
      <4>1. Page * q >= Page * (p + 1) /\ Page * (p + 1) = Page * p + Page
        BY <1>0, <1>2, <3>2
      <4>2. x >= y + Page
        BY <2>2, <4>1
      <4> QED BY <1>0, <1>2, <2>3, <4>2
    <3> QED BY <1>2, <3>1, <3>2
  <2>5. s = r + Rec
    <3>1. x = y
      BY <2>2, <2>4
    <3> QED BY <1>0, <1>2, <2>3, <3>1
  <2> QED BY <1>0, <1>2, <1>3, <1>5, <2>1, <2>5
<1> QED BY <1>4, <1>5

LEMMA RangeOf ==
  ASSUME NEW S, NEW s \in Seq(S)
  PROVE  /\ DOMAIN s = 1 .. Len(s) /\ Len(s) \in Nat
         /\ \A x : x \in Range(s) <=> \E i \in 1 .. Len(s) : s[i] = x
BY DEF Range

LEMMA InsertAtProperties ==
  ASSUME NEW s \in Seq(Nat), NEW e \in Nat, NEW i \in 1 .. Len(s) + 1
  PROVE  /\ InsertAt(s, i, e) \in Seq(Nat) /\ Len(InsertAt(s, i, e)) = Len(s) + 1
         /\ \A k \in 1 .. Len(s) + 1 :
              InsertAt(s, i, e)[k] = IF k < i THEN s[k] ELSE IF k = i THEN e ELSE s[k - 1]
<1> DEFINE a == SubSeq(s, 1, i - 1)
           b == SubSeq(s, i, Len(s))
           ae == a \o <<e>>
<1>1. a \in Seq(Nat) /\ Len(a) = i - 1 /\ \A k \in 1 .. i - 1 : a[k] = s[k]
  BY SubSeqProperties
<1>2. b \in Seq(Nat) /\ Len(b) = Len(s) - i + 1 /\ \A k \in 1 .. Len(s) - i + 1 : b[k] = s[k + i - 1]
  <2>1. b \in Seq(Nat) /\ Len(b) = (IF i <= Len(s) THEN Len(s) - i + 1 ELSE 0)
        /\ \A k \in 1 .. Len(s) - i + 1 : b[k] = s[i + k - 1]
    BY SubSeqProperties
  <2> QED BY <2>1
<1> HIDE DEF a, b
<1>3. ae \in Seq(Nat) /\ Len(ae) = i /\ \A k \in 1 .. i : ae[k] = IF k < i THEN s[k] ELSE e
  <2>1. <<e>> \in Seq(Nat) /\ Len(<<e>>) = 1 /\ <<e>>[1] = e
    OBVIOUS
  <2> HIDE DEF ae
  <2>2. ae = a \o <<e>>
    BY DEF ae
  <2>3. ae \in Seq(Nat) /\ Len(ae) = i
        /\ \A k \in 1 .. i : ae[k] = IF k <= Len(a) THEN a[k] ELSE <<e>>[k - Len(a)]
    <3>1. ae \in Seq(Nat) /\ Len(ae) = Len(a) + Len(<<e>>)
          /\ \A k \in 1 .. Len(a) + Len(<<e>>) :
               ae[k] = IF k <= Len(a) THEN a[k] ELSE <<e>>[k - Len(a)]
      BY <1>1, <2>1, <2>2, ConcatProperties, Zenon
    <3>2. Len(a) + Len(<<e>>) = i  BY <1>1, <2>1
    <3> QED BY <3>1, <3>2, Zenon
  <2>4. ASSUME NEW k \in 1 .. i PROVE ae[k] = IF k < i THEN s[k] ELSE e
    <3>1. CASE k < i
      <4>1. k <= Len(a) /\ k \in 1 .. i - 1  BY <1>1, <3>1
      <4>2. ae[k] = a[k]  BY <2>3, <4>1
      <4> QED BY <1>1, <3>1, <4>1, <4>2
    <3>2. CASE k = i
      <4>1. ~(k <= Len(a)) /\ k - Len(a) = 1  BY <1>1, <3>2
      <4> QED BY <2>1, <2>3, <3>2, <4>1
    <3> QED BY <3>1, <3>2
  <2> QED BY <2>3, <2>4
<1>4. InsertAt(s, i, e) = ae \o b
  BY DEF InsertAt, a, b
<1> HIDE DEF ae
<1> DEFINE c == ae \o b
<1>5. c \in Seq(Nat) /\ Len(c) = Len(ae) + Len(b)
      /\ \A k \in 1 .. Len(ae) + Len(b) : c[k] = IF k <= Len(ae) THEN ae[k] ELSE b[k - Len(ae)]
  BY <1>2, <1>3, ConcatProperties
<1> HIDE DEF c
<1>6. Len(c) = Len(s) + 1
  BY <1>2, <1>3, <1>5
<1>7. ASSUME NEW k \in 1 .. Len(s) + 1
      PROVE  c[k] = IF k < i THEN s[k] ELSE IF k = i THEN e ELSE s[k - 1]
  <2>1. c[k] = IF k <= i THEN ae[k] ELSE b[k - i]
    BY <1>2, <1>3, <1>5
  <2>2. CASE k <= i  BY <1>3, <2>1, <2>2
  <2>3. CASE k > i
    <3>1. k - i \in 1 .. Len(s) - i + 1 /\ (k - i) + i - 1 = k - 1  BY <2>3
    <3>2. b[k - i] = s[k - 1]  BY <1>2, <3>1
    <3> QED BY <2>1, <2>3, <3>2
  <2> QED BY <2>2, <2>3
<1> QED BY <1>4, <1>5, <1>6, <1>7 DEF c

LEMMA RemoveAtProperties ==
  ASSUME NEW s \in Seq(Nat), NEW i \in 1 .. Len(s)
  PROVE  /\ RemoveAt(s, i) \in Seq(Nat) /\ Len(RemoveAt(s, i)) = Len(s) - 1
         /\ \A k \in 1 .. Len(s) - 1 : RemoveAt(s, i)[k] = IF k < i THEN s[k] ELSE s[k + 1]
<1> DEFINE a == SubSeq(s, 1, i - 1)
           b == SubSeq(s, i + 1, Len(s))
<1>1. a \in Seq(Nat) /\ Len(a) = i - 1 /\ \A k \in 1 .. i - 1 : a[k] = s[k]
  BY SubSeqProperties
<1>2. b \in Seq(Nat) /\ Len(b) = Len(s) - i /\ \A k \in 1 .. Len(s) - i : b[k] = s[k + i]
  <2>1. b \in Seq(Nat) /\ Len(b) = (IF i + 1 <= Len(s) THEN Len(s) - (i + 1) + 1 ELSE 0)
        /\ \A k \in 1 .. Len(s) - (i + 1) + 1 : b[k] = s[(i + 1) + k - 1]
    BY SubSeqProperties
  <2> QED BY <2>1
<1> HIDE DEF a, b
<1>3. RemoveAt(s, i) = a \o b
  BY DEF RemoveAt, a, b
<1> DEFINE c == a \o b
<1>4. c \in Seq(Nat) /\ Len(c) = Len(a) + Len(b)
      /\ \A k \in 1 .. Len(a) + Len(b) : c[k] = IF k <= Len(a) THEN a[k] ELSE b[k - Len(a)]
  BY <1>1, <1>2, ConcatProperties
<1> HIDE DEF c
<1>5. Len(c) = Len(s) - 1
  BY <1>1, <1>2, <1>4
<1>6. ASSUME NEW k \in 1 .. Len(s) - 1
      PROVE  c[k] = IF k < i THEN s[k] ELSE s[k + 1]
  <2>1. c[k] = IF k <= i - 1 THEN a[k] ELSE b[k - (i - 1)]
    <3>1. Len(s) \in Nat /\ Len(a) = i - 1 /\ k \in 1 .. Len(a) + Len(b)  BY <1>1, <1>2
    <3>2. c[k] = IF k <= Len(a) THEN a[k] ELSE b[k - Len(a)]  BY <1>4, <3>1
    <3> QED BY <3>1, <3>2, Zenon
  <2>2. CASE k < i  BY <1>1, <2>1, <2>2
  <2>3. CASE k >= i
    <3>1. k - (i - 1) \in 1 .. Len(s) - i /\ (k - (i - 1)) + i = k + 1  BY <2>3
    <3>2. b[k - (i - 1)] = s[k + 1]  BY <1>2, <3>1
    <3> QED BY <2>1, <2>3, <3>2
  <2> QED BY <2>2, <2>3
<1> QED BY <1>3, <1>4, <1>5, <1>6 DEF c

\* insert_ordered_array() adds the item and keeps the others.
LEMMA InsertItem ==
  ASSUME NEW s \in Seq(Nat), NEW item \in Nat, NEW m,
         m[item].val \in Int, \A i \in DOMAIN s : m[s[i]].val \in Int
  PROVE  /\ Insert(s, item, m) \in Seq(Nat)
         /\ Range(Insert(s, item, m)) = Range(s) \cup {item}
         /\ Once(s) /\ item \notin Range(s) => Once(Insert(s, item, m))
<1> DEFINE Good(i) == /\ i = Len(s) + 1 \/ m[s[i]].val >= m[item].val
                      /\ \A j \in 1 .. i - 1 : m[s[j]].val < m[item].val
           T == {i \in 1 .. Len(s) + 1 : i = Len(s) + 1 \/ m[s[i]].val >= m[item].val}
           at == CHOOSE i \in 1 .. Len(s) + 1 : Good(i)
<1>0. DOMAIN s = 1 .. Len(s) /\ Len(s) \in Nat
  OBVIOUS
<1>1. T \in SUBSET Nat /\ T # {}
  <2>1. Len(s) + 1 \in T
    BY <1>0
  <2> QED BY <1>0, <2>1
<1>2. PICK x \in T : \A y \in T : x <= y
  <2> HIDE DEF T
  <2> QED BY <1>1, LeastIn
<1>3. x \in 1 .. Len(s) + 1 /\ Good(x)
  <2>1. ASSUME NEW j \in 1 .. x - 1 PROVE m[s[j]].val < m[item].val
    <3>1. j \in 1 .. Len(s) /\ j \notin T
      BY <1>0, <1>2
    <3> QED BY <1>0, <3>1
  <2> QED BY <1>0, <2>1
<1>4. at \in 1 .. Len(s) + 1
  <2> HIDE DEF Good
  <2> QED BY <1>3
<1>5. Insert(s, item, m) = InsertAt(s, at, item)
  BY DEF Insert
<1> HIDE DEF at
<1> DEFINE r == InsertAt(s, at, item)
<1>6. r \in Seq(Nat) /\ Len(r) = Len(s) + 1
      /\ \A k \in 1 .. Len(s) + 1 : r[k] = IF k < at THEN s[k] ELSE IF k = at THEN item ELSE s[k - 1]
  BY <1>4, InsertAtProperties, ZenonT(60)
<1> HIDE DEF r
<1>7. DOMAIN r = 1 .. Len(s) + 1
  BY <1>6
<1>8. Range(r) = Range(s) \cup {item}
  <2>1. ASSUME NEW y \in Range(r) PROVE y \in Range(s) \cup {item}
    <3>1. PICK k \in 1 .. Len(s) + 1 : r[k] = y
      BY <1>7 DEF Range
    <3>2. CASE k < at
      <4>1. k \in DOMAIN s /\ s[k] = y  BY <1>0, <1>4, <1>6, <3>1, <3>2
      <4> QED BY <4>1 DEF Range
    <3>3. CASE k = at  BY <1>6, <3>1, <3>3
    <3>4. CASE k > at
      <4>1. k - 1 \in DOMAIN s /\ s[k - 1] = y  BY <1>0, <1>4, <1>6, <3>1, <3>4
      <4> QED BY <4>1 DEF Range
    <3> QED BY <1>4, <3>2, <3>3, <3>4
  <2>2. ASSUME NEW y \in Range(s) PROVE y \in Range(r)
    <3>1. PICK k \in 1 .. Len(s) : s[k] = y
      BY <1>0 DEF Range
    <3>2. CASE k < at
      <4>1. k \in DOMAIN r /\ r[k] = y  BY <1>0, <1>6, <1>7, <3>1, <3>2
      <4> QED BY <4>1 DEF Range
    <3>3. CASE k >= at
      <4>1. k + 1 \in 1 .. Len(s) + 1 /\ ~(k + 1 < at) /\ k + 1 # at /\ (k + 1) - 1 = k
        BY <1>0, <1>4, <3>3
      <4>2. r[k + 1] = s[(k + 1) - 1]  BY <1>6, <4>1, Zenon
      <4> QED BY <1>7, <3>1, <4>1, <4>2 DEF Range
    <3> QED BY <1>4, <3>2, <3>3
  <2>3. item \in Range(r)
    <3>1. at \in DOMAIN r /\ r[at] = item  BY <1>4, <1>6, <1>7
    <3> QED BY <3>1 DEF Range
  <2> QED BY <2>1, <2>2, <2>3
<1>9. ASSUME Once(s), item \notin Range(s) PROVE Once(r)
  <2>1. \A k \in 1 .. Len(s) : s[k] # item
    BY <1>0, <1>9 DEF Range
  <2>2. ASSUME NEW k \in 1 .. Len(s) + 1, NEW j \in 1 .. Len(s) + 1, r[k] = r[j] PROVE k = j
    <3>2. ASSUME NEW z \in 1 .. Len(s) + 1, z # at
          PROVE  \E a \in 1 .. Len(s) : r[z] = s[a] /\ z = IF a < at THEN a ELSE a + 1
      <4>1. CASE z < at  BY <1>0, <1>4, <1>6, <4>1
      <4>2. CASE z > at
        <5>1. z - 1 \in 1 .. Len(s) /\ ~(z - 1 < at) /\ (z - 1) + 1 = z  BY <1>0, <1>4, <4>2
        <5>2. r[z] = s[z - 1]  BY <1>4, <1>6, <4>2
        <5> QED BY <5>1, <5>2
      <4> QED BY <1>4, <3>2, <4>1, <4>2
    <3>3. \A a, b \in 1 .. Len(s) : s[a] = s[b] => a = b
      BY <1>0, <1>9 DEF Once
    <3>4. k = at <=> j = at
      <4>1. r[at] = item  BY <1>4, <1>6
      <4> QED BY <1>4, <2>1, <2>2, <3>2, <4>1
    <3>5. CASE k # at /\ j # at
      <4>1. PICK a \in 1 .. Len(s) : r[k] = s[a] /\ k = IF a < at THEN a ELSE a + 1  BY <3>2, <3>5
      <4>2. PICK b \in 1 .. Len(s) : r[j] = s[b] /\ j = IF b < at THEN b ELSE b + 1  BY <3>2, <3>5
      <4>3. a = b  BY <2>2, <3>3, <4>1, <4>2
      <4> QED BY <4>1, <4>2, <4>3
    <3> QED BY <3>4, <3>5
  <2> QED BY <1>7, <2>2 DEF Once
<1> QED BY <1>5, <1>6, <1>8, <1>9 DEF r

\* Removing an item at its place keeps the others.
LEMMA RemoveOne ==
  ASSUME NEW s \in Seq(Nat), NEW at \in 1 .. Len(s), Once(s)
  PROVE  /\ RemoveAt(s, at) \in Seq(Nat) /\ Once(RemoveAt(s, at))
         /\ Range(RemoveAt(s, at)) = Range(s) \ {s[at]}
<1> DEFINE r == RemoveAt(s, at)
<1>0. DOMAIN s = 1 .. Len(s) /\ Len(s) \in Nat
  OBVIOUS
<1>1. r \in Seq(Nat) /\ Len(r) = Len(s) - 1
      /\ \A k \in 1 .. Len(s) - 1 : r[k] = IF k < at THEN s[k] ELSE s[k + 1]
  BY RemoveAtProperties
<1> HIDE DEF r
<1>2. DOMAIN r = 1 .. Len(s) - 1
  BY <1>1
<1>3. \A a, b \in 1 .. Len(s) : s[a] = s[b] => a = b
  BY <1>0 DEF Once
<1>4. Range(r) = Range(s) \ {s[at]}
  <2>1. ASSUME NEW y \in Range(r) PROVE y \in Range(s) \ {s[at]}
    <3>1. PICK k \in 1 .. Len(s) - 1 : r[k] = y
      BY <1>2 DEF Range
    <3>2. PICK j \in 1 .. Len(s) : j # at /\ s[j] = y
      <4>1. CASE k < at  BY <1>0, <1>1, <3>1, <4>1
      <4>2. CASE k >= at
        <5>1. k + 1 \in 1 .. Len(s) /\ k + 1 # at /\ s[k + 1] = y  BY <1>0, <1>1, <3>1, <4>2
        <5> QED BY <5>1
      <4> QED BY <4>1, <4>2
    <3> QED BY <1>0, <1>3, <3>2 DEF Range
  <2>2. ASSUME NEW y \in Range(s) \ {s[at]} PROVE y \in Range(r)
    <3>1. PICK k \in 1 .. Len(s) : s[k] = y /\ k # at
      BY <1>0 DEF Range
    <3>2. CASE k < at
      <4>1. k \in 1 .. Len(s) - 1  BY <1>0, <3>2
      <4>2. r[k] = y  BY <1>1, <3>1, <3>2, <4>1, Zenon
      <4> QED BY <1>2, <4>1, <4>2 DEF Range
    <3>3. CASE k > at
      <4>1. k - 1 \in 1 .. Len(s) - 1 /\ ~(k - 1 < at) /\ (k - 1) + 1 = k  BY <1>0, <3>3
      <4>2. r[k - 1] = y  BY <1>1, <3>1, <4>1
      <4> QED BY <1>2, <4>1, <4>2 DEF Range
    <3> QED BY <3>1, <3>2, <3>3
  <2> QED BY <2>1, <2>2
<1>5. Once(r)
  <2>1. ASSUME NEW k \in 1 .. Len(s) - 1, NEW j \in 1 .. Len(s) - 1, r[k] = r[j] PROVE k = j
    <3>1. ASSUME NEW z \in 1 .. Len(s) - 1
          PROVE  \E a \in 1 .. Len(s) : r[z] = s[a] /\ a = IF z < at THEN z ELSE z + 1
      <4>1. CASE z < at
        <5>1. z \in 1 .. Len(s)  BY <1>0
        <5>2. r[z] = s[z]  BY <1>1, <4>1, Zenon
        <5> QED BY <4>1, <5>1, <5>2, Zenon
      <4>2. CASE z >= at
        <5>1. z + 1 \in 1 .. Len(s) /\ r[z] = s[z + 1]  BY <1>0, <1>1, <4>2
        <5> QED BY <4>2, <5>1
      <4> QED BY <4>1, <4>2
    <3>2. PICK a \in 1 .. Len(s) : r[k] = s[a] /\ a = IF k < at THEN k ELSE k + 1  BY <3>1
    <3>3. PICK b \in 1 .. Len(s) : r[j] = s[b] /\ b = IF j < at THEN j ELSE j + 1  BY <3>1
    <3>4. a = b  BY <1>3, <2>1, <3>2, <3>3
    <3> QED BY <3>2, <3>3, <3>4
  <2> QED BY <1>2, <2>1 DEF Once
<1> QED BY <1>1, <1>4, <1>5 DEF r

\* remove_ordered_array() of an item that is there.
LEMMA RemoveItemThere ==
  ASSUME NEW s \in Seq(Nat), Once(s), NEW item \in Range(s)
  PROVE  /\ RemoveItem(s, item) \in Seq(Nat) /\ Once(RemoveItem(s, item))
         /\ Range(RemoveItem(s, item)) = Range(s) \ {item}
<1> DEFINE at == CHOOSE i \in DOMAIN s : s[i] = item /\ \A j \in 1 .. i - 1 : s[j] # item
<1>0. DOMAIN s = 1 .. Len(s) /\ Len(s) \in Nat
  OBVIOUS
<1>1. PICK i \in DOMAIN s : s[i] = item
  BY DEF Range
<1>2. \A j \in 1 .. i - 1 : s[j] # item
  <2>1. ASSUME NEW j \in 1 .. i - 1, s[j] = item PROVE FALSE
    <3>1. j \in DOMAIN s /\ j # i  BY <1>0
    <3> QED BY <1>1, <2>1, <3>1 DEF Once
  <2> QED BY <2>1
<1>3. at \in DOMAIN s /\ s[at] = item
  BY <1>1, <1>2
<1>4. RemoveItem(s, item) = RemoveAt(s, at)
  BY <1>1 DEF RemoveItem
<1> HIDE DEF at
<1> QED BY <1>0, <1>3, <1>4, RemoveOne

-----------------------------------------------------------------------------
\* Every proof from here on knows how long a record is.
USE RecFacts

\* Tilings

\* The pieces R of the bytes from lo to hi are replaced by the pieces N from lo to
\* hi2: inside the heap, or at its end, which may move.
Replaces(P, m, e, m2, e2, R, N, lo, hi, hi2) ==
  /\ Tiles(P, m, e) /\ \A s \in P : m[s].val \in Int
  /\ lo \in Nat /\ hi \in Nat /\ hi2 \in Nat /\ e \in Nat /\ e2 \in Nat
  /\ Start <= lo /\ lo <= hi /\ hi <= e /\ lo <= hi2 /\ R \subseteq P
  /\ \A s \in R : lo <= s /\ After(m, s) <= hi
  /\ \A s \in P \ R : After(m, s) <= lo \/ hi <= s
  /\ (hi = hi2 /\ e = e2) \/ (hi = e /\ hi2 = e2)
  /\ \A s \in N : s \in Nat /\ m2[s].val \in Int /\ lo <= s /\ m2[s].val >= 2 * Rec /\ After(m2, s) <= hi2
  /\ \A s, t \in N : s < t => After(m2, s) <= t
  /\ \A c \in lo .. hi2 - 1 : \E s \in N : s <= c /\ c < After(m2, s)
  /\ \A s \in P \ R : m2[s].val = m[s].val

LEMMA Retile ==
  ASSUME NEW P, NEW m, NEW e, NEW m2, NEW e2, NEW R, NEW N, NEW lo, NEW hi, NEW hi2,
         Replaces(P, m, e, m2, e2, R, N, lo, hi, hi2)
  PROVE  Tiles((P \ R) \cup N, m2, e2)
<1> USE DEF Replaces
<1> DEFINE Q == (P \ R) \cup N
<1>0. Start \in Nat
  BY PageFacts
<1>1. ASSUME NEW s \in P
      PROVE  /\ s \in Nat /\ Start <= s /\ s < e /\ m[s].val \in Int /\ m[s].val >= 2 * Rec
             /\ After(m, s) \in Int /\ After(m, s) <= e /\ s + 2 * Rec <= After(m, s)
  BY <1>0 DEF Tiles, After
<1>2. ASSUME NEW s \in P \ R
      PROVE  After(m2, s) = After(m, s) /\ (hi = e => After(m, s) <= lo)
  BY <1>1 DEF After
<1>3. ASSUME NEW s \in N
      PROVE  After(m2, s) \in Int /\ s + 2 * Rec <= After(m2, s) /\ After(m2, s) <= e2 /\ s \in Nat /\ lo <= s
             /\ After(m2, s) <= hi2
  BY DEF After
<1>4. ASSUME NEW s \in Q PROVE s \in Start .. e2 - 1 /\ m2[s].val >= 2 * Rec /\ After(m2, s) <= e2
  <2>1. CASE s \in N  BY <1>0, <1>3, <2>1
  <2>2. CASE s \in P \ R  BY <1>0, <1>1, <1>2, <2>2
  <2> QED BY <2>1, <2>2
<1>5. ASSUME NEW s \in Q, NEW t \in Q, s < t PROVE After(m2, s) <= t
  <2>1. CASE s \in N /\ t \in N  BY <1>5, <2>1
  <2>2. CASE s \in P \ R /\ t \in P \ R
    <3>1. After(m, s) <= t  BY <1>5, <2>2 DEF Tiles
    <3> QED BY <1>2, <2>2, <3>1
  <2>3. CASE s \in N /\ t \in P \ R
    <3>1. hi <= t  BY <1>1, <1>3, <1>5, <2>3
    <3> QED BY <1>1, <1>2, <1>3, <2>3, <3>1
  <2>4. CASE s \in P \ R /\ t \in N
    <3>1. After(m, s) <= lo
      <4>1. CASE hi = e  BY <1>2, <2>4, <4>1
      <4>2. CASE hi = hi2  BY <1>1, <1>3, <1>5, <2>4, <4>2
      <4> QED BY <4>1, <4>2
    <3> QED BY <1>1, <1>2, <1>3, <2>4, <3>1
  <2> QED BY <2>1, <2>2, <2>3, <2>4
<1>6. ASSUME NEW c \in Start .. e2 - 1 PROVE \E s \in Q : s <= c /\ c < After(m2, s)
  <2>1. CASE c \in lo .. hi2 - 1  BY <2>1
  <2>2. CASE c \notin lo .. hi2 - 1
    <3>1. c \in Start .. e - 1 /\ (c < lo \/ hi <= c)  BY <1>0, <2>2
    <3>2. PICK s \in P : s <= c /\ c < After(m, s)  BY <3>1 DEF Tiles
    <3>3. s \notin R  BY <1>0, <1>1, <3>1, <3>2
    <3> QED BY <1>2, <3>2, <3>3
  <2> QED BY <2>1, <2>2
<1> QED BY <1>4, <1>5, <1>6 DEF Tiles

\* One piece h takes the place of the pieces R, up to hi2.
LEMMA OnePiece ==
  ASSUME NEW P, NEW m, NEW e \in Nat, NEW m2, NEW e2 \in Nat, NEW R, NEW h \in Nat,
         NEW hi \in Nat, NEW hi2 \in Nat,
         Tiles(P, m, e), \A s \in P : m[s].val \in Int,
         Start <= h, h <= hi, hi <= e, R \subseteq P,
         \A s \in R : h <= s /\ After(m, s) <= hi,
         \A s \in P \ R : After(m, s) <= h \/ hi <= s,
         (hi = hi2 /\ e = e2) \/ (hi = e /\ hi2 = e2),
         m2[h].val = hi2 - h, h + 2 * Rec <= hi2,
         \A s \in P \ R : m2[s].val = m[s].val
  PROVE  Tiles((P \ R) \cup {h}, m2, e2)
<1>1. After(m2, h) = hi2
  BY DEF After
<1>2. \A s \in {h} : s \in Nat /\ m2[s].val \in Int /\ h <= s /\ m2[s].val >= 2 * Rec /\ After(m2, s) <= hi2
  BY <1>1
<1>3. \A s, t \in {h} : s < t => After(m2, s) <= t
  OBVIOUS
<1>4. \A c \in h .. hi2 - 1 : \E s \in {h} : s <= c /\ c < After(m2, s)
  <2>1. ASSUME NEW c \in h .. hi2 - 1 PROVE h <= c /\ c < After(m2, h)  BY <1>1
  <2> QED BY <2>1
<1>5. Replaces(P, m, e, m2, e2, R, {h}, h, hi, hi2)
  <2>1. h <= hi2  OBVIOUS
  <2> QED BY <1>2, <1>3, <1>4, <2>1 DEF Replaces
<1> QED BY <1>5, Retile

\* The same pieces with the same sizes.
LEMMA SameTiles ==
  ASSUME NEW P, NEW m, NEW e, NEW m2, Tiles(P, m, e), \A s \in P : m2[s].val = m[s].val
  PROVE  Tiles(P, m2, e)
BY DEF Tiles, After

\* What the tiling says of one piece, and of two.
LEMMA PieceFacts ==
  ASSUME NEW P, NEW m, NEW e \in Nat, Tiles(P, m, e), \A s \in P : m[s].val \in Int, NEW s \in P
  PROVE  /\ s \in Nat /\ Start <= s /\ s < e /\ m[s].val \in Nat /\ m[s].val >= 2 * Rec
         /\ After(m, s) \in Nat /\ After(m, s) <= e /\ s + 2 * Rec <= After(m, s)
         /\ \A t \in P : s # t => After(m, s) <= t \/ After(m, t) <= s
<1>1. /\ s \in Nat /\ Start <= s /\ s < e /\ m[s].val \in Nat /\ m[s].val >= 2 * Rec
      /\ After(m, s) \in Nat /\ After(m, s) <= e /\ s + 2 * Rec <= After(m, s)
  BY PageFacts DEF Tiles, After
<1>2. ASSUME NEW t \in P, s # t PROVE After(m, s) <= t \/ After(m, t) <= s
  <2>1. t \in Nat  BY PageFacts DEF Tiles
  <2>2. CASE s < t  BY <2>2 DEF Tiles
  <2>3. CASE t < s  BY <2>3 DEF Tiles
  <2> QED BY <1>1, <1>2, <2>1, <2>2, <2>3
<1> QED BY <1>1, <1>2

\* The byte after a piece is a piece or the end.
LEMMA NextPiece ==
  ASSUME NEW P, NEW m, NEW e \in Nat, Tiles(P, m, e), \A s \in P : m[s].val \in Int, NEW s \in P,
         After(m, s) # e
  PROVE  After(m, s) \in P
<1>1. After(m, s) \in Start .. e - 1
  BY PieceFacts, PageFacts
<1>2. PICK t \in P : t <= After(m, s) /\ After(m, s) < After(m, t)
  BY <1>1 DEF Tiles
<1>3. t # s  BY <1>2, PieceFacts
<1>4. After(m, s) <= t \/ After(m, t) <= s  BY <1>3, PieceFacts
<1>5. t = After(m, s)  BY <1>1, <1>2, <1>4, PieceFacts, PageFacts
<1> QED BY <1>5

\* Before a piece is a piece, but for the first.
LEMMA PreviousPiece ==
  ASSUME NEW P, NEW m, NEW e \in Nat, Tiles(P, m, e), \A s \in P : m[s].val \in Int, NEW s \in P,
         s # Start
  PROVE  \E p \in P : After(m, p) = s /\ p < s
<1>1. s - 1 \in Start .. e - 1
  BY PieceFacts, PageFacts
<1>2. PICK p \in P : p <= s - 1 /\ s - 1 < After(m, p)
  BY <1>1 DEF Tiles
<1>3. p # s  BY <1>2, PieceFacts
<1>4. After(m, p) <= s \/ After(m, s) <= p  BY <1>3, PieceFacts
<1>5. After(m, p) = s /\ p < s  BY <1>2, <1>4, PieceFacts
<1> QED BY <1>5

\* The marks of a piece are those of its bytes.
LEMMA SolidKept ==
  ASSUME NEW m, NEW m2, NEW s \in Nat, m[s].val \in Nat, m[s].val >= 2 * Rec,
         Solid(m, s), \A c \in s .. After(m, s) - Rec : m2[c] = m[c]
  PROVE  Solid(m2, s) /\ After(m2, s) = After(m, s)
<1>1. s \in s .. After(m, s) - Rec /\ After(m, s) - Rec \in s .. After(m, s) - Rec
  BY DEF After
<1>2. m2[s] = m[s] /\ m2[After(m, s) - Rec] = m[After(m, s) - Rec]
  BY <1>1
<1>3. After(m2, s) = After(m, s)
  BY <1>2 DEF After
<1> QED BY <1>2, <1>3 DEF Solid

LEMMA HollowKept ==
  ASSUME NEW m, NEW m2, NEW s \in Nat, m[s].val \in Nat, m[s].val >= 2 * Rec,
         Hollow(m, s), \A c \in s .. After(m, s) - Rec : m2[c] = m[c]
  PROVE  Hollow(m2, s) /\ After(m2, s) = After(m, s)
<1>1. s \in s .. After(m, s) - Rec /\ After(m, s) - Rec \in s .. After(m, s) - Rec
  BY DEF After
<1>2. m2[s] = m[s] /\ m2[After(m, s) - Rec] = m[After(m, s) - Rec]
  BY <1>1
<1>3. After(m2, s) = After(m, s)
  BY <1>2 DEF After
<1>4. m2[m[After(m, s) - Rec].val] = m[m[After(m, s) - Rec].val]
  BY DEF Hollow
<1> QED BY <1>2, <1>3, <1>4 DEF Hollow

-----------------------------------------------------------------------------
\* What the invariant says of a state

LEMMA HeadersAre ==
  ASSUME NEW fs \in Seq(Frame), \A i, j \in DOMAIN fs : fs[i].header = fs[j].header
  PROVE  {f.header : f \in Range(fs)} = IF fs = <<>> THEN {} ELSE {fs[Len(fs)].header}
<1>1. DOMAIN fs = 1 .. Len(fs) /\ Len(fs) \in Nat /\ (fs = <<>> <=> Len(fs) = 0)
  OBVIOUS
<1>2. CASE fs = <<>>
  <2>1. Range(fs) = {}  BY <1>1, <1>2 DEF Range
  <2> QED BY <1>2, <2>1
<1>3. CASE fs # <<>>
  <2>1. Len(fs) \in DOMAIN fs  BY <1>1, <1>3
  <2>2. \A f \in Range(fs) : f.header = fs[Len(fs)].header  BY <2>1 DEF Range
  <2>3. fs[Len(fs)] \in Range(fs)  BY <2>1 DEF Range
  <2> QED BY <1>3, <2>2, <2>3
<1> QED BY <1>2, <1>3

LEMMA TopFacts ==
  ASSUME Typed, frames # <<>>
  PROVE  Top \in Frame /\ Len(frames) \in DOMAIN frames /\ Len(frames) \in Nat /\ Len(frames) > 0
BY DEF Typed, Top

LEMMA PiecesAre ==
  ASSUME Typed, Suspended
  PROVE  /\ frames = <<>> => Pieces = live \cup Holes
         /\ frames # <<>> => Pieces = live \cup Holes \cup {Top.header}
BY HeadersAre DEF Typed, Suspended, Pieces, Top

\* A piece lies in the memory of the heap.
LEMMA InHeap ==
  ASSUME Sound, NEW s \in Pieces
  PROVE  /\ s \in Nat /\ s \in Cells /\ mem[s] \in Cell /\ mem[s].val \in Nat /\ mem[s].val >= 2 * Rec
         /\ Start <= s /\ s < end_address
         /\ After(mem, s) \in Nat /\ After(mem, s) <= end_address /\ s + 2 * Rec <= After(mem, s)
         /\ \A c \in s .. After(mem, s) : c \in Cells /\ mem[c] \in Cell
         /\ \A t \in Pieces : s # t => After(mem, s) <= t \/ After(mem, t) <= s
<1>1. Start \in Nat /\ Start >= 3 * Rec /\ MaxEnd \in Nat /\ end_address \in Nat /\ end_address <= MaxEnd
  BY PageFacts DEF Sound, Typed
<1>2. \A t \in Pieces : t \in Cells /\ mem[t] \in Cell
  <2>1. \A t \in Pieces : t \in Start .. end_address - 1  BY DEF Sound, Tiles
  <2> QED BY <1>1, <2>1 DEF Cells, Sound, Typed
<1>3. \A t \in Pieces : mem[t].val \in Int
  BY <1>2 DEF Cell
<1>4. /\ s \in Nat /\ Start <= s /\ s < end_address /\ mem[s].val \in Nat /\ mem[s].val >= 2 * Rec
      /\ After(mem, s) \in Nat /\ After(mem, s) <= end_address /\ s + 2 * Rec <= After(mem, s)
      /\ \A t \in Pieces : s # t => After(mem, s) <= t \/ After(mem, t) <= s
  BY <1>1, <1>3, PieceFacts DEF Sound
<1>5. ASSUME NEW c \in s .. After(mem, s) PROVE c \in Cells /\ mem[c] \in Cell
  <2>1. c \in Cells  BY <1>1, <1>4 DEF Cells
  <2> QED BY <2>1 DEF Sound, Typed
<1> QED BY <1>2, <1>4, <1>5

LEMMA NextIs ==
  ASSUME Sound, NEW s \in Pieces, After(mem, s) # end_address
  PROVE  After(mem, s) \in Pieces
<1>1. end_address \in Nat /\ \A t \in Pieces : mem[t].val \in Int
  BY InHeap DEF Sound, Typed
<1> QED BY <1>1, NextPiece DEF Sound

LEMMA PreviousIs ==
  ASSUME Sound, NEW s \in Pieces, s # Start
  PROVE  \E p \in Pieces : After(mem, p) = s /\ p < s
<1>1. end_address \in Nat /\ \A t \in Pieces : mem[t].val \in Int
  BY InHeap DEF Sound, Typed
<1> QED BY <1>1, PreviousPiece DEF Sound

\* Only one piece ends the heap, or ends where another starts.
LEMMA OneBefore ==
  ASSUME Sound, NEW s \in Pieces, NEW t \in Pieces, After(mem, s) = After(mem, t)
  PROVE  s = t
<1>1. SUFFICES ASSUME s # t PROVE FALSE
  OBVIOUS
<1>2. After(mem, s) <= t \/ After(mem, t) <= s
  BY <1>1, InHeap
<1> QED BY <1>2, InHeap

LEMMA AtRest ==
  ASSUME Sound, request = None, entry = 0
  PROVE  frames # <<>> => Resting
BY DEF Sound, Suspended, Grown, Inside, Behind

LEMMA NoneAdjacent ==
  ASSUME Sound, request = None, NEW s \in Vacant, NEW t \in Vacant
  PROVE  After(mem, s) # t
BY DEF Sound, Apart, Grown

-----------------------------------------------------------------------------
\* The start, and steps that move nothing

LEMMA InitSound ==
  ASSUME Init
  PROVE  Sound
<1>1. Page \in Nat /\ Page >= 3 * Rec /\ Start = Page /\ MaxEnd \in Nat /\ MinSize \in Nat
      /\ InitialSize \in Nat /\ InitialSize > 0 /\ MinSize <= InitialSize
      /\ Start + InitialSize <= MaxEnd
  BY HeapAssumption, PageFacts
<1>2. Multiple(InitialSize) /\ InitialSize >= 3 * Rec
  <2>1. PICK q, r : q = InitialSize \div Page /\ r = InitialSize % Page
    OBVIOUS
  <2>2. q \in Nat /\ r = 0 /\ InitialSize = Page * q + r
    BY <1>1, <2>1, HeapAssumption
  <2>3. InitialSize = q * Page
    BY <1>1, <2>2
  <2>4. q # 0
    BY <1>1, <2>3
  <2>5. q * Page >= Page
    BY <1>1, <2>2, <2>4
  <2> QED BY <1>1, <2>2, <2>3, <2>5 DEF Multiple
<1>3. Start \in Cells /\ Start - Rec \in Cells /\ end_address - Rec \in Cells
      /\ end_address \in Nat /\ end_address - Start = InitialSize /\ end_address = Start + InitialSize
  BY <1>1 DEF Init, Cells
<1>4. /\ mem \in [Cells -> Cell] /\ mem[Start].val = InitialSize /\ mem[Start].magic /\ mem[Start].is_hole
      /\ ~mem[Start - Rec].magic /\ ~mem[end_address - Rec].magic
  <2>1. \A a \in Cells : mem[a] = IF a = Start THEN [magic |-> TRUE, is_hole |-> TRUE, val |-> InitialSize]
                                  ELSE Junk
    BY DEF Init, WriteHeader, WriteAt
  <2>2. mem \in [Cells -> Cell]
    <3>1. Junk \in Cell /\ [magic |-> TRUE, is_hole |-> TRUE, val |-> InitialSize] \in Cell
      BY <1>1 DEF Junk, Cell
    <3>2. mem = [a \in Cells |-> mem[a]]
      BY DEF Init, WriteHeader, WriteAt
    <3> QED BY <2>1, <3>1, <3>2
  <2> QED BY <1>1, <1>2, <1>3, <2>1, <2>2 DEF Junk
<1>5. index \in Seq(Nat) /\ Holes = {Start} /\ Once(index) /\ live = {} /\ frames = <<>>
  BY <1>1 DEF Init, Holes, Range, Once
<1>6. Pieces = {Start}
  BY <1>5 DEF Pieces, Range
<1>7. Typed
  <2>1. Multiple(end_address - Start)
    BY <1>2, <1>3, Zenon
  <2>2. frames \in Seq(Frame)
    BY <1>5, EmptySeq
  <2>3. end_address <= MaxEnd /\ Start + MinSize <= end_address
    BY <1>1, <1>3
  <2> QED BY <1>3, <1>4, <1>5, <2>1, <2>2, <2>3 DEF Init, Typed
<1>8. Tiles({Start}, mem, end_address)
  <2>1. After(mem, Start) = end_address
    BY <1>3, <1>4 DEF After
  <2> QED BY <1>1, <1>2, <1>3, <1>4, <2>1 DEF Tiles
<1>9. Marked
  <2>1. Fresh(mem, Start, end_address)
    BY <1>3, <1>4 DEF Fresh, After
  <2> QED BY <1>4, <1>5, <1>6, <2>1 DEF Marked, Vacant
<1>10. Suspended /\ Called /\ Listed
  BY <1>5 DEF Suspended, Called, Listed, Init
<1>11. Apart
  BY <1>3, <1>4, <1>1, <1>6 DEF Apart, Vacant, After
<1> QED BY <1>6, <1>7, <1>8, <1>9, <1>10, <1>11 DEF Sound

\* Requests change nothing in the heap.
LEMMA RequestSound ==
  ASSUME Sound, entry' = entry,
         UNCHANGED <<mem, index, end_address, slack, frames, live>>, monitor' \in BOOLEAN,
         \/ request' = request
         \/ /\ request = None /\ entry = 0
            /\ request' \in [size : Nat \ {0}, align : BOOLEAN, owner : {"caller", "lock"}]
            /\ frames # <<>> => ~request'.align
            /\ request'.owner = "lock" <=> frames # <<>>
  PROVE  Sound'
<1>1. Pieces' = Pieces /\ Vacant' = Vacant /\ Holes' = Holes
  BY DEF Pieces, Vacant, Holes
<1>2. Typed'
  BY DEF Sound, Typed
<1>3. Listed' /\ Marked' /\ Tiles(Pieces, mem, end_address)'
  BY <1>1 DEF Sound, Listed, Marked
<1>4. Adding' = Adding /\ Top' = Top /\ \A s : Ends(s)' = Ends(s)
  BY <1>1 DEF Adding, Top, Ends
<1>5. CASE request' = request
  <2>1. Resting' = Resting /\ Grown' = Grown /\ Inside' = Inside /\ Behind' = Behind
    BY <1>1, <1>4, <1>5 DEF Resting, Grown, Inside, Behind
  <2>2. Suspended' /\ Called' /\ Apart'
    BY <1>1, <1>4, <1>5, <2>1 DEF Sound, Suspended, Called, Apart
  <2> QED BY <1>2, <1>3, <2>2 DEF Sound
<1>6. CASE request' # request
  <2>0. /\ request = None /\ entry = 0 /\ (frames # <<>> => ~request'.align)
        /\ request'.owner = "lock" <=> frames # <<>>
    BY <1>6
  <2>1. frames # <<>> => Resting'
    BY <2>0, <1>1, <1>4, AtRest DEF Resting
  <2>2. Suspended' /\ Called'
    BY <2>0, <2>1 DEF Sound, Suspended, Called
  <2>3. Apart'
    BY <1>1, <2>0, NoneAdjacent DEF Apart
  <2> QED BY <1>2, <1>3, <2>2, <2>3 DEF Sound
<1> QED BY <1>5, <1>6

-----------------------------------------------------------------------------
\* Writing headers and footers

\* What is read at c does not overlap a record at a.
Beside(c, a) == c <= a - Rec \/ a + Rec <= c

\* A record is at its address, and what does not overlap it stays.
LEMMA Written ==
  ASSUME NEW m \in [Cells -> Cell], NEW a \in Cells, NEW record \in Cell
  PROVE  LET r == WriteAt(m, a, record)
         IN  /\ r \in [Cells -> Cell] /\ r[a] = record
             /\ \A c \in Cells : Beside(c, a) => r[c] = m[c]
<1> DEFINE r == WriteAt(m, a, record)
<1>1. \A c \in Cells : r[c] = IF c = a THEN record
                             ELSE IF c \in a - Rec + 1 .. a + Rec - 1 THEN Junk ELSE m[c]
  BY DEF WriteAt
<1>2. r = [c \in Cells |-> r[c]]
  BY DEF WriteAt
<1>3. Junk \in Cell
  BY DEF Junk, Cell
<1> HIDE DEF r
<1>4. r \in [Cells -> Cell]
  BY <1>1, <1>2, <1>3
<1>5. ASSUME NEW c \in Cells, Beside(c, a) PROVE r[c] = m[c]
  <2>1. a \in Int /\ c \in Int
    BY PageFacts DEF Cells
  <2>2. c # a /\ c \notin a - Rec + 1 .. a + Rec - 1
    BY <1>5, <2>1 DEF Beside
  <2> QED BY <1>1, <2>2
<1> QED BY <1>1, <1>4, <1>5 DEF r

LEMMA HoleWritten ==
  ASSUME NEW m \in [Cells -> Cell], NEW a \in Cells, NEW size \in Int
  PROVE  LET r == WriteHeader(m, a, TRUE, size)
         IN  /\ r \in [Cells -> Cell]
             /\ r[a].magic /\ r[a].is_hole /\ r[a].val = size
             /\ \A c \in Cells : Beside(c, a) => r[c] = m[c]
<1> DEFINE record == [magic |-> TRUE, is_hole |-> TRUE, val |-> size]
           r == WriteAt(m, a, record)
<1>1. record \in Cell /\ record.magic /\ record.is_hole /\ record.val = size
  BY DEF Cell
<1>2. WriteHeader(m, a, TRUE, size) = r
  BY DEF WriteHeader
<1> HIDE DEF record
<1>3. /\ r \in [Cells -> Cell] /\ r[a] = record
      /\ \A c \in Cells : Beside(c, a) => r[c] = m[c]
  BY <1>1, Written
<1> HIDE DEF r
<1> QED BY <1>1, <1>2, <1>3, Zenon

LEMMA FooterWritten ==
  ASSUME NEW m \in [Cells -> Cell], NEW a \in Cells, NEW header \in Int
  PROVE  LET r == WriteFooter(m, a, header)
         IN  /\ r \in [Cells -> Cell]
             /\ r[a].magic /\ r[a].is_hole = m[a].is_hole /\ r[a].val = header
             /\ \A c \in Cells : Beside(c, a) => r[c] = m[c]
<1> DEFINE record == [m[a] EXCEPT !.magic = TRUE, !.val = header]
<1>1. m[a] \in Cell
  OBVIOUS
<1>2. /\ record \in Cell /\ record.magic /\ record.val = header /\ record.is_hole = m[a].is_hole
  BY <1>1 DEF Cell
<1>3. WriteFooter(m, a, header) = WriteAt(m, a, record)
  BY DEF WriteFooter
<1> HIDE DEF record
<1> QED BY <1>2, <1>3, Written

LEMMA SizeWritten ==
  ASSUME NEW m \in [Cells -> Cell], NEW a \in Cells, NEW size \in Int
  PROVE  LET r == [m EXCEPT ![a].val = size]
         IN  /\ r \in [Cells -> Cell]
             /\ r[a].magic = m[a].magic /\ r[a].is_hole = m[a].is_hole /\ r[a].val = size
             /\ \A c \in Cells : c # a => r[c] = m[c]
BY DEF Cell

\* A hole from a to z, and a block, with header and footer.
WriteHole(m, a, n, z) == WriteFooter(WriteHeader(m, a, TRUE, n), z, a)

LEMMA HoleMade ==
  ASSUME NEW m \in [Cells -> Cell], NEW a \in Cells, NEW n \in Nat, n >= 2 * Rec, NEW z \in Cells,
         a \in Nat, z = a + n - Rec
  PROVE  LET r == WriteHole(m, a, n, z)
         IN  /\ r \in [Cells -> Cell]
             /\ r[a].magic /\ r[a].is_hole /\ r[a].val = n
             /\ r[z].magic /\ r[z].val = a
             /\ \A c \in Cells : Beside(c, a) /\ Beside(c, z) => r[c] = m[c]
<1> DEFINE m1 == WriteHeader(m, a, TRUE, n)
<1>1. /\ m1 \in [Cells -> Cell] /\ m1[a].magic /\ m1[a].is_hole /\ m1[a].val = n
      /\ \A c \in Cells : Beside(c, a) => m1[c] = m[c]
  <2>1. PICK record : record = [magic |-> TRUE, is_hole |-> TRUE, val |-> n]
    OBVIOUS
  <2>2. record \in Cell /\ record.magic /\ record.is_hole /\ record.val = n
    BY <2>1 DEF Cell
  <2>3. m1 = WriteAt(m, a, record)
    BY <2>1 DEF WriteHeader
  <2> HIDE DEF m1
  <2>4. /\ m1 \in [Cells -> Cell] /\ m1[a] = record
        /\ \A c \in Cells : Beside(c, a) => m1[c] = m[c]
    BY <2>2, <2>3, Written
  <2> QED BY <2>2, <2>4
<1> HIDE DEF m1
<1>2. a \in Int /\ Beside(a, z)
  BY DEF Beside
<1> DEFINE r == WriteFooter(m1, z, a)
<1>3. /\ r \in [Cells -> Cell] /\ r[z].magic /\ r[z].val = a
      /\ \A c \in Cells : Beside(c, z) => r[c] = m1[c]
  BY <1>1, <1>2, FooterWritten
<1> HIDE DEF r
<1>4. /\ r \in [Cells -> Cell]
      /\ r[a].magic /\ r[a].is_hole /\ r[a].val = n
      /\ r[z].magic /\ r[z].val = a
      /\ \A c \in Cells : Beside(c, a) /\ Beside(c, z) => r[c] = m[c]
  BY <1>1, <1>2, <1>3
<1>5. WriteHole(m, a, n, z) = r
  BY DEF WriteHole, r, m1
<1> QED BY <1>4, <1>5

LEMMA BlockMade ==
  ASSUME NEW m \in [Cells -> Cell], NEW a \in Cells, NEW n \in Nat, n >= 2 * Rec, NEW z \in Cells,
         a \in Nat, z = a + n - Rec
  PROVE  LET r == WriteBlock(m, a, n)
         IN  /\ r \in [Cells -> Cell]
             /\ r[a].magic /\ ~r[a].is_hole /\ r[a].val = n
             /\ r[z].magic /\ r[z].val = a
             /\ \A c \in Cells : Beside(c, a) /\ Beside(c, z) => r[c] = m[c]
<1> DEFINE m1 == WriteHeader(m, a, FALSE, n)
<1>1. /\ m1 \in [Cells -> Cell] /\ m1[a].magic /\ ~m1[a].is_hole /\ m1[a].val = n
      /\ \A c \in Cells : Beside(c, a) => m1[c] = m[c]
  <2>1. PICK record : record = [magic |-> TRUE, is_hole |-> FALSE, val |-> n]
    OBVIOUS
  <2>2. record \in Cell /\ record.magic /\ ~record.is_hole /\ record.val = n
    BY <2>1 DEF Cell
  <2>3. m1 = WriteAt(m, a, record)
    BY <2>1 DEF WriteHeader
  <2> HIDE DEF m1
  <2>4. /\ m1 \in [Cells -> Cell] /\ m1[a] = record
        /\ \A c \in Cells : Beside(c, a) => m1[c] = m[c]
    BY <2>2, <2>3, Written
  <2> QED BY <2>2, <2>4
<1> HIDE DEF m1
<1>2. a \in Int /\ Beside(a, z)
  BY DEF Beside
<1> DEFINE r == WriteFooter(m1, z, a)
<1>3. /\ r \in [Cells -> Cell] /\ r[z].magic /\ r[z].val = a
      /\ \A c \in Cells : Beside(c, z) => r[c] = m1[c]
  BY <1>1, <1>2, FooterWritten
<1> HIDE DEF r
<1>4. /\ r \in [Cells -> Cell]
      /\ r[a].magic /\ ~r[a].is_hole /\ r[a].val = n
      /\ r[z].magic /\ r[z].val = a
      /\ \A c \in Cells : Beside(c, a) /\ Beside(c, z) => r[c] = m[c]
  BY <1>1, <1>2, <1>3
<1>5. WriteBlock(m, a, n) = r
  BY DEF WriteBlock, r, m1
<1> QED BY <1>4, <1>5

-----------------------------------------------------------------------------
\* contract() and the rest of free()

LEMMA PopFacts ==
  ASSUME Typed, frames # <<>>
  PROVE  /\ Pop \in Seq(Frame) /\ DOMAIN Pop = 1 .. Len(frames) - 1 /\ Len(Pop) = Len(frames) - 1
         /\ DOMAIN frames = 1 .. Len(frames) /\ Len(frames) \in Nat /\ Len(frames) > 0
         /\ \A i \in DOMAIN Pop : Pop[i] = frames[i] /\ i \in DOMAIN frames /\ i # Len(frames)
<1>1. DOMAIN frames = 1 .. Len(frames) /\ Len(frames) \in Nat /\ Len(frames) > 0 /\ frames \in Seq(Frame)
  BY DEF Typed
<1>2. \A i \in 1 .. Len(frames) - 1 : frames[i] \in Frame
  BY <1>1
<1>3. Pop \in Seq(Frame) /\ Len(Pop) = Len(frames) - 1
      /\ \A i \in 1 .. Len(frames) - 1 : Pop[i] = frames[i]
  <2>1. /\ Pop \in Seq(Frame) /\ Len(Pop) = (IF 1 <= Len(frames) - 1 THEN Len(frames) - 1 - 1 + 1 ELSE 0)
        /\ \A i \in 1 .. Len(frames) - 1 - 1 + 1 : Pop[i] = frames[1 + i - 1]
    BY <1>1, <1>2, SubSeqProperties DEF Pop
  <2>2. PICK n \in Nat : n = Len(frames)
    BY <1>1
  <2>3. n > 0 /\ n - 1 - 1 + 1 = n - 1 /\ (IF 1 <= n - 1 THEN n - 1 - 1 + 1 ELSE 0) = n - 1
    BY <1>1, <2>2
  <2>4. ASSUME NEW i \in 1 .. n - 1 PROVE Pop[i] = frames[i]
    <3>1. 1 + i - 1 = i  OBVIOUS
    <3>2. Pop[i] = frames[1 + i - 1]  BY <2>1, <2>2, <2>3
    <3> QED BY <3>1, <3>2
  <2> QED BY <2>1, <2>2, <2>3, <2>4
<1>4. DOMAIN Pop = 1 .. Len(frames) - 1
  BY <1>3
<1> QED BY <1>1, <1>3, <1>4

LEMMA ContractedLengthFacts ==
  ASSUME NEW h \in Nat, NEW e \in Nat, Start <= h, h < e, Multiple(e - Start), Start + MinSize <= e
  PROVE  /\ ContractedLength(h) \in Nat /\ Multiple(ContractedLength(h))
         /\ MinSize <= ContractedLength(h) /\ h - Start <= ContractedLength(h)
         /\ Start + ContractedLength(h) <= e
<1>1. Start \in Nat /\ MinSize \in Nat /\ Page \in Nat /\ Page >= 3 * Rec /\ MinSize % Page = 0
  BY HeapAssumption, PageFacts
<1>2. Multiple(MinSize)
  <2>1. PICK q, r : q = MinSize \div Page /\ r = MinSize % Page
    OBVIOUS
  <2>2. q \in Nat /\ r = 0 /\ MinSize = Page * q + r
    BY <1>1, <2>1
  <2>3. MinSize = q * Page
    BY <1>1, <2>2
  <2> QED BY <2>2, <2>3 DEF Multiple
<1>3. h - Start \in Nat /\ e - Start \in Nat /\ h - Start <= e - Start /\ MinSize <= e - Start
  BY <1>1
<1>4. PICK l : l = RoundUp(h - Start)
  OBVIOUS
<1>5. l \in Nat /\ h - Start <= l /\ Multiple(l) /\ l <= e - Start
  BY <1>3, <1>4, RoundUpFacts, RoundUpLeast
<1>6. ContractedLength(h) = IF l < MinSize THEN MinSize ELSE l
  BY <1>4 DEF ContractedLength
<1>7. CASE l < MinSize  BY <1>1, <1>2, <1>3, <1>5, <1>6, <1>7
<1>8. CASE ~(l < MinSize)  BY <1>1, <1>3, <1>5, <1>6, <1>8
<1> QED BY <1>7, <1>8

LEMMA ContractSound ==
  ASSUME Sound, defect = "none", Contract, defect' = "none"
  PROVE  Sound'
<1>0. frames # <<>> /\ request = None /\ entry = 0 /\ Top.marks = 0 /\ Resting /\ Typed
      /\ UNCHANGED <<monitor, request, entry, live>> /\ frames' = Pop
  BY AtRest DEF Contract, Sound
<1>1. PICK h, e, new, size : /\ h = Top.header /\ e = end_address /\ new = ContractedLength(Top.header)
                             /\ size = mem[Top.header].val - (Top.old_length - new)
  OBVIOUS
<1>2. h \in Pieces /\ h \in Vacant /\ Pieces = live \cup Holes \cup {h} /\ After(mem, h) = e
      /\ h \notin live /\ (h \in Holes <=> ~Adding)
  BY <1>0, <1>1, PiecesAre DEF Sound, Resting, Vacant
<1>3. h \in Nat /\ h \in Cells /\ Start <= h /\ h < e /\ e \in Nat /\ mem[h].val \in Nat
      /\ e = h + mem[h].val /\ mem \in [Cells -> Cell] /\ e <= MaxEnd
      /\ Start \in Nat /\ Start >= 3 * Rec /\ MaxEnd \in Nat
  BY <1>0, <1>1, <1>2, InHeap, PageFacts DEF After, Typed
<1>4. new \in Nat /\ Multiple(new) /\ MinSize <= new /\ h - Start <= new /\ Start + new <= e
  BY <1>0, <1>1, <1>3, ContractedLengthFacts DEF Typed
<1>5. Top.old_length = e - Start /\ size # 0 /\ ~(size < 2 * Rec)
  BY <1>1 DEF Contract
<1>6. size = Start + new - h /\ size \in Nat /\ size >= 2 * Rec
  BY <1>1, <1>3, <1>4, <1>5
<1>7. end_address' = Start + new /\ mem' = Shrink(mem, h, size)
      /\ index' = (IF Top.do_add THEN Insert(index, h, mem') ELSE index)
      /\ slack' = (slack \/ Start + new < end_address)
  BY <1>1, <1>5, <1>6 DEF Contract
<1>8. /\ mem' \in [Cells -> Cell]
      /\ mem'[h].val = size /\ mem'[h].magic = mem[h].magic /\ mem'[h].is_hole = mem[h].is_hole
      /\ mem'[h + size - Rec].magic /\ mem'[h + size - Rec].val = h
      /\ \A c \in Cells : c # h /\ Beside(c, h + size - Rec) => mem'[c] = mem[c]
  <2> DEFINE m1 == [mem EXCEPT ![h].val = size]
             m2 == WriteFooter(m1, h + size - Rec, h)
  <2>1. /\ m1 \in [Cells -> Cell]
        /\ m1[h].magic = mem[h].magic /\ m1[h].is_hole = mem[h].is_hole /\ m1[h].val = size
        /\ \A c \in Cells : c # h => m1[c] = mem[c]
    BY <1>3, <1>6, SizeWritten
  <2>2. h + size - Rec \in Cells /\ Beside(h, h + size - Rec) /\ h \in Int
    BY <1>3, <1>4, <1>6 DEF Cells, Beside
  <2> HIDE DEF m1
  <2>3. /\ m2 \in [Cells -> Cell]
        /\ m2[h + size - Rec].magic /\ m2[h + size - Rec].val = h
        /\ \A c \in Cells : Beside(c, h + size - Rec) => m2[c] = m1[c]
    BY <2>1, <2>2, FooterWritten
  <2>4. mem' = m2
    BY <1>7 DEF Shrink, m1
  <2> HIDE DEF m2
  <2> QED BY <1>3, <2>1, <2>2, <2>3, <2>4
<1>9. Holes' = (IF Top.do_add THEN Holes \cup {h} ELSE Holes) /\ index' \in Seq(Nat) /\ Once(index')
  <2>1. CASE Top.do_add
    <3>1. Adding /\ h \notin Holes
      BY <1>0, <1>2, <2>1, TopFacts DEF Adding, Top
    <3>2. index \in Seq(Nat) /\ Once(index)
      BY <1>0 DEF Typed, Sound, Listed
    <3>3. \A i \in DOMAIN index : mem'[index[i]].val \in Int
      <4>1. \A i \in DOMAIN index : index[i] \in Pieces  BY <1>2 DEF Holes, Range
      <4>2. \A i \in DOMAIN index : index[i] \in Cells  BY <4>1, InHeap
      <4> QED BY <1>8, <4>2 DEF Cell
    <3>4. mem'[h].val \in Int  BY <1>6, <1>8
    <3> QED BY <1>3, <1>7, <2>1, <3>1, <3>2, <3>3, <3>4, InsertItem DEF Holes
  <2>2. CASE ~Top.do_add
    BY <1>0, <1>7, <2>2 DEF Holes, Typed, Sound, Listed
  <2> QED BY <2>1, <2>2
<1>10. /\ \A i, j \in DOMAIN frames' : frames'[i].header = frames'[j].header
       /\ \A i, j \in DOMAIN frames' : frames'[i].do_add /\ frames'[j].do_add => i = j
       /\ \A i \in DOMAIN frames' : frames'[i].header = h
       /\ frames' \in Seq(Frame)
  <2>1. \A i \in DOMAIN frames : frames[i].header = h
    BY <1>0, <1>1, TopFacts DEF Sound, Suspended, Top
  <2> QED BY <1>0, <2>1, PopFacts DEF Sound, Suspended
<1>11. /\ Top.do_add => ~Adding'
       /\ ~Top.do_add => (Adding' <=> Adding)
       /\ Top.do_add => Adding
       /\ frames' = <<>> => ~Adding'
  <2>1. Adding' <=> \E i \in DOMAIN Pop : Pop[i].do_add
    BY <1>0 DEF Adding
  <2>2. Adding' <=> \E i \in DOMAIN frames : i # Len(frames) /\ frames[i].do_add
    BY <1>0, <2>1, PopFacts
  <2>3. ASSUME Top.do_add PROVE ~Adding' /\ Adding
    BY <1>0, <2>2, <2>3, TopFacts DEF Sound, Suspended, Adding, Top
  <2>4. ASSUME ~Top.do_add PROVE Adding' <=> Adding
    BY <1>0, <2>2, <2>4, TopFacts DEF Adding, Top
  <2>5. frames' = <<>> => ~Adding'
    BY DEF Adding
  <2> QED BY <2>3, <2>4, <2>5
<1>12. h \in Holes' <=> ~Adding'
  BY <1>2, <1>9, <1>11
<1>13. Pieces' = Pieces /\ Vacant' = Vacant
  <2>1. Pieces' = live \cup Holes' \cup {f.header : f \in Range(frames')}
    BY <1>0 DEF Pieces
  <2>2. {f.header : f \in Range(frames')} \subseteq {h} /\ (frames' # <<>> => h \in {f.header : f \in Range(frames')})
    BY <1>10, HeadersAre DEF Range
  <2>3. Pieces' = Pieces
    BY <1>2, <1>9, <1>11, <1>12, <2>1, <2>2
  <2> QED BY <1>0, <2>3 DEF Vacant
<1>14. ASSUME NEW s \in Pieces, s # h
       PROVE  After(mem, s) <= h /\ s \in Nat /\ mem[s].val \in Nat /\ mem[s].val >= 2 * Rec /\ After(mem, s) \in Nat
              /\ s < After(mem, s) /\ Start <= s
              /\ \A c \in s .. After(mem, s) - Rec : mem'[c] = mem[c]
  <2>1. After(mem, s) <= h /\ s \in Nat /\ s \in Cells /\ mem[s].val \in Nat /\ mem[s].val >= 2 * Rec /\ After(mem, s) \in Nat
        /\ s + 2 * Rec <= After(mem, s) /\ Start <= s /\ \A c \in s .. After(mem, s) : c \in Cells
    <3>1. After(mem, s) <= h \/ After(mem, h) <= s  BY <1>2, <1>14, InHeap
    <3>2. s < e  BY <1>1, InHeap
    <3> QED BY <1>2, <1>3, <3>1, <3>2, InHeap
  <2>2. ASSUME NEW c \in s .. After(mem, s) - Rec PROVE mem'[c] = mem[c]
    <3>1. c \in Cells /\ c # h /\ Beside(c, h + size - Rec)  BY <1>3, <1>6, <2>1 DEF Beside
    <3> QED BY <1>8, <3>1
  <2> QED BY <2>1, <2>2
<1>15. Typed'
  <2>1. Multiple(end_address' - Start)
    <3>1. end_address' - Start = new  BY <1>3, <1>4, <1>7
    <3> QED BY <1>4, <3>1, Zenon
  <2>2. end_address' \in Nat /\ end_address' <= MaxEnd /\ Start + MinSize <= end_address'
    BY <1>3, <1>4, <1>7, HeapAssumption
  <2>3. slack' \in BOOLEAN /\ monitor' \in BOOLEAN /\ entry' \in Nat /\ live' \subseteq Nat /\ request' = None
    BY <1>0, <1>7 DEF Typed
  <2> QED BY <1>8, <1>9, <1>10, <2>1, <2>2, <2>3 DEF Typed
<1>16. Tiles(Pieces, mem, end_address)'
  <2>1. /\ \A s \in Pieces \ {h} : After(mem, s) <= h
        /\ \A s \in Pieces \ {h} : mem'[s].val = mem[s].val
    <3>1. ASSUME NEW s \in Pieces, s # h PROVE mem'[s].val = mem[s].val
      <4>1. s \in s .. After(mem, s) - Rec  BY <1>14, <3>1, InHeap
      <4> QED BY <1>14, <3>1, <4>1
    <3> QED BY <1>14, <3>1
  <2>2. \A s \in Pieces : mem[s].val \in Int  BY InHeap
  <2>5. Tiles((Pieces \ {h}) \cup {h}, mem', Start + new)
    <3>1. Start + new \in Nat /\ h + 2 * Rec <= Start + new /\ h <= e /\ e <= e /\ mem'[h].val = (Start + new) - h
      BY <1>3, <1>4, <1>6, <1>8
    <3>2. Tiles(Pieces, mem, e)  BY <1>1 DEF Sound
    <3>3. \A s \in {h} : h <= s /\ After(mem, s) <= e
      BY <1>2, <1>3
    <3>4. \A s \in Pieces \ {h} : After(mem, s) <= h \/ e <= s  BY <2>1
    <3>5. {h} \subseteq Pieces /\ Start <= h /\ h \in Nat /\ e \in Nat  BY <1>2, <1>3
    <3> QED BY <2>1, <2>2, <3>1, <3>2, <3>3, <3>4, <3>5, OnePiece
  <2>6. (Pieces \ {h}) \cup {h} = Pieces  BY <1>2
  <2> QED BY <1>7, <1>13, <2>5, <2>6
<1>17. Marked'
  <2>1. ~mem'[Start - Rec].magic
    <3>1. Start - Rec \in Cells /\ Start - Rec # h /\ Beside(Start - Rec, h + size - Rec)  BY <1>3, <1>6 DEF Cells, Beside
    <3> QED BY <1>8, <3>1 DEF Sound, Marked
  <2>2. ASSUME NEW s \in live PROVE Solid(mem', s)
    <3>1. s \in Pieces /\ s # h /\ Solid(mem, s)  BY <1>2 DEF Sound, Marked
    <3> QED BY <1>14, <3>1, SolidKept
  <2>3. ASSUME NEW s \in Vacant, s # h PROVE Hollow(mem', s)
    <3>1. s \in Pieces  BY DEF Vacant
    <3>2. After(mem, s) # e  BY <1>14, <1>3, <2>3, <3>1
    <3>3. Hollow(mem, s)  BY <1>1, <3>2 DEF Sound, Marked, Fresh
    <3> QED BY <1>14, <2>3, <3>1, <3>3, HollowKept
  <2>4. Hollow(mem', h)
    <3>1. mem[h].magic /\ mem[h].is_hole  BY <1>2 DEF Sound, Marked, Fresh, Hollow
    <3>2. After(mem', h) - Rec = h + size - Rec  BY <1>3, <1>6, <1>8 DEF After
    <3>3. h \in h .. h + size - Rec  BY <1>3, <1>6
    <3> QED BY <1>8, <3>1, <3>2, <3>3 DEF Hollow
  <2> QED BY <1>0, <1>13, <2>1, <2>2, <2>3, <2>4 DEF Marked
<1>18. Listed' /\ Called'
  <2>1. h \notin live /\ Holes \cap live = {}  BY <1>2 DEF Sound, Listed
  <2> QED BY <1>0, <1>9, <2>1 DEF Listed, Called
<1>19. Suspended'
  <2>1. ASSUME frames' # <<>> PROVE Resting'
    <3>1. Top'.header = h
      BY <1>10, <2>1 DEF Top
    <3>2. After(mem', h) = end_address'
      BY <1>3, <1>4, <1>6, <1>7, <1>8 DEF After
    <3> QED BY <1>0, <1>2, <1>12, <3>1, <3>2 DEF Resting
  <2> QED BY <1>10, <2>1 DEF Suspended
<1>20. Apart'
  <2>1. ASSUME NEW s \in Vacant, NEW t \in Vacant, After(mem', s) = t PROVE FALSE
    <3>0. s \in Pieces /\ t \in Pieces  BY DEF Vacant
    <3>1. CASE s # h
      <4>1. s \in s .. After(mem, s) - Rec  BY <1>14, <3>0, <3>1, InHeap
      <4>2. After(mem', s) = After(mem, s)  BY <1>14, <3>0, <3>1, <4>1 DEF After
      <4> QED BY <1>0, <2>1, <4>2, NoneAdjacent
    <3>2. CASE s = h
      <4>1. t = h + size  BY <1>8, <2>1, <3>2 DEF After
      <4> QED BY <1>3, <1>6, <1>14, <3>0, <4>1
    <3> QED BY <3>1, <3>2
  <2> QED BY <1>13, <2>1 DEF Apart
<1> QED BY <1>15, <1>16, <1>17, <1>18, <1>19, <1>20 DEF Sound

-----------------------------------------------------------------------------
\* expand()

LEMMA ExpandFacts ==
  ASSUME Sound, request # None
  PROVE  LET grown == ExpandedLength(request) + Start - end_address
         IN  /\ grown \in Nat /\ grown >= 2 * Rec
             /\ end_address + grown \in Nat /\ Multiple(end_address + grown - Start)
<1>1. end_address \in Nat /\ Start \in Nat /\ Start <= end_address /\ request.size \in Nat
      /\ request.size > 0
  BY PageFacts, HeapAssumption DEF Sound, Typed
<1>2. PICK n : n = end_address - Start + request.size + 2 * Rec
  OBVIOUS
<1>3. n \in Nat
  BY <1>1, <1>2
<1>4. PICK l : l = RoundUp(n)
  OBVIOUS
<1>5. l \in Nat /\ n <= l /\ Multiple(l)
  BY <1>3, <1>4, RoundUpFacts
<1>6. ExpandedLength(request) = l
  BY <1>2, <1>4 DEF ExpandedLength
<1>7. end_address + (l + Start - end_address) - Start = l
  BY <1>1, <1>5
<1>8. Multiple(end_address + (l + Start - end_address) - Start)
  BY <1>5, <1>7, Zenon
<1> QED BY <1>1, <1>2, <1>3, <1>5, <1>6, <1>8

\* There was no hole: a new one behind all pieces.
LEMMA ExpandNew ==
  ASSUME Sound, defect = "none", Expand, defect' = "none", Holes = {}
  PROVE  Sound'
<1>0. request # None /\ entry = 0 /\ Typed /\ UNCHANGED <<slack, monitor, request, entry, frames, live>>
  BY DEF Expand, Sound, Called
<1>1. PICK e, grown : e = end_address /\ grown = ExpandedLength(request) + Start - end_address
  OBVIOUS
<1>2. /\ grown \in Nat /\ grown >= 2 * Rec /\ e + grown \in Nat /\ Multiple(e + grown - Start)
      /\ e \in Nat /\ e <= MaxEnd /\ Start + MinSize <= e /\ mem \in [Cells -> Cell]
      /\ Start \in Nat /\ Start >= 3 * Rec /\ MaxEnd \in Nat /\ MinSize \in Nat
  BY <1>0, <1>1, ExpandFacts, PageFacts, HeapAssumption DEF Typed
<1>3. /\ e + grown <= MaxEnd /\ end_address' = e + grown
      /\ mem' = WriteFooter(WriteHeader(mem, e, TRUE, grown), e + grown - Rec, e)
      /\ index' = <<e>>
  BY <1>1 DEF Expand
<1>4. /\ mem' \in [Cells -> Cell]
      /\ mem'[e].val = grown /\ mem'[e].magic /\ mem'[e].is_hole
      /\ mem'[e + grown - Rec].magic /\ mem'[e + grown - Rec].val = e
      /\ \A c \in Cells : c <= e - Rec => mem'[c] = mem[c]
  <2> DEFINE m1 == WriteHeader(mem, e, TRUE, grown)
             m2 == WriteFooter(m1, e + grown - Rec, e)
  <2>0. e \in Cells /\ e + grown - Rec \in Cells /\ e \in Int /\ Beside(e, e + grown - Rec) /\ e + grown - Rec > e
    BY <1>2, <1>3 DEF Cells, Beside
  <2>1. /\ m1 \in [Cells -> Cell]
        /\ m1[e].magic /\ m1[e].is_hole /\ m1[e].val = grown
        /\ \A c \in Cells : Beside(c, e) => m1[c] = mem[c]
    <3>1. grown \in Int  BY <1>2
    <3> QED BY <1>2, <2>0, <3>1, HoleWritten, ZenonT(60)
  <2> HIDE DEF m1
  <2>2. /\ m2 \in [Cells -> Cell]
        /\ m2[e + grown - Rec].magic /\ m2[e + grown - Rec].val = e
        /\ \A c \in Cells : Beside(c, e + grown - Rec) => m2[c] = m1[c]
    <3>1. PICK a : a = e + grown - Rec  OBVIOUS
    <3>2. a \in Cells  BY <2>0, <3>1
    <3>3. LET r == WriteFooter(m1, a, e)
          IN  /\ r \in [Cells -> Cell]
              /\ r[a].magic /\ r[a].is_hole = m1[a].is_hole /\ r[a].val = e
              /\ \A c \in Cells : Beside(c, a) => r[c] = m1[c]
      BY <2>0, <2>1, <3>2, FooterWritten
    <3> QED BY <3>1, <3>3
  <2>3. mem' = m2
    BY <1>3 DEF m1
  <2> HIDE DEF m2
  <2>4. \A c \in Cells : c <= e - Rec => Beside(c, e) /\ Beside(c, e + grown - Rec)
    BY <1>2 DEF Cells, Beside
  <2> QED BY <2>0, <2>1, <2>2, <2>3, <2>4
<1>5. Holes' = {e} /\ Once(index') /\ index' \in Seq(Nat)
  BY <1>2, <1>3 DEF Holes, Range, Once
<1>6. ASSUME NEW s \in Pieces
      PROVE  /\ s \in Nat /\ s < e /\ Start <= s /\ mem[s].val \in Nat /\ mem[s].val >= 2 * Rec
             /\ After(mem, s) \in Nat /\ After(mem, s) <= e /\ s + 2 * Rec <= After(mem, s)
             /\ \A c \in s .. After(mem, s) - Rec : mem'[c] = mem[c]
             /\ mem'[s].val = mem[s].val /\ After(mem', s) = After(mem, s)
  <2>1. /\ s \in Nat /\ s \in Cells /\ s < e /\ Start <= s /\ mem[s].val \in Nat /\ mem[s].val >= 2 * Rec
        /\ After(mem, s) \in Nat /\ After(mem, s) <= e /\ s + 2 * Rec <= After(mem, s)
        /\ \A c \in s .. After(mem, s) : c \in Cells
    BY <1>1, InHeap
  <2>2. \A c \in s .. After(mem, s) - Rec : c \in Cells /\ c <= e - Rec
    BY <1>2, <2>1
  <2>3. \A c \in s .. After(mem, s) - Rec : mem'[c] = mem[c]
    BY <1>4, <2>2
  <2>4. mem'[s].val = mem[s].val
    BY <1>2, <1>4, <2>1
  <2> QED BY <2>1, <2>3, <2>4 DEF After
<1>7. Pieces' = Pieces \cup {e} /\ Vacant' = Vacant \cup {e} /\ e \notin Pieces /\ e \notin live
  <2>1. e \notin Pieces  BY <1>2, <1>6
  <2>2. Pieces' = Pieces \cup {e}  BY <1>0, <1>5 DEF Pieces
  <2>3. e \notin live  BY <2>1 DEF Pieces
  <2> QED BY <1>0, <2>1, <2>2, <2>3 DEF Vacant
<1>8. After(mem', e) = e + grown
  BY <1>4 DEF After
<1>9. Typed'
  <2>1. end_address' \in Nat /\ end_address' <= MaxEnd /\ Start + MinSize <= end_address'
    BY <1>2, <1>3
  <2>2. Multiple(end_address' - Start)
    <3>0. end_address' = e + grown  BY <1>3
    <3>1. end_address' - Start = e + grown - Start  BY <1>2, <3>0
    <3> QED BY <1>2, <3>1, Zenon
  <2> QED BY <1>0, <1>4, <1>5, <2>1, <2>2 DEF Typed
<1>10. Tiles(Pieces, mem, end_address)'
  <2>1. Tiles(Pieces, mem, e)  BY <1>1 DEF Sound
  <2>2. Tiles((Pieces \ {}) \cup {e}, mem', e + grown)
    <3>1. \A s \in Pieces : mem[s].val \in Int  BY <1>6
    <3>2. \A s \in {} : e <= s /\ After(mem, s) <= e  OBVIOUS
    <3>3. \A s \in Pieces \ {} : After(mem, s) <= e \/ e <= s  BY <1>6
    <3>4. \A s \in Pieces \ {} : mem'[s].val = mem[s].val  BY <1>6
    <3>5. mem'[e].val = (e + grown) - e /\ e + 2 * Rec <= e + grown /\ e <= e /\ Start <= e  BY <1>2, <1>4
    <3> QED BY <1>2, <2>1, <3>1, <3>2, <3>3, <3>4, <3>5, OnePiece
  <2>3. (Pieces \ {}) \cup {e} = Pieces'  BY <1>7
  <2> QED BY <1>3, <2>2, <2>3
<1>11. Marked'
  <2>1. ~mem'[Start - Rec].magic
    <3>1. Start - Rec \in Cells /\ Start - Rec <= e - Rec  BY <1>2 DEF Cells
    <3> QED BY <1>4, <3>1 DEF Sound, Marked
  <2>2. ASSUME NEW s \in live PROVE Solid(mem', s)
    <3>1. s \in Pieces /\ Solid(mem, s)  BY DEF Sound, Marked, Pieces
    <3> QED BY <1>6, <3>1, SolidKept
  <2>3. ASSUME NEW s \in Vacant PROVE Hollow(mem', s)
    <3>1. s \in Pieces /\ Hollow(mem, s)  BY DEF Sound, Marked, Vacant
    <3> QED BY <1>6, <3>1, HollowKept
  <2>4. Hollow(mem', e)
    <3>1. e \in e .. e + grown - Rec  BY <1>2
    <3>2. After(mem', e) - Rec = e + grown - Rec  BY <1>2, <1>8
    <3> QED BY <1>4, <3>1, <3>2 DEF Hollow
  <2> QED BY <1>0, <1>7, <2>1, <2>2, <2>3, <2>4 DEF Marked
<1>12. Listed' /\ Called'
  BY <1>0, <1>5, <1>7 DEF Listed, Called, Sound
<1>13. ASSUME frames # <<>> PROVE Grown' /\ Vacant = {Top.header}
  <2>0. PICK h : h = Top.header
    OBVIOUS
  <2>1. Resting
    BY <1>0, <1>13 DEF Sound, Suspended, Grown, Inside, Behind
  <2>2. h \in Pieces /\ Pieces = live \cup {h} /\ h \notin live
    BY <1>0, <1>13, <2>0, <2>1, PiecesAre DEF Sound, Resting
  <2>3. Adding /\ After(mem, h) = e
    BY <1>1, <2>0, <2>1 DEF Resting
  <2>4. Adding' /\ Top'.header = h
    BY <1>0, <2>0, <2>3 DEF Adding, Top
  <2>5. After(mem', h) = e /\ h \notin {e}
    BY <1>6, <1>7, <2>2, <2>3
  <2>6. Grown'
    BY <1>0, <1>3, <1>5, <1>8, <2>2, <2>4, <2>5 DEF Grown
  <2> QED BY <2>0, <2>2, <2>6 DEF Vacant
<1>14. Suspended'
  BY <1>0, <1>13 DEF Sound, Suspended
<1>15. Apart'
  <2>1. ASSUME NEW s \in Vacant', NEW t \in Vacant', After(mem', s) = t
        PROVE  frames # <<>> /\ s = Top.header
    <3>1. s # e
      <4>1. t \in Vacant \/ t = e  BY <1>7
      <4>2. t < e + grown  BY <1>2, <1>6, <4>1 DEF Vacant
      <4> QED BY <1>2, <1>8, <2>1, <4>2
    <3>2. s \in Vacant /\ s \in Pieces  BY <1>7, <3>1 DEF Vacant
    <3>3. After(mem, s) = t  BY <1>6, <2>1, <3>2
    <3>4. frames # <<>>
      <4>1. CASE frames = <<>>
        <5>1. Pieces = live  BY <1>0, <4>1, PiecesAre DEF Sound
        <5> QED BY <3>2, <5>1 DEF Vacant
      <4> QED BY <4>1
    <3> QED BY <1>13, <3>2, <3>4
  <2>2. frames' = frames /\ Top' = Top  BY <1>0 DEF Top
  <2> QED BY <1>13, <2>1, <2>2 DEF Apart
<1> QED BY <1>9, <1>10, <1>11, <1>12, <1>14, <1>15 DEF Sound

\* The endmost hole grows: it ends the heap, or defect is "gap".
LEMMA ExpandOld ==
  ASSUME Sound, defect = "none", Expand, defect' = "none", Holes # {}
  PROVE  Sound'
<1>0. request # None /\ entry = 0 /\ Typed
      /\ UNCHANGED <<slack, monitor, request, entry, frames, live>> /\ index' = index
  BY DEF Expand, Sound, Called
<1>1. PICK e, grown, h, size :
        /\ e = end_address /\ grown = ExpandedLength(request) + Start - end_address
        /\ h = EndmostHole
        /\ size = mem[h].val + grown
  OBVIOUS
<1>2. /\ grown \in Nat /\ grown >= 2 * Rec /\ e + grown \in Nat /\ Multiple(e + grown - Start)
      /\ e \in Nat /\ e <= MaxEnd /\ Start + MinSize <= e /\ mem \in [Cells -> Cell]
      /\ Start \in Nat /\ Start >= 3 * Rec /\ MaxEnd \in Nat /\ MinSize \in Nat
  BY <1>0, <1>1, ExpandFacts, PageFacts, HeapAssumption DEF Typed
<1>3. h \in Holes /\ h \in Pieces /\ h \in Vacant /\ h \notin live
  <2>1. Holes \in SUBSET (0 .. e)
    <3>1. \A s \in Holes : s \in Pieces  BY DEF Pieces
    <3>2. \A s \in Holes : s \in Nat /\ s < e  BY <1>1, <3>1, InHeap
    <3> QED BY <1>2, <3>2
  <2>2. \E x \in Holes : \A y \in Holes : y <= x
    BY <1>2, <2>1, GreatestIn
  <2>3. h \in Holes
    BY <1>1, <2>2 DEF EndmostHole
  <2>4. h \notin live
    BY <2>3 DEF Sound, Listed
  <2> QED BY <2>3, <2>4 DEF Pieces, Vacant
<1>4. /\ h \in Nat /\ h \in Cells /\ Start <= h /\ h < e /\ mem[h].val \in Nat /\ mem[h].val >= 2 * Rec
  BY <1>1, <1>3, InHeap
<1>5. /\ e + grown <= MaxEnd /\ end_address' = e + grown
      /\ mem' = WriteFooter([mem EXCEPT ![h].val = size], h + size - Rec, h)
      /\ h + size = e + grown
  BY <1>1 DEF Expand
<1>6. After(mem, h) = e /\ size \in Nat /\ size >= 2 * Rec
  BY <1>1, <1>2, <1>4, <1>5 DEF After
<1>7. /\ mem' \in [Cells -> Cell]
      /\ mem'[h].val = size /\ mem'[h].magic = mem[h].magic /\ mem'[h].is_hole = mem[h].is_hole
      /\ mem'[h + size - Rec].magic /\ mem'[h + size - Rec].val = h
      /\ \A c \in Cells : c < h => mem'[c] = mem[c]
  <2> DEFINE m1 == [mem EXCEPT ![h].val = size]
  <2>0. PICK a : a = h + size - Rec
    OBVIOUS
  <2> DEFINE m2 == WriteFooter(m1, a, h)
  <2>1. /\ m1 \in [Cells -> Cell]
        /\ m1[h].magic = mem[h].magic /\ m1[h].is_hole = mem[h].is_hole /\ m1[h].val = size
        /\ \A c \in Cells : c # h => m1[c] = mem[c]
    <3>1. size \in Int  BY <1>6
    <3> QED BY <1>2, <1>4, <3>1, SizeWritten
  <2>2. a \in Cells /\ Beside(h, a) /\ a > h /\ h \in Int
    <3>1. h + size <= MaxEnd  BY <1>5
    <3> QED BY <1>2, <1>4, <1>6, <2>0, <3>1 DEF Cells, Beside
  <2> HIDE DEF m1
  <2>3. /\ m2 \in [Cells -> Cell]
        /\ m2[a].magic /\ m2[a].val = h
        /\ \A c \in Cells : Beside(c, a) => m2[c] = m1[c]
    BY <2>1, <2>2, FooterWritten
  <2>4. mem' = m2
    BY <1>5, <2>0 DEF m1
  <2> HIDE DEF m2
  <2>5. \A c \in Cells : c < h => c # h /\ Beside(c, a)
    BY <1>2, <1>4, <1>6, <2>0, <2>2 DEF Cells, Beside
  <2> QED BY <1>4, <2>0, <2>1, <2>2, <2>3, <2>4, <2>5
<1>8. Holes' = Holes /\ Pieces' = Pieces /\ Vacant' = Vacant
  BY <1>0 DEF Holes, Pieces, Vacant
<1>9. ASSUME NEW s \in Pieces, s # h
      PROVE  /\ s \in Nat /\ Start <= s /\ mem[s].val \in Nat /\ mem[s].val >= 2 * Rec
             /\ After(mem, s) \in Nat /\ After(mem, s) <= h /\ s + 2 * Rec <= After(mem, s)
             /\ \A c \in s .. After(mem, s) - Rec : mem'[c] = mem[c]
             /\ mem'[s].val = mem[s].val /\ After(mem', s) = After(mem, s)
  <2>0. /\ s \in Nat /\ s \in Cells /\ s < e /\ Start <= s /\ mem[s].val \in Nat /\ mem[s].val >= 2 * Rec
        /\ After(mem, s) \in Nat /\ s + 2 * Rec <= After(mem, s)
        /\ \A c \in s .. After(mem, s) : c \in Cells
        /\ After(mem, s) <= h \/ After(mem, h) <= s
    BY <1>1, <1>3, <1>9, InHeap
  <2>1. After(mem, s) <= h
    BY <1>6, <1>2, <2>0
  <2>2. \A c \in s .. After(mem, s) - Rec : c \in Cells /\ c < h
    BY <1>4, <2>0, <2>1
  <2>3. \A c \in s .. After(mem, s) - Rec : mem'[c] = mem[c]
    BY <1>7, <2>2
  <2>4. s < h
    BY <1>4, <2>0, <2>1
  <2>5. mem'[s].val = mem[s].val
    BY <1>7, <2>0, <2>4
  <2> QED BY <2>0, <2>1, <2>3, <2>5 DEF After
<1>10. After(mem', h) = e + grown
  BY <1>5, <1>7 DEF After
<1>11. Typed'
  <2>1. end_address' \in Nat /\ end_address' <= MaxEnd /\ Start + MinSize <= end_address'
    BY <1>2, <1>5
  <2>2. Multiple(end_address' - Start)
    <3>0. end_address' = e + grown  BY <1>5
    <3>1. end_address' - Start = e + grown - Start  BY <1>2, <3>0
    <3> QED BY <1>2, <3>1, Zenon
  <2> QED BY <1>0, <1>7, <2>1, <2>2 DEF Typed
<1>12. Tiles(Pieces, mem, end_address)'
  <2>1. Tiles(Pieces, mem, e)  BY <1>1 DEF Sound
  <2>2. Tiles((Pieces \ {h}) \cup {h}, mem', e + grown)
    <3>1. \A s \in Pieces : mem[s].val \in Int  BY InHeap
    <3>2. \A s \in {h} : h <= s /\ After(mem, s) <= e  BY <1>2, <1>4, <1>6
    <3>3. \A s \in Pieces \ {h} : After(mem, s) <= h \/ e <= s  BY <1>9
    <3>4. \A s \in Pieces \ {h} : mem'[s].val = mem[s].val  BY <1>9
    <3>5. mem'[h].val = (e + grown) - h /\ h + 2 * Rec <= e + grown /\ e <= e /\ h <= e /\ {h} \subseteq Pieces
      BY <1>2, <1>3, <1>4, <1>5, <1>6, <1>7
    <3> QED BY <1>2, <1>4, <2>1, <3>1, <3>2, <3>3, <3>4, <3>5, OnePiece
  <2>3. (Pieces \ {h}) \cup {h} = Pieces'  BY <1>3, <1>8
  <2> QED BY <1>5, <2>2, <2>3
<1>13. Marked'
  <2>1. ~mem'[Start - Rec].magic
    <3>1. Start - Rec \in Cells /\ Start - Rec < h  BY <1>2, <1>4 DEF Cells
    <3> QED BY <1>7, <3>1 DEF Sound, Marked
  <2>2. ASSUME NEW s \in live PROVE Solid(mem', s)
    <3>1. s \in Pieces /\ s # h /\ Solid(mem, s)  BY <1>3 DEF Sound, Marked, Pieces
    <3> QED BY <1>9, <3>1, SolidKept
  <2>3. ASSUME NEW s \in Vacant, s # h PROVE Hollow(mem', s)
    <3>1. s \in Pieces  BY DEF Vacant
    <3>2. After(mem, s) # e  BY <1>9, <1>4, <1>2, <2>3, <3>1
    <3>3. Hollow(mem, s)  BY <1>1, <3>2 DEF Sound, Marked, Fresh
    <3> QED BY <1>9, <2>3, <3>1, <3>3, HollowKept
  <2>4. Hollow(mem', h)
    <3>1. mem[h].magic /\ mem[h].is_hole  BY <1>3 DEF Sound, Marked, Fresh, Hollow
    <3>2. After(mem', h) - Rec = h + size - Rec  BY <1>4, <1>6, <1>7 DEF After
    <3>3. h \in h .. h + size - Rec  BY <1>4, <1>6
    <3> QED BY <1>7, <3>1, <3>2, <3>3 DEF Hollow
  <2> QED BY <1>0, <1>8, <2>1, <2>2, <2>3, <2>4 DEF Marked
<1>14. Listed' /\ Called'
  BY <1>0, <1>8 DEF Listed, Called, Sound
<1>15. frames' = frames /\ Top' = Top /\ Adding' = Adding
  BY <1>0 DEF Top, Adding
<1>16. ASSUME frames # <<>> PROVE Top.header \in Pieces
  BY <1>0, <1>16, PiecesAre DEF Sound
<1>17. ASSUME frames # <<>>, Resting PROVE Resting'
  <2>1. Top.header = h
    BY <1>1, <1>3, <1>6, <1>16, <1>17, OneBefore DEF Resting
  <2> QED BY <1>0, <1>5, <1>8, <1>10, <1>15, <1>17, <2>1 DEF Resting
<1>18. ASSUME frames # <<>>, Grown PROVE Grown'
  <2>0. PICK g : g = Top.header
    OBVIOUS
  <2>1. g \in Pieces /\ g # h /\ After(mem, g) = h /\ Holes = {h} /\ Adding /\ g \notin Holes \cup live
    BY <1>3, <1>16, <1>18, <2>0 DEF Grown
  <2>2. After(mem', g) = h
    BY <1>9, <2>1
  <2> QED BY <1>0, <1>5, <1>8, <1>10, <1>15, <2>0, <2>1, <2>2 DEF Grown
<1>19. Suspended'
  <2>1. frames # <<>> => Resting \/ Grown
    BY <1>0 DEF Sound, Suspended, Inside, Behind
  <2> QED BY <1>15, <1>17, <1>18, <2>1 DEF Sound, Suspended
<1>20. Apart'
  <2>1. ASSUME NEW s \in Vacant, NEW t \in Vacant, After(mem', s) = t
        PROVE  frames # <<>> /\ s = Top.header /\ Grown
    <3>0. s \in Pieces /\ t \in Pieces  BY DEF Vacant
    <3>1. s # h
      <4>1. t < e  BY <1>1, <3>0, InHeap
      <4>2. t \in Nat  BY <3>0, InHeap
      <4> QED BY <1>2, <1>10, <2>1, <4>1, <4>2
    <3>2. After(mem, s) = t  BY <1>9, <2>1, <3>0, <3>1
    <3> QED BY <3>2 DEF Sound, Apart
  <2> QED BY <1>8, <1>15, <1>18, <2>1 DEF Apart
<1> QED BY <1>11, <1>12, <1>13, <1>14, <1>19, <1>20 DEF Sound

-----------------------------------------------------------------------------
\* alloc() with a hole that fits

\* What is read from a up to z stays.
Spares(a, z) == \A c \in Cells : a <= c /\ c <= z => mem'[c] = mem[c]

\* What alloc() leaves of hole h: a hole of `front' bytes, a block and a hole of `rest'
\* bytes, either of which may be missing.
Placed(h, front, size, rest) ==
  LET b == h + front
      r == h + front + size
      z == h + front + size + rest
  IN  /\ h \in Holes /\ z = After(mem, h)
      /\ front \in Nat /\ (front = 0 \/ front >= 2 * Rec)
      /\ size \in Nat /\ size >= request.size + 2 * Rec
      /\ rest \in Nat /\ (rest = 0 \/ rest >= 2 * Rec)
      /\ front # 0 => request.align
      /\ mem' \in [Cells -> Cell]
      /\ \A c \in Cells : c <= h - Rec \/ c >= z => mem'[c] = mem[c]
      /\ front # 0 => mem'[h].magic /\ mem'[h].is_hole /\ mem'[h].val = front
      /\ front # 0 => mem'[b - Rec].magic /\ mem'[b - Rec].val = h
      /\ mem'[b].magic /\ ~mem'[b].is_hole /\ mem'[b].val = size
      /\ mem'[r - Rec].magic /\ mem'[r - Rec].val = b
      /\ rest # 0 => mem'[r].magic /\ mem'[r].is_hole /\ mem'[r].val = rest
      /\ rest # 0 => mem'[z - Rec].magic /\ mem'[z - Rec].val = r
      /\ request.size = Rec /\ front = 0 => Spares(h + 4 * Rec, z - 2 * Rec)
      /\ live' = live \cup {b}
      /\ index' \in Seq(Nat) /\ Once(index')
      /\ Holes' = (IF front = 0 THEN Holes \ {h} ELSE Holes) \cup (IF rest = 0 THEN {} ELSE {r})
      /\ request' = None /\ entry' = IF request.owner = "lock" THEN b ELSE entry
      /\ UNCHANGED <<end_address, slack, monitor, frames>>

LEMMA FindsSmallest ==
  ASSUME Typed, NEW r, Fitting(r) # {}
  PROVE  find_smallest_hole(r) \in DOMAIN index /\ Fits(find_smallest_hole(r), r)
<1>1. Fitting(r) \in SUBSET Nat
  BY DEF Fitting, Typed
<1>2. PICK i \in Fitting(r) : \A j \in Fitting(r) : i <= j
  BY <1>1, LeastIn
<1>3. find_smallest_hole(r) \in Fitting(r)
  BY <1>2 DEF find_smallest_hole
<1> QED BY <1>3 DEF Fitting

LEMMA PlaceFacts ==
  ASSUME Sound, NEW stored \in BOOLEAN, defect = "none", Place(stored), defect' = "none"
  PROVE  \E h, front, size, rest : Placed(h, front, size, rest)
<1>0. request # None /\ Fitting(request) # {} /\ Typed
      /\ request \in [size : Nat \ {0}, align : BOOLEAN, owner : {"caller", "lock"}]
  BY DEF Place, Sound, Typed
<1> DEFINE at == find_smallest_hole(request)
           h == index[at]
           total == mem[h].val
           rs == request.size
           front == IF request.align THEN FrontSize(h) ELSE 0
           size == IF total - (rs + 2 * Rec) < 2 * Rec THEN total ELSE rs + 2 * Rec
           b == h + front
           rest == total - front - size
           m1 == IF front = 0 THEN mem ELSE WriteFooter(WriteHeader(mem, h, TRUE, front), b - Rec, h)
           m2 == WriteBlock(m1, b, size)
           m3 == IF rest = 0 THEN m2
                 ELSE WriteFooter(WriteHeader(m2, b + size, TRUE, rest), b + size + rest - Rec, b + size)
           kept == IF front = 0 THEN RemoveAt(index, at) ELSE index
<1>1. /\ ~(front < 0) /\ front \notin 1 .. 2 * Rec - 1 /\ rest \notin 1 .. 2 * Rec - 1
      /\ mem' = [a \in Cells |-> IF stored /\ a \in b + 1 .. b + rs + Rec - 1 THEN Data ELSE m3[a]]
      /\ index' = IF rest = 0 THEN kept ELSE Insert(kept, b + size, m3)
      /\ live' = live \cup {b} /\ entry' = IF request.owner = "lock" THEN b ELSE entry
      /\ request' = None
      /\ UNCHANGED <<end_address, slack, monitor, frames>>
  <2>1. defect' # "tiny" /\ defect' # "before"
    OBVIOUS
  <2> QED BY <2>1 DEF Place
<1>2. at \in DOMAIN index /\ Fits(at, request) /\ at \in 1 .. Len(index) /\ index \in Seq(Nat) /\ Once(index)
  BY <1>0, FindsSmallest DEF Typed, Sound, Listed
<1>3. h = index[at] /\ total = mem[h].val /\ rs = request.size
  OBVIOUS
<1>4. h \in Holes /\ h \in Pieces /\ rs \in Nat /\ rs > 0
  BY <1>0, <1>2 DEF Holes, Range, Pieces
<1>6. front = IF request.align THEN FrontSize(h) ELSE 0
  OBVIOUS
<1>8. /\ size = IF total - (rs + 2 * Rec) < 2 * Rec THEN total ELSE rs + 2 * Rec
      /\ b = h + front /\ rest = total - front - size
  OBVIOUS
<1> HIDE DEF at, h, total, rs, front, size, b, rest
<1>5. /\ h \in Nat /\ h \in Cells /\ Start <= h /\ h < end_address /\ total \in Nat /\ total >= 2 * Rec
      /\ After(mem, h) = h + total /\ h + total <= end_address /\ end_address <= MaxEnd
      /\ end_address \in Nat /\ MaxEnd \in Nat /\ Start \in Nat /\ Start >= 3 * Rec
      /\ mem \in [Cells -> Cell]
  BY <1>0, <1>3, <1>4, InHeap, PageFacts DEF After, Typed
<1>7. front \in Nat /\ total > front /\ total - front >= rs + 2 * Rec /\ (front # 0 => request.align)
  <2>1. FrontSize(h) \in Int
    BY <1>5, PageFacts DEF FrontSize
  <2>2. request.align => FrontSize(h) >= 0
    BY <1>1, <1>6, <2>1
  <2>3. request.align => Offset(h) = FrontSize(h) /\ FrontSize(h) \in Nat
    BY <1>5, <2>2, OffsetFacts
  <2>4. front = IF request.align THEN Offset(h) ELSE 0
    BY <1>6, <2>3
  <2>5. total > front /\ total - front >= rs + 2 * Rec
    BY <1>2, <1>3, <2>4 DEF Fits
  <2> QED BY <1>6, <2>3, <2>5
<1>9. front = 0 \/ front >= 2 * Rec
  BY <1>1, <1>7
<1>10. /\ size \in Nat /\ size >= rs + 2 * Rec /\ size >= 2 * Rec /\ rest \in Nat /\ b \in Nat
       /\ h + total = b + size + rest /\ total = front + size + rest
  BY <1>4, <1>5, <1>7, <1>8, <1>9
<1>24. rest = 0 \/ rest >= 2 * Rec
  BY <1>1, <1>10
<1>11. PICK r, z : r = b + size /\ z = b + size + rest
  OBVIOUS
<1>12. /\ r \in Nat /\ z \in Nat /\ r <= z /\ h <= b /\ b + 2 * Rec <= r /\ z = h + total /\ z <= MaxEnd
       /\ \A c \in h .. z - 1 : c \in Cells
  <2>1. r \in Nat /\ z \in Nat /\ r <= z /\ b + 2 * Rec <= r /\ z = h + total /\ z <= MaxEnd
    BY <1>5, <1>10, <1>11
  <2>2. h <= b
    BY <1>5, <1>7, <1>8
  <2> QED BY <1>5, <2>1, <2>2 DEF Cells
<1>13. /\ m1 \in [Cells -> Cell]
       /\ front # 0 => m1[h].magic /\ m1[h].is_hole /\ m1[h].val = front
       /\ front # 0 => m1[b - Rec].magic /\ m1[b - Rec].val = h
       /\ \A c \in Cells : c <= h - Rec \/ c >= b => m1[c] = mem[c]
  <2>1. CASE front = 0  BY <1>5, <2>1
  <2>2. CASE front # 0
    <3> DEFINE f == WriteFooter(WriteHeader(mem, h, TRUE, front), b - Rec, h)
    <3>1. front >= 2 * Rec /\ b - Rec \in Cells /\ b - Rec = h + front - Rec /\ b - Rec > h
      BY <1>5, <1>7, <1>8, <1>9, <1>12, <2>2
    <3>2. PICK y : y = b - Rec  OBVIOUS
    <3>3. LET g == WriteHole(mem, h, front, y)
          IN  /\ g \in [Cells -> Cell]
              /\ g[h].magic /\ g[h].is_hole /\ g[h].val = front
              /\ g[y].magic /\ g[y].val = h
              /\ \A c \in Cells : Beside(c, h) /\ Beside(c, y) => g[c] = mem[c]
      <4>1. y \in Cells /\ y = h + front - Rec /\ front >= 2 * Rec  BY <3>1, <3>2
      <4> QED BY <1>5, <1>7, <4>1, HoleMade
    <3>4. /\ f \in [Cells -> Cell]
          /\ f[h].magic /\ f[h].is_hole /\ f[h].val = front
          /\ f[b - Rec].magic /\ f[b - Rec].val = h
          /\ \A c \in Cells : Beside(c, h) /\ Beside(c, b - Rec) => f[c] = mem[c]
      BY <3>2, <3>3 DEF WriteHole
    <3>5. m1 = f  BY <2>2
    <3> HIDE DEF f, m1
    <3>6. \A c \in Cells : c <= h - Rec \/ c >= b => Beside(c, h) /\ Beside(c, b - Rec)
      BY <1>5, <1>10, <1>12, <3>1 DEF Cells, Beside
    <3> QED BY <3>4, <3>5, <3>6
  <2> QED BY <2>1, <2>2
<1> HIDE DEF m1
<1>14. /\ m2 \in [Cells -> Cell]
       /\ m2[b].magic /\ ~m2[b].is_hole /\ m2[b].val = size
       /\ m2[r - Rec].magic /\ m2[r - Rec].val = b
       /\ \A c \in Cells : Beside(c, b) /\ Beside(c, r - Rec) => m2[c] = m1[c]
       /\ \A c \in Cells : c <= b - Rec \/ c >= r => m2[c] = m1[c]
  <2>1. PICK y : y = r - Rec  OBVIOUS
  <2>2. y \in Cells /\ b \in Cells /\ y = b + size - Rec /\ size >= 2 * Rec /\ b \in Nat /\ size \in Nat
    <3>1. y \in h .. z - 1 /\ b \in h .. z - 1 /\ y = b + size - Rec /\ size >= 2 * Rec /\ b \in Nat /\ size \in Nat
      BY <1>5, <1>10, <1>11, <1>12, <2>1
    <3> QED BY <1>12, <3>1
  <2>3. /\ m2 \in [Cells -> Cell]
        /\ m2[b].magic /\ ~m2[b].is_hole /\ m2[b].val = size
        /\ m2[y].magic /\ m2[y].val = b
        /\ \A c \in Cells : Beside(c, b) /\ Beside(c, y) => m2[c] = m1[c]
    BY <1>13, <2>2, BlockMade
  <2> HIDE DEF m2
  <2>4. \A c \in Cells : c <= b - Rec \/ c >= r => Beside(c, b) /\ Beside(c, y)
    BY <1>10, <1>12, <2>1 DEF Cells, Beside
  <2> QED BY <2>1, <2>3, <2>4
<1> HIDE DEF m2
<1>15. /\ m3 \in [Cells -> Cell]
       /\ rest # 0 => m3[r].magic /\ m3[r].is_hole /\ m3[r].val = rest
       /\ rest # 0 => m3[z - Rec].magic /\ m3[z - Rec].val = r
       /\ \A c \in Cells : c <= r - Rec \/ c >= z => m3[c] = m2[c]
  <2>1. CASE rest = 0  BY <1>14, <2>1
  <2>2. CASE rest # 0
    <3>1. PICK y : y = z - Rec  OBVIOUS
    <3>2. y \in Cells /\ r \in Cells /\ y = r + rest - Rec /\ rest >= 2 * Rec /\ r \in Nat /\ rest \in Nat
      <4>1. y \in h .. z - 1 /\ r \in h .. z - 1 /\ y = r + rest - Rec /\ rest >= 2 * Rec /\ r \in Nat /\ rest \in Nat
        BY <1>5, <1>24, <1>10, <1>11, <1>12, <2>2, <3>1
      <4> QED BY <1>12, <4>1
    <3> DEFINE g == WriteHole(m2, r, rest, y)
    <3>3. /\ g \in [Cells -> Cell]
          /\ g[r].magic /\ g[r].is_hole /\ g[r].val = rest
          /\ g[y].magic /\ g[y].val = r
          /\ \A c \in Cells : Beside(c, r) /\ Beside(c, y) => g[c] = m2[c]
      BY <1>14, <3>2, HoleMade
    <3>4. b + size + rest - Rec = y  BY <1>10, <1>11, <3>1
    <3>5. m3 = g  BY <1>11, <2>2, <3>4 DEF WriteHole
    <3> HIDE DEF g, m3
    <3>6. \A c \in Cells : c <= r - Rec \/ c >= z => Beside(c, r) /\ Beside(c, y)
      BY <1>12, <3>1, <3>2 DEF Cells, Beside
    <3> QED BY <3>1, <3>3, <3>5, <3>6
  <2> QED BY <2>1, <2>2
<1> HIDE DEF m3
<1>16. /\ mem' \in [Cells -> Cell]
       /\ \A c \in Cells : c \notin b + 1 .. b + rs + Rec - 1 => mem'[c] = m3[c]
  <2>1. Data \in Cell  BY DEF Data, Cell
  <2> QED BY <1>1, <1>15, <2>1
<1>17. /\ \A c \in Cells : c <= h - Rec \/ c >= z => mem'[c] = mem[c]
       /\ front # 0 => mem'[h].magic /\ mem'[h].is_hole /\ mem'[h].val = front
       /\ front # 0 => mem'[b - Rec].magic /\ mem'[b - Rec].val = h
       /\ mem'[b].magic /\ ~mem'[b].is_hole /\ mem'[b].val = size
       /\ mem'[r - Rec].magic /\ mem'[r - Rec].val = b
       /\ rest # 0 => mem'[r].magic /\ mem'[r].is_hole /\ mem'[r].val = rest
       /\ rest # 0 => mem'[z - Rec].magic /\ mem'[z - Rec].val = r
  <2>0. b + rs + 2 * Rec <= r  BY <1>4, <1>10, <1>11
  <2>1. ASSUME NEW c \in Cells, c <= h - Rec \/ c >= z PROVE mem'[c] = mem[c]
    <3>1. c \notin b + 1 .. b + rs + Rec - 1 /\ (c <= r - Rec \/ c >= z) /\ (c <= b - Rec \/ c >= r)
          /\ (c <= h - Rec \/ c >= b)
      BY <1>4, <1>5, <1>10, <1>12, <2>0, <2>1 DEF Cells
    <3> QED BY <1>13, <1>14, <1>15, <1>16, <3>1
  <2>2. ASSUME front # 0 PROVE mem'[h] = m1[h] /\ mem'[b - Rec] = m1[b - Rec]
    <3>1. h <= b - Rec /\ h \in Cells /\ b - Rec \in Cells /\ b - Rec <= b - Rec
          /\ h <= r - Rec /\ b - Rec <= r - Rec
          /\ h \notin b + 1 .. b + rs + Rec - 1 /\ b - Rec \notin b + 1 .. b + rs + Rec - 1
      BY <1>4, <1>5, <1>7, <1>8, <1>9, <1>10, <1>12, <2>2
    <3> QED BY <1>14, <1>15, <1>16, <3>1
  <2>3. mem'[b] = m2[b] /\ mem'[r - Rec] = m2[r - Rec]
    <3>1. b \in Cells /\ r - Rec \in Cells /\ b <= r - Rec /\ r - Rec <= r - Rec
          /\ b \notin b + 1 .. b + rs + Rec - 1 /\ r - Rec \notin b + 1 .. b + rs + Rec - 1
      <4>1. b \in h .. z - 1 /\ r - Rec \in h .. z - 1 /\ b <= r - Rec /\ r - Rec <= r - Rec
        BY <1>5, <1>10, <1>12
      <4>2. b \notin b + 1 .. b + rs + Rec - 1 /\ r - Rec \notin b + 1 .. b + rs + Rec - 1
        BY <1>4, <1>10, <1>12, <2>0
      <4> QED BY <1>12, <4>1, <4>2
    <3> QED BY <1>15, <1>16, <3>1
  <2>4. ASSUME rest # 0 PROVE mem'[r] = m3[r] /\ mem'[z - Rec] = m3[z - Rec]
    <3>1. r \in Cells /\ z - Rec \in Cells /\ r \notin b + 1 .. b + rs + Rec - 1 /\ z - Rec \notin b + 1 .. b + rs + Rec - 1
      <4>1. r \in h .. z - 1 /\ z - Rec \in h .. z - 1 /\ r \notin b + 1 .. b + rs + Rec - 1 /\ z - Rec \notin b + 1 .. b + rs + Rec - 1
        BY <1>4, <1>5, <1>10, <1>11, <1>12, <1>24, <2>0, <2>4
      <4> QED BY <1>12, <4>1
    <3> QED BY <1>16, <3>1
  <2> QED BY <1>13, <1>14, <1>15, <2>1, <2>2, <2>3, <2>4
<1>18. /\ kept \in Seq(Nat) /\ Once(kept)
       /\ Range(kept) = IF front = 0 THEN Holes \ {h} ELSE Holes
  <2>1. CASE front = 0
    <3>1. RemoveAt(index, at) \in Seq(Nat) /\ Once(RemoveAt(index, at))
          /\ Range(RemoveAt(index, at)) = Range(index) \ {index[at]}
      BY <1>2, RemoveOne
    <3> QED BY <1>3, <2>1, <3>1 DEF Holes
  <2>2. CASE front # 0  BY <1>2, <2>2 DEF Holes
  <2> QED BY <2>1, <2>2
<1> HIDE DEF kept
<1>19. /\ index' \in Seq(Nat) /\ Once(index')
       /\ Holes' = (IF front = 0 THEN Holes \ {h} ELSE Holes) \cup (IF rest = 0 THEN {} ELSE {r})
  <2>1. CASE rest = 0  BY <1>1, <1>18, <2>1 DEF Holes
  <2>2. CASE rest # 0
    <3>1. Range(kept) \subseteq Pieces  BY <1>18 DEF Pieces
    <3>2. r \notin Pieces
      <4>1. h < r /\ r < After(mem, h)  BY <1>5, <1>10, <1>11, <1>12, <2>2
      <4> QED BY <1>4, <4>1, InHeap
    <3>3. m3[r].val \in Int /\ r \in Nat  BY <1>10, <1>12, <1>15, <2>2
    <3>4. \A i \in DOMAIN kept : m3[kept[i]].val \in Int
      <4>1. \A i \in DOMAIN kept : kept[i] \in Cells  BY <3>1, InHeap DEF Range
      <4> QED BY <1>15, <4>1 DEF Cell
    <3>5. index' = Insert(kept, r, m3)  BY <1>1, <1>11, <2>2
    <3>6. index' \in Seq(Nat) /\ Once(index') /\ Range(index') = Range(kept) \cup {r}
      BY <1>18, <3>1, <3>2, <3>3, <3>4, <3>5, InsertItem
    <3> QED BY <1>18, <2>2, <3>6 DEF Holes
  <2> QED BY <2>1, <2>2
<1>20. h + front = b /\ h + front + size = r /\ h + front + size + rest = z /\ z = After(mem, h)
  BY <1>5, <1>8, <1>11, <1>12
<1>21. ASSUME rs = Rec, front = 0 PROVE Spares(h + 4 * Rec, z - 2 * Rec)
  <2>1. b = h /\ ((rest = 0 /\ z < h + 5 * Rec) \/ r = h + 3 * Rec)
    BY <1>5, <1>8, <1>10, <1>11, <1>12, <1>21
  <2>2. ASSUME NEW c \in Cells, h + 4 * Rec <= c, c <= z - 2 * Rec PROVE mem'[c] = mem[c]
    <3>4. r = h + 3 * Rec
      BY <1>5, <1>12, <2>1, <2>2 DEF Cells
    <3>0. c \in Int /\ c \notin b + 1 .. b + rs + Rec - 1
      BY <1>5, <1>21, <2>1, <2>2 DEF Cells
    <3>1. Beside(c, b) /\ Beside(c, r - Rec)
      BY <1>5, <1>12, <2>1, <2>2, <3>0, <3>4 DEF Beside
    <3>2. m2[c] = mem[c]
      BY <1>14, <1>21, <2>2, <3>1 DEF m1
    <3>3. m3[c] = m2[c]
      <4>1. CASE rest = 0  BY <4>1 DEF m3
      <4>2. CASE rest # 0
        <5>1. PICK y : y = z - Rec  OBVIOUS
        <5>2. /\ y \in Cells /\ r \in Cells /\ y = r + rest - Rec /\ rest >= 2 * Rec
              /\ r \in Nat /\ rest \in Nat /\ Beside(c, r) /\ Beside(c, y)
              /\ b + size + rest - Rec = y /\ b + size = r
          <6>1. y \in h .. z - 1 /\ r \in h .. z - 1
            BY <1>5, <1>10, <1>11, <1>12, <1>24, <4>2, <5>1
          <6>2. y \in Cells /\ r \in Cells
            BY <1>12, <6>1
          <6>3. /\ y = r + rest - Rec /\ rest >= 2 * Rec /\ r \in Nat /\ rest \in Nat
                /\ b + size + rest - Rec = y /\ b + size = r
            BY <1>10, <1>11, <1>12, <1>24, <4>2, <5>1
          <6>4. Beside(c, r) /\ Beside(c, y)
            BY <1>5, <1>12, <2>2, <3>0, <3>4, <5>1 DEF Beside
          <6> QED BY <6>2, <6>3, <6>4
        <5>3. m3 = WriteHole(m2, r, rest, y)
          BY <4>2, <5>2 DEF m3, WriteHole
        <5> DEFINE g == WriteHole(m2, r, rest, y)
        <5>4. \A x \in Cells : Beside(x, r) /\ Beside(x, y) => g[x] = m2[x]
          BY <1>14, <5>2, HoleMade
        <5>5. m3 = g
          BY <5>3
        <5> HIDE DEF g, m3
        <5> QED BY <2>2, <5>2, <5>4, <5>5
      <4> QED BY <4>1, <4>2
    <3> QED BY <1>16, <3>0, <3>2, <3>3
  <2> QED BY <2>2 DEF Spares
<1>22. request.size = Rec /\ front = 0 => Spares(h + 4 * Rec, z - 2 * Rec)
  BY <1>3, <1>21
<1>25. /\ front \in Nat /\ (front = 0 \/ front >= 2 * Rec) /\ (front # 0 => request.align)
       /\ size \in Nat /\ size >= request.size + 2 * Rec
       /\ rest \in Nat /\ (rest = 0 \/ rest >= 2 * Rec)
  BY <1>3, <1>7, <1>9, <1>10, <1>24
<1>23. Placed(h, front, size, rest)
  <2>1. /\ live' = live \cup {b} /\ entry' = IF request.owner = "lock" THEN b ELSE entry
        /\ request' = None
        /\ UNCHANGED <<end_address, slack, monitor, frames>>
    BY <1>1
  <2>2. mem' \in [Cells -> Cell]
    BY <1>16
  <2> QED BY <1>4, <1>17, <1>19, <1>20, <1>22, <1>25, <2>1, <2>2, SMTT(30) DEF Placed
<1> QED BY <1>23

LEMMA PlacedSound ==
  ASSUME Sound, request # None, NEW h, NEW front, NEW size, NEW rest, Placed(h, front, size, rest)
  PROVE  Sound'
<1>0. entry = 0 /\ Typed /\ UNCHANGED <<end_address, slack, monitor, frames>>
      /\ (frames # <<>> => ~request.align) /\ (request.owner = "lock" <=> frames # <<>>)
  BY DEF Placed, Sound, Called
<1>1. PICK b, r, z, e : b = h + front /\ r = h + front + size /\ z = h + front + size + rest /\ e = end_address
  OBVIOUS
<1>2. /\ h \in Holes /\ z = After(mem, h)
      /\ front \in Nat /\ (front = 0 \/ front >= 2 * Rec)
      /\ size \in Nat /\ size >= 2 * Rec /\ rest \in Nat /\ (rest = 0 \/ rest >= 2 * Rec)
      /\ front # 0 => request.align
      /\ live' = live \cup {b}
      /\ index' \in Seq(Nat) /\ Once(index')
      /\ Holes' = (IF front = 0 THEN Holes \ {h} ELSE Holes) \cup (IF rest = 0 THEN {} ELSE {r})
      /\ request' = None /\ entry' = IF request.owner = "lock" THEN b ELSE entry
  <2>1. request.size \in Nat  BY <1>0 DEF Typed
  <2>2. size \in Nat /\ size >= request.size + 2 * Rec  BY DEF Placed
  <2>3. size >= 2 * Rec  BY <2>1, <2>2
  <2>4. /\ h \in Holes /\ h + front + size + rest = After(mem, h)
        /\ front \in Nat /\ (front = 0 \/ front >= 2 * Rec)
        /\ rest \in Nat /\ (rest = 0 \/ rest >= 2 * Rec)
        /\ front # 0 => request.align
    BY DEF Placed
  <2> QED BY <1>1, <2>2, <2>3, <2>4 DEF Placed
<1>3. /\ mem' \in [Cells -> Cell]
      /\ \A c \in Cells : c <= h - Rec \/ c >= z => mem'[c] = mem[c]
      /\ front # 0 => mem'[h].magic /\ mem'[h].is_hole /\ mem'[h].val = front
      /\ front # 0 => mem'[b - Rec].magic /\ mem'[b - Rec].val = h
      /\ mem'[b].magic /\ ~mem'[b].is_hole /\ mem'[b].val = size
      /\ mem'[r - Rec].magic /\ mem'[r - Rec].val = b
      /\ rest # 0 => mem'[r].magic /\ mem'[r].is_hole /\ mem'[r].val = rest
      /\ rest # 0 => mem'[z - Rec].magic /\ mem'[z - Rec].val = r
  BY <1>1 DEF Placed
<1>4. h \in Pieces /\ h \in Vacant /\ h \notin live
  BY <1>2 DEF Pieces, Vacant, Sound, Listed
<1>5. /\ h \in Nat /\ h \in Cells /\ Start <= h /\ z \in Nat /\ z <= e /\ e \in Nat /\ e <= MaxEnd
      /\ Start \in Nat /\ Start >= 3 * Rec /\ MaxEnd \in Nat
  BY <1>0, <1>1, <1>2, <1>4, InHeap, PageFacts DEF Typed
<1>6. /\ b \in Nat /\ r \in Nat /\ h <= b /\ b + 2 * Rec <= r /\ r <= z /\ h < z
      /\ front = 0 => b = h
      /\ front # 0 => h + 2 * Rec <= b
      /\ rest = 0 => r = z
      /\ rest # 0 => r + 2 * Rec <= z
      /\ b = h + front /\ r = b + size /\ z = r + rest
  BY <1>1, <1>2, <1>5
<1>7. /\ After(mem', b) = r
      /\ front # 0 => After(mem', h) = b
      /\ rest # 0 => After(mem', r) = z
  BY <1>3, <1>6 DEF After
<1>8. ASSUME NEW s \in Pieces, s # h
      PROVE  /\ s \in Nat /\ s < e /\ Start <= s /\ mem[s].val \in Nat /\ mem[s].val >= 2 * Rec
             /\ After(mem, s) \in Nat /\ After(mem, s) <= e /\ s + 2 * Rec <= After(mem, s)
             /\ After(mem, s) <= h \/ z <= s
             /\ \A c \in s .. After(mem, s) - Rec : mem'[c] = mem[c]
             /\ mem'[s].val = mem[s].val /\ After(mem', s) = After(mem, s)
  <2>1. /\ s \in Nat /\ s \in Cells /\ s < e /\ Start <= s /\ mem[s].val \in Nat /\ mem[s].val >= 2 * Rec
        /\ After(mem, s) \in Nat /\ After(mem, s) <= e /\ s + 2 * Rec <= After(mem, s)
        /\ \A c \in s .. After(mem, s) : c \in Cells
    BY <1>1, InHeap
  <2>2. After(mem, s) <= h \/ z <= s
    BY <1>2, <1>4, <1>8, InHeap
  <2>3. \A c \in s .. After(mem, s) - Rec : c \in Cells /\ (c <= h - Rec \/ c >= z)
    BY <1>5, <2>1, <2>2
  <2>4. \A c \in s .. After(mem, s) - Rec : mem'[c] = mem[c]
    BY <1>3, <2>3
  <2>5. mem'[s] = mem[s]
    <3>1. s \in s .. After(mem, s) - Rec  BY <2>1
    <3> QED BY <2>4, <3>1
  <2> QED BY <2>1, <2>2, <2>4, <2>5 DEF After
<1>9. /\ rest # 0 => r \notin Pieces
      /\ front # 0 => b \notin Pieces
      /\ \A s \in Pieces : s # h => s # b
  <2>1. ASSUME NEW s \in Pieces, s # h PROVE s + 2 * Rec <= h \/ z <= s
    BY <1>5, <1>8, <2>1
  <2>2. h # r /\ b < z /\ (rest # 0 => r < z) /\ (front # 0 => b # h)
    BY <1>5, <1>6
  <2>3. ASSUME NEW s \in Pieces, s # h PROVE s \in Nat
    BY <1>8, <2>3
  <2> QED BY <1>5, <1>6, <2>1, <2>2, <2>3
<1> DEFINE F == IF front = 0 THEN {} ELSE {h}
           T == IF rest = 0 THEN {} ELSE {r}
           N == {b} \cup F \cup T
<1>10. Pieces' = (Pieces \ {h}) \cup N
  <2>1. Pieces' = live \cup {b} \cup Holes' \cup {f.header : f \in Range(frames)}
    BY <1>0, <1>2 DEF Pieces
  <2>2. Pieces = live \cup Holes \cup {f.header : f \in Range(frames)}
    BY DEF Pieces
  <2>3. CASE front = 0
    <3>1. Holes' = (Holes \ {h}) \cup T /\ b = h  BY <1>2, <1>6, <2>3
    <3>2. PICK S : S = {f.header : f \in Range(frames)}  OBVIOUS
    <3>3. Pieces' = live \cup {h} \cup ((Holes \ {h}) \cup T) \cup S /\ Pieces = live \cup Holes \cup S
      BY <2>1, <2>2, <3>1, <3>2
    <3>4. N = {h} \cup T  BY <2>3, <3>1
    <3> HIDE DEF T, N
    <3> QED BY <3>3, <3>4
  <2>4. CASE front # 0
    <3>1. Holes' = Holes \cup T  BY <1>2, <2>4
    <3>2. PICK S : S = {f.header : f \in Range(frames)}  OBVIOUS
    <3>3. Pieces' = live \cup {b} \cup (Holes \cup T) \cup S /\ Pieces = live \cup Holes \cup S
      BY <2>1, <2>2, <3>1, <3>2
    <3>4. N = {b} \cup {h} \cup T  BY <2>4
    <3> HIDE DEF T, N
    <3> QED BY <1>4, <3>3, <3>4
  <2> QED BY <2>3, <2>4
<1>11. Vacant' = (Vacant \ {h}) \cup F \cup T /\ b \notin Vacant'
  <2>1. Vacant' = Pieces' \ (live \cup {b})  BY <1>2 DEF Vacant
  <2>2. b \notin Pieces \ {h} /\ (rest # 0 => r \notin live /\ r # b) /\ (front # 0 => b # h)
    BY <1>5, <1>6, <1>9 DEF Pieces
  <2> QED BY <1>4, <1>10, <2>1, <2>2 DEF Vacant
<1>12. Typed'
  <2>1. b \in Nat /\ entry' \in Nat  BY <1>0, <1>2, <1>6
  <2> QED BY <1>0, <1>2, <1>3, <2>1 DEF Typed
<1>13. Tiles(Pieces, mem, end_address)'
  <2>1. \A s \in N : s \in Nat /\ mem'[s].val \in Int /\ h <= s /\ mem'[s].val >= 2 * Rec /\ After(mem', s) <= z
    <3>1. b \in Nat /\ mem'[b].val \in Int /\ h <= b /\ mem'[b].val >= 2 * Rec /\ After(mem', b) <= z
      BY <1>2, <1>3, <1>6, <1>7
    <3>2. ASSUME front # 0 PROVE mem'[h].val \in Int /\ h <= h /\ mem'[h].val >= 2 * Rec /\ After(mem', h) <= z
      BY <1>2, <1>3, <1>5, <1>6, <1>7, <3>2
    <3>3. ASSUME rest # 0 PROVE mem'[r].val \in Int /\ h <= r /\ mem'[r].val >= 2 * Rec /\ After(mem', r) <= z
      BY <1>2, <1>3, <1>5, <1>6, <1>7, <3>3
    <3> QED BY <1>5, <1>6, <3>1, <3>2, <3>3
  <2>2. ASSUME NEW s \in N, NEW t \in N, s < t PROVE After(mem', s) <= t
    <3>1. CASE s = h /\ front # 0
      <4>1. t = b \/ t = r  BY <1>5, <2>2, <3>1
      <4> QED BY <1>6, <1>7, <3>1, <4>1
    <3>2. CASE s = b
      <4>1. t = r  BY <1>5, <1>6, <2>2, <3>2
      <4> QED BY <1>6, <1>7, <3>2, <4>1
    <3>3. CASE s = r
      <4>1. t = b \/ t = r \/ t = h  BY <2>2
      <4> QED BY <1>5, <1>6, <2>2, <3>3, <4>1
    <3> QED BY <3>1, <3>2, <3>3
  <2>3. ASSUME NEW c \in h .. z - 1 PROVE \E s \in N : s <= c /\ c < After(mem', s)
    <3>1. CASE c < b
      <4>1. front # 0 /\ h <= c /\ c < After(mem', h)  BY <1>5, <1>6, <1>7, <3>1
      <4> QED BY <4>1
    <3>2. CASE b <= c /\ c < r  BY <1>7, <3>2
    <3>3. CASE r <= c
      <4>1. rest # 0 /\ c < After(mem', r)  BY <1>5, <1>6, <1>7, <3>3
      <4> QED BY <3>3, <4>1
    <3> QED BY <1>5, <1>6, <3>1, <3>2, <3>3
  <2>4. Replaces(Pieces, mem, e, mem', e, {h}, N, h, z, z)
    <3>1. \A s \in Pieces : mem[s].val \in Int  BY InHeap
    <3>2. Tiles(Pieces, mem, e)  BY <1>1 DEF Sound
    <3>3. \A s \in {h} : h <= s /\ After(mem, s) <= z  BY <1>2, <1>5
    <3>4. \A s \in Pieces \ {h} : After(mem, s) <= h \/ z <= s  BY <1>8
    <3>5. \A s \in Pieces \ {h} : mem'[s].val = mem[s].val  BY <1>8
    <3>6. {h} \subseteq Pieces /\ h <= z  BY <1>4, <1>5, <1>6
    <3> HIDE DEF N
    <3> QED BY <1>5, <2>1, <2>2, <2>3, <3>1, <3>2, <3>3, <3>4, <3>5, <3>6 DEF Replaces
  <2> HIDE DEF N
  <2>5. Tiles((Pieces \ {h}) \cup N, mem', e)
    BY <2>4, Retile
  <2> QED BY <1>0, <1>1, <1>10, <2>5
<1>14. Marked'
  <2>1. ~mem'[Start - Rec].magic
    <3>1. Start - Rec \in Cells /\ Start - Rec <= h - Rec  BY <1>5 DEF Cells
    <3> QED BY <1>3, <3>1 DEF Sound, Marked
  <2>2. ASSUME NEW s \in live PROVE Solid(mem', s)
    <3>1. s \in Pieces /\ s # h /\ Solid(mem, s)  BY <1>4 DEF Sound, Marked, Pieces
    <3> QED BY <1>8, <3>1, SolidKept
  <2>3. Solid(mem', b)
    BY <1>3, <1>7 DEF Solid
  <2>4. ASSUME NEW s \in Vacant, s # h PROVE Hollow(mem', s)
    <3>1. s \in Pieces  BY DEF Vacant
    <3>2. ~(s = Start /\ After(mem, s) = e)  BY <1>5, <1>6, <1>8, <2>4, <3>1
    <3>3. Hollow(mem, s)  BY <1>1, <3>2 DEF Sound, Marked, Fresh
    <3> QED BY <1>8, <2>4, <3>1, <3>3, HollowKept
  <2>5. ASSUME front # 0 PROVE Hollow(mem', h)
    <3>1. h \in h .. b - Rec  BY <1>5, <1>6, <2>5
    <3> QED BY <1>3, <1>7, <2>5, <3>1 DEF Hollow
  <2>6. ASSUME rest # 0 PROVE Hollow(mem', r)
    <3>1. r \in r .. z - Rec  BY <1>5, <1>6, <2>6
    <3> QED BY <1>3, <1>7, <2>6, <3>1 DEF Hollow
  <2> QED BY <1>2, <1>11, <2>1, <2>2, <2>3, <2>4, <2>5, <2>6 DEF Marked
<1>15. Listed'
  <2>1. Holes \cap live = {}  BY DEF Sound, Listed
  <2>2. rest # 0 => r \notin live /\ r # b  BY <1>6, <1>9 DEF Pieces
  <2>3. b \notin Holes'
    <3>1. front # 0 => b \notin Holes  BY <1>9 DEF Pieces
    <3> QED BY <1>2, <1>6, <2>2, <3>1
  <2>4. Holes' \cap live = {}
    BY <1>2, <2>1, <2>2
  <2> QED BY <1>2, <2>3, <2>4 DEF Listed
<1>16. Called'
  BY <1>0, <1>2 DEF Called
<1>17. Top' = Top /\ Adding' = Adding /\ frames' = frames
  BY <1>0 DEF Top, Adding
<1>18. ASSUME frames # <<>>
       PROVE  Resting' \/ Inside' \/ Behind'
  <2>0. PICK H : H = Top.header
    OBVIOUS
  <2>1. front = 0 /\ b = h /\ entry' = h /\ h # 0 /\ H \in Pieces
    BY <1>0, <1>2, <1>5, <1>6, <1>18, <2>0, PiecesAre DEF Sound
  <2>2. Resting \/ Grown
    BY <1>0, <1>18 DEF Sound, Suspended, Inside, Behind
  <2>3. Holes' = (Holes \ {h}) \cup T
    BY <1>2, <2>1
  <2>4. r = e \/ (rest # 0 /\ r \in Holes' /\ After(mem', r) = z)  \/ z # e
    BY <1>6, <1>7, <2>3
  <2>5. rest # 0 => r # H
    BY <1>9, <2>1
  <2>6. ASSUME z = e PROVE Ends(h)'
    <3>1. After(mem', h) = r  BY <1>7, <2>1
    <3>2. r = e \/ (r \in Holes' /\ After(mem', r) = e)  BY <2>4, <2>6
    <3> QED BY <1>0, <1>1, <3>1, <3>2 DEF Ends
  <2>7. CASE Grown
    <3>1. Holes = {h} /\ After(mem, H) = h /\ z = e /\ Adding /\ H \notin Holes \cup live
      BY <1>1, <1>2, <2>0, <2>7 DEF Grown
    <3>2. H # h /\ After(mem', H) = h  BY <1>8, <2>1, <3>1
    <3>3. H \notin Holes' \cup live'  BY <1>2, <2>1, <2>3, <2>5, <3>1, <3>2
    <3>4. Holes' \subseteq {r} /\ After(mem', h) = r  BY <1>7, <2>1, <2>3, <3>1
    <3> QED BY <1>17, <2>0, <2>1, <2>6, <3>1, <3>2, <3>3, <3>4 DEF Behind
  <2>8. CASE Resting /\ h = H
    <3>1. ~Adding /\ z = e  BY <1>1, <1>2, <2>0, <2>8 DEF Resting
    <3>2. ASSUME NEW s \in Vacant', After(mem', s) = h PROVE FALSE
      <4>1. CASE s \in Vacant /\ s # h
        <5>1. After(mem, s) = h  BY <1>8, <3>2, <4>1 DEF Vacant
        <5>2. s = Top.header  BY <1>4, <4>1, <5>1 DEF Sound, Apart
        <5> QED BY <2>0, <2>8, <4>1, <5>2
      <4>2. CASE rest # 0 /\ s = r
        BY <1>5, <1>6, <1>7, <3>2, <4>2
      <4> QED BY <1>11, <2>1, <4>1, <4>2
    <3> QED BY <1>17, <2>0, <2>1, <2>6, <2>8, <3>1, <3>2 DEF Inside
  <2>9. CASE Resting /\ h # H
    <3>1. H \notin live /\ After(mem, H) = e /\ (H \in Holes <=> ~Adding)
      BY <1>1, <2>0, <2>9 DEF Resting
    <3>2. After(mem', H) = e /\ H \notin live' /\ (H \in Holes' <=> ~Adding)
      BY <1>2, <1>8, <2>1, <2>3, <2>5, <2>9, <3>1
    <3>3. After(mem', h) # H
      <4>1. After(mem', h) = r  BY <1>7, <2>1
      <4>2. CASE rest # 0  BY <2>5, <4>1, <4>2
      <4>3. CASE rest = 0
        <5>1. SUFFICES ASSUME r = H PROVE FALSE  BY <4>1
        <5>2. After(mem, h) = H /\ H \in Vacant  BY <1>2, <1>6, <2>1, <3>1, <4>3, <5>1 DEF Vacant
        <5>3. h = Top.header  BY <1>4, <5>2 DEF Sound, Apart
        <5> QED BY <2>0, <2>9, <5>3
      <4> QED BY <4>2, <4>3
    <3> QED BY <1>0, <1>1, <1>17, <2>0, <2>1, <3>2, <3>3 DEF Resting
  <2> QED BY <2>2, <2>7, <2>8, <2>9
<1>19. Suspended'
  BY <1>17, <1>18 DEF Sound, Suspended
<1>20. Apart'
  <2>1. ASSUME NEW s \in Vacant', NEW t \in Vacant', After(mem', s) = t PROVE FALSE
    <3>0. t # b /\ ((t \in Vacant /\ t # h) \/ (front # 0 /\ t = h) \/ (rest # 0 /\ t = r))
      BY <1>11, <2>1
    <3>1. CASE s \in Vacant /\ s # h
      <4>0. s \in Pieces /\ After(mem, s) = t  BY <1>8, <2>1, <3>1 DEF Vacant
      <4>1. CASE t \in Vacant
        <5>1. frames # <<>> /\ s = Top.header /\ Grown  BY <3>1, <4>0, <4>1 DEF Sound, Apart
        <5>2. t = h  BY <1>2, <4>0, <5>1 DEF Grown
        <5>3. front = 0  BY <1>0, <1>2, <5>1
        <5> QED BY <1>6, <1>9, <3>0, <4>1, <5>2, <5>3 DEF Vacant
      <4>2. CASE t \notin Vacant
        <5>1. rest # 0 /\ t = r  BY <1>4, <3>0, <4>2
        <5>2. s \in Nat /\ After(mem, s) \in Nat /\ (After(mem, s) <= h \/ z <= s) /\ s + 2 * Rec <= After(mem, s)
          BY <1>8, <3>1, <4>0
        <5> QED BY <1>5, <1>6, <4>0, <5>1, <5>2
      <4> QED BY <4>1, <4>2
    <3>2. CASE front # 0 /\ s = h
      BY <1>7, <1>11, <2>1, <3>2
    <3>3. CASE rest # 0 /\ s = r
      <4>1. t = z  BY <1>7, <2>1, <3>3
      <4>2. t # h /\ t # r  BY <1>5, <1>6, <3>3, <4>1
      <4>3. t \in Vacant /\ After(mem, h) = t  BY <1>2, <3>0, <4>1, <4>2
      <4>4. h = Top.header /\ Grown  BY <1>4, <4>3 DEF Sound, Apart
      <4> QED BY <1>2, <4>4 DEF Grown
    <3> QED BY <1>11, <2>1, <3>1, <3>2, <3>3
  <2> QED BY <2>1 DEF Apart
<1> QED BY <1>12, <1>13, <1>14, <1>15, <1>16, <1>19, <1>20 DEF Sound

-----------------------------------------------------------------------------
\* free()

\* Unify left: the hole before block b, if there is one; or its footer is stale and
\* names no hole of the heap.
LEMMA LeftIs ==
  ASSUME Sound, NEW b \in live, LeftOf(b) # b => LeftOf(b) \in Pieces
  PROVE  \/ LeftOf(b) = b /\ \A p \in Vacant : After(mem, p) # b
         \/ LeftOf(b) \in Vacant /\ After(mem, LeftOf(b)) = b
<1>0. b \in Pieces /\ b \in Nat /\ b < end_address
  BY InHeap DEF Pieces
<1>1. CASE b = Start
  <2>1. LeftOf(b) = b
    BY <1>1 DEF LeftOf, Sound, Marked
  <2>2. ASSUME NEW p \in Vacant, After(mem, p) = b PROVE FALSE
    <3>1. p \in Pieces  BY DEF Vacant
    <3> QED BY <1>0, <1>1, <2>2, <3>1, InHeap, PageFacts
  <2> QED BY <2>1, <2>2
<1>2. CASE b # Start
  <2>1. PICK p \in Pieces : After(mem, p) = b /\ p < b
    BY <1>0, <1>2, PreviousIs
  <2>2. \A q \in Vacant : After(mem, q) = b => q = p
    BY <2>1, OneBefore DEF Vacant
  <2>3. p \in Nat
    BY InHeap
  <2>4. CASE p \in live
    <3>1. Solid(mem, p) /\ p \notin Vacant  BY <2>4 DEF Sound, Marked, Vacant
    <3>2. mem[b - Rec].magic /\ mem[b - Rec].val = p /\ ~mem[p].is_hole  BY <2>1, <3>1 DEF Solid
    <3>3. LeftOf(b) = b  BY <3>2 DEF LeftOf
    <3> QED BY <2>2, <3>1, <3>3
  <2>5. CASE p \notin live
    <3>1. p \in Vacant  BY <2>5 DEF Vacant
    <3>2. Hollow(mem, p)
      <4>1. After(mem, p) # end_address  BY <1>0, <2>1
      <4> QED BY <3>1, <4>1 DEF Sound, Marked, Fresh
    <3>3. PICK v : v = mem[b - Rec].val  OBVIOUS
    <3>4. mem[b - Rec].magic /\ v \in p .. b - Rec /\ mem[v].is_hole
      BY <2>1, <3>2, <3>3 DEF Hollow
    <3>5. LeftOf(b) = v  BY <3>3, <3>4 DEF LeftOf
    <3>6. v # b /\ v \in Int /\ p <= v /\ v < b  BY <1>0, <2>3, <3>4
    <3>7. v \in Pieces  BY <3>5, <3>6
    <3>8. v = p
      <4>1. SUFFICES ASSUME v # p PROVE FALSE  OBVIOUS
      <4>2. b <= v \/ After(mem, v) <= p  BY <2>1, <3>7, <4>1, InHeap
      <4>3. v + 2 * Rec <= After(mem, v) /\ After(mem, v) \in Nat  BY <3>7, InHeap
      <4> QED BY <1>0, <2>3, <3>6, <4>2, <4>3
    <3> QED BY <2>1, <3>1, <3>5, <3>8
  <2> QED BY <2>4, <2>5
<1> QED BY <1>1, <1>2

\* What contract() and the rest of free() will know of block b.
Records(frame, b, t) ==
  /\ frame.block = b /\ frame.test_header = t /\ frame.kept = mem[b + 2 * Rec]
  /\ frame.old_length = end_address - Start /\ frame.marks = IF monitor THEN Marks ELSE 0

\* What free() of block b makes: a hole from h to hi, with the hole before b and the
\* hole t after b, if there are such.
Freed(b, h, t, hi, right, suspended) ==
  /\ t = After(mem, b) /\ hi \in Nat
  /\ \/ h = b /\ \A p \in Vacant : After(mem, p) # b
     \/ h \in Vacant /\ After(mem, h) = b
  /\ right => t \in Holes /\ hi = After(mem, t)
  /\ ~right => hi = t /\ t \notin Vacant
  /\ mem' \in [Cells -> Cell]
  /\ \A c \in Cells : c < h \/ c >= hi => mem'[c] = mem[c]
  /\ \A c \in Cells : c # h /\ (h # b => c # b /\ c # t - Rec) => mem'[c] = mem[c]
  /\ mem'[h].val = hi - h /\ Hollow(mem', h)
  /\ live' = live \ {b}
  /\ index' \in Seq(Nat) /\ Once(index')
  /\ Holes' = (IF right THEN Holes \ {t} ELSE Holes)
                \cup (IF h = b /\ hi # end_address THEN {h} ELSE {})
  /\ \E frame \in Frame :
       /\ frame.header = h /\ (frame.do_add <=> h = b) /\ Records(frame, b, t)
       /\ frames' = IF hi = end_address THEN Append(suspended, frame) ELSE suspended
  /\ UNCHANGED <<end_address, slack, monitor, request>>

LEMMA FreeFacts ==
  ASSUME Sound, NEW b \in live, NEW suspended, NEW seen \in BOOLEAN, defect = "none", Free(b, suspended, seen),
         defect' = "none"
  PROVE  \E h, t, hi, right : Freed(b, h, t, hi, right, suspended)
<1> DEFINE size == mem[b].val
           footer == b + size - Rec
           h == LeftOf(b)
           hole == [mem EXCEPT ![b].is_hole = TRUE]
           left == IF h = b THEN hole
                   ELSE [hole EXCEPT ![footer].val = h, ![h].val = @ + size]
           t == footer + Rec
           right == IF t = end_address THEN seen ELSE left[t].magic /\ left[t].is_hole
           both == IF right THEN [left EXCEPT ![h].val = @ + left[t].val] ELSE left
           last == IF right THEN footer + left[t].val ELSE footer
           without == IF right THEN RemoveItem(index, t) ELSE index
           frame == [header |-> h, test_header |-> t, do_add |-> h = b,
                     old_length |-> end_address - Start, marks |-> IF monitor THEN Marks ELSE 0,
                     block |-> b, kept |-> mem[b + 2 * Rec]]
<1>1. /\ live' = live \ {b} /\ mem' = both
      /\ IF last + Rec = end_address
         THEN index' = without /\ frames' = Append(suspended, frame)
         ELSE /\ index' = IF h = b THEN Insert(without, h, both) ELSE without
              /\ frames' = suspended
      /\ UNCHANGED <<end_address, slack, monitor, request>>
  BY DEF Free
<1>2. h # b => h \in Holes \cup {f.header : f \in Range(frames)}
  BY DEF Free
<1>3. right => t \in Holes
  BY DEF Free
<1>4. size = mem[b].val /\ footer = b + size - Rec /\ h = LeftOf(b) /\ t = footer + Rec
  OBVIOUS
<1> HIDE DEF size, footer, h, t, right
<1>5. b \in Pieces /\ Solid(mem, b) /\ Typed
  BY DEF Pieces, Sound, Marked
<1>6. /\ b \in Nat /\ b \in Cells /\ Start <= b /\ size \in Nat /\ size >= 2 * Rec
      /\ After(mem, b) = b + size /\ b + size <= end_address /\ end_address <= MaxEnd
      /\ end_address \in Nat /\ MaxEnd \in Nat /\ Start \in Nat /\ Start >= 3 * Rec
      /\ mem \in [Cells -> Cell] /\ \A c \in b .. b + size : c \in Cells /\ mem[c] \in Cell
  BY <1>4, <1>5, InHeap, PageFacts DEF After, Typed
<1>7. /\ footer \in Nat /\ t \in Nat /\ t = b + size /\ footer = t - Rec /\ b < footer /\ t = After(mem, b)
      /\ footer \in Cells /\ t \in Cells
  <2>1. footer \in Nat /\ t \in Nat /\ t = b + size /\ footer = t - Rec /\ b < footer /\ t = After(mem, b)
    BY <1>4, <1>6
  <2>2. footer \in b .. b + size /\ t \in b .. b + size  BY <1>6, <2>1
  <2> QED BY <1>6, <2>1, <2>2
<1>8. \/ h = b /\ \A p \in Vacant : After(mem, p) # b
      \/ h \in Vacant /\ After(mem, h) = b
  BY <1>2, <1>4, LeftIs DEF Pieces
<1>9. /\ h \in Nat /\ h \in Cells /\ Start <= h /\ h <= b /\ mem[h].magic /\ (h # b => h + 2 * Rec <= b)
      /\ h # b => h \in Vacant /\ mem[h].is_hole /\ mem[h].val \in Nat /\ mem[h].val = b - h
  <2>1. CASE h = b  BY <1>5, <1>6, <2>1 DEF Solid
  <2>2. CASE h # b
    <3>1. h \in Vacant /\ h \in Pieces /\ After(mem, h) = b  BY <1>8, <2>2 DEF Vacant
    <3>2. mem[h].magic /\ mem[h].is_hole  BY <3>1 DEF Sound, Marked, Hollow, Fresh
    <3>3. h \in Nat /\ h \in Cells /\ Start <= h /\ h + 2 * Rec <= b /\ mem[h].val \in Nat  BY <3>1, InHeap
    <3>4. mem[h].val = b - h  BY <1>6, <3>1, <3>3 DEF After
    <3> QED BY <1>6, <3>1, <3>2, <3>3, <3>4
  <2> QED BY <2>1, <2>2
<1>10. mem[footer].magic /\ mem[footer].val = b /\ mem[b].magic
  BY <1>5, <1>7 DEF Solid
<1>11. /\ hole \in [Cells -> Cell] /\ hole[b].is_hole /\ hole[b].magic /\ hole[b].val = size
       /\ \A c \in Cells : c # b => hole[c] = mem[c]
  BY <1>4, <1>6, <1>10 DEF Cell
<1> HIDE DEF hole
<1>12. /\ left \in [Cells -> Cell] /\ left[h].magic /\ left[h].is_hole /\ left[h].val = t - h
       /\ left[footer].magic /\ left[footer].val = h
       /\ \A c \in Cells : c < h \/ c >= t => left[c] = mem[c]
       /\ \A c \in Cells : c # h /\ (h # b => c # b /\ c # footer) => left[c] = mem[c]
  <2>0. \A c \in Cells : c < h \/ c >= t => c # h /\ c # b /\ c # footer
    BY <1>6, <1>7, <1>9 DEF Cells
  <2>1. CASE h = b
    <3>1. left = hole  BY <2>1
    <3>2. size = t - h  BY <1>6, <1>7, <2>1
    <3>3. footer # b  BY <1>6, <1>7
    <3> HIDE DEF left
    <3> QED BY <1>7, <1>10, <1>11, <2>0, <2>1, <3>1, <3>2, <3>3
  <2>2. CASE h # b
    <3>1. h # footer /\ b # footer /\ h \in Int /\ size \in Int /\ mem[h].val + size = t - h
      BY <1>6, <1>7, <1>9, <2>2
    <3>2. hole[h] = mem[h] /\ hole[footer] = mem[footer] /\ hole[h].val \in Int
      BY <1>7, <1>9, <1>11, <2>2, <3>1
    <3>3. left = [hole EXCEPT ![footer].val = h, ![h].val = @ + size]
      BY <2>2
    <3> HIDE DEF left
    <3>4. left \in [Cells -> Cell]
      BY <1>7, <1>9, <1>11, <3>1, <3>2, <3>3 DEF Cell
    <3>5. left[footer].magic = hole[footer].magic /\ left[footer].val = h
      BY <1>7, <1>9, <1>11, <3>1, <3>3 DEF Cell
    <3>6. left[h].magic = hole[h].magic /\ left[h].is_hole = hole[h].is_hole /\ left[h].val = hole[h].val + size
      BY <1>7, <1>9, <1>11, <3>1, <3>3 DEF Cell
    <3>7. \A c \in Cells : c # h /\ c # footer => left[c] = hole[c]
      BY <1>11, <3>3
    <3>8. left[h].magic /\ left[h].is_hole /\ left[h].val = t - h
      BY <1>9, <2>2, <3>1, <3>2, <3>6
    <3>9. left[footer].magic /\ left[footer].val = h
      BY <1>10, <3>2, <3>5
    <3> QED BY <1>11, <2>0, <2>2, <3>4, <3>7, <3>8, <3>9
  <2> QED BY <2>1, <2>2
<1>13. left[t] = mem[t] /\ (t # end_address => (right <=> mem[t].magic /\ mem[t].is_hole))
  <2>1. left[t] = mem[t]  BY <1>7, <1>12
  <2> QED BY <2>1 DEF right
<1> HIDE DEF left
<1>14. ~right => t \notin Vacant
  <2>1. ASSUME t \in Vacant PROVE mem[t].magic /\ mem[t].is_hole
    BY <2>1 DEF Sound, Marked, Hollow, Fresh
  <2>2. ASSUME t \in Vacant PROVE t # end_address
    <3>1. t \in Pieces  BY <2>2 DEF Vacant
    <3> QED BY <1>6, <3>1, InHeap
  <2> QED BY <1>13, <2>1, <2>2
<1> DEFINE hi == IF right THEN After(mem, t) ELSE t
<1>15. ASSUME right
       PROVE  /\ t \in Holes /\ t \in Vacant /\ t \in Pieces /\ mem[t].val \in Nat
              /\ After(mem, t) = t + mem[t].val /\ t + 2 * Rec <= After(mem, t) /\ After(mem, t) \in Nat
              /\ \A c \in t .. After(mem, t) : c \in Cells
  <2>1. t \in Holes /\ t \in Pieces /\ t \notin live  BY <1>3, <1>15 DEF Pieces, Sound, Listed
  <2> QED BY <2>1, InHeap DEF Vacant, After
<1>16. /\ hi \in Nat /\ t <= hi /\ last + Rec = hi
       /\ right => hi = After(mem, t)
       /\ ~right => hi = t
  BY <1>7, <1>13, <1>15
<1> HIDE DEF hi, last
<1>17. /\ both \in [Cells -> Cell] /\ both[h].magic /\ both[h].is_hole /\ both[h].val = hi - h
       /\ both[footer].magic /\ both[footer].val = h
       /\ \A c \in Cells : c < h \/ c >= t => both[c] = mem[c]
       /\ \A c \in Cells : c # h /\ (h # b => c # b /\ c # footer) => both[c] = mem[c]
  <2>1. CASE ~right  BY <1>12, <1>16, <2>1
  <2>2. CASE right
    <3> DEFINE n == (t - h) + mem[t].val
               m2 == [left EXCEPT ![h].val = n]
    <3>1. n \in Int /\ n = hi - h
      BY <1>7, <1>9, <1>15, <1>16, <2>2
    <3>2. both = m2
      BY <1>12, <1>13, <2>2
    <3> HIDE DEF n, both
    <3>3. /\ m2 \in [Cells -> Cell]
          /\ m2[h].magic = left[h].magic /\ m2[h].is_hole = left[h].is_hole /\ m2[h].val = n
          /\ \A c \in Cells : c # h => m2[c] = left[c]
      BY <1>9, <1>12, <3>1 DEF Cell
    <3> HIDE DEF m2
    <3>4. footer # h /\ \A c \in Cells : c < h \/ c >= t => c # h
      BY <1>6, <1>7, <1>9 DEF Cells
    <3> QED BY <1>7, <1>12, <3>1, <3>2, <3>3, <3>4
  <2> QED BY <2>1, <2>2
<1> HIDE DEF both
<1>18. After(both, h) = hi /\ h < hi /\ t \in h .. hi
  BY <1>6, <1>7, <1>9, <1>16, <1>17 DEF After
<1>19. Hollow(both, h)
  <2>1. CASE ~right
    <3>1. hi - Rec = footer  BY <1>7, <1>16, <2>1
    <3>2. h \in h .. footer  BY <1>6, <1>7, <1>9
    <3> QED BY <1>17, <1>18, <3>1, <3>2 DEF Hollow
  <2>2. CASE right
    <3>1. Hollow(mem, t)
      <4>1. t # Start  BY <1>6, <1>7
      <4> QED BY <1>15, <2>2, <4>1 DEF Sound, Marked, Fresh
    <3>2. PICK v : v = mem[hi - Rec].val  OBVIOUS
    <3>3. hi = After(mem, t) /\ hi - Rec \in t .. hi /\ hi - Rec >= t
      BY <1>7, <1>15, <1>16, <2>2
    <3>4. mem[hi - Rec].magic /\ v \in t .. hi - Rec /\ mem[v].is_hole
      BY <3>1, <3>2, <3>3 DEF Hollow
    <3>5. v \in t .. hi /\ v >= t /\ v \in h .. hi - Rec
      BY <1>7, <1>9, <1>16, <1>18, <3>4
    <3>6. hi - Rec \in Cells /\ v \in Cells
      BY <1>15, <2>2, <3>3, <3>5
    <3>7. both[hi - Rec] = mem[hi - Rec] /\ both[v] = mem[v]
      BY <1>17, <3>3, <3>5, <3>6
    <3> QED BY <1>17, <1>18, <3>2, <3>4, <3>5, <3>7 DEF Hollow
  <2> QED BY <2>1, <2>2
<1>20. \A c \in Cells : c < h \/ c >= hi => both[c] = mem[c]
  <2>1. \A c \in Cells : c >= hi => c >= t
    BY <1>6, <1>7, <1>16 DEF Cells
  <2> QED BY <1>17, <2>1
<1>21. /\ without \in Seq(Nat) /\ Once(without)
       /\ Range(without) = IF right THEN Holes \ {t} ELSE Holes
  <2>1. index \in Seq(Nat) /\ Once(index)  BY <1>5 DEF Typed, Sound, Listed
  <2>2. CASE right
    <3>1. t \in Range(index)  BY <1>15, <2>2 DEF Holes
    <3> QED BY <2>1, <2>2, <3>1, RemoveItemThere DEF Holes
  <2>3. CASE ~right  BY <2>1, <2>3 DEF Holes
  <2> QED BY <2>2, <2>3
<1> HIDE DEF without
<1>22. /\ index' \in Seq(Nat) /\ Once(index')
       /\ Holes' = (IF right THEN Holes \ {t} ELSE Holes)
                     \cup (IF h = b /\ hi # end_address THEN {h} ELSE {})
  <2>1. CASE h = b /\ hi # end_address
    <3>1. index' = Insert(without, h, both)  BY <1>1, <1>16, <2>1
    <3>2. h \notin Holes  BY <2>1 DEF Sound, Listed
    <3>3. h \notin Range(without) /\ Range(without) \subseteq Pieces  BY <1>21, <3>2 DEF Pieces
    <3>4. both[h].val \in Int  BY <1>9, <1>17 DEF Cell
    <3>5. \A i \in DOMAIN without : both[without[i]].val \in Int
      <4>1. \A i \in DOMAIN without : without[i] \in Cells  BY <3>3, InHeap DEF Range
      <4> QED BY <1>17, <4>1 DEF Cell
    <3>6. index' \in Seq(Nat) /\ Once(index') /\ Range(index') = Range(without) \cup {h}
      BY <1>9, <1>21, <3>1, <3>3, <3>4, <3>5, InsertItem
    <3> QED BY <1>21, <2>1, <3>6 DEF Holes
  <2>2. CASE ~(h = b /\ hi # end_address)
    <3>1. index' = without  BY <1>1, <1>16, <2>2
    <3> QED BY <1>21, <2>2, <3>1 DEF Holes
  <2> QED BY <2>1, <2>2
<1>23. frame \in Frame /\ frame.header = h /\ (frame.do_add <=> h = b) /\ Records(frame, b, t)
  <2>1. mem[b + 2 * Rec] \in Cell
    <3>1. b + 2 * Rec \in b .. b + size  BY <1>6
    <3> QED BY <1>6, <3>1
  <2>2. end_address - Start \in Int /\ (IF monitor THEN Marks ELSE 0) \in Int
    BY <1>6, HeapAssumption
  <2> QED BY <1>6, <1>7, <1>9, <2>1, <2>2 DEF Frame, Records
<1> HIDE DEF frame
<1>24. frames' = IF hi = end_address THEN Append(suspended, frame) ELSE suspended
  BY <1>1, <1>16
<1>25. Freed(b, h, t, hi, right, suspended)
  BY <1>1, <1>3, <1>7, <1>8, <1>14, <1>16, <1>17, <1>19, <1>20, <1>22, <1>23, <1>24 DEF Freed
<1> QED BY <1>25

\* A suspended call goes on with what it knew.
Resumes(f, g) ==
  /\ f.block = g.block /\ f.test_header = g.test_header /\ f.old_length = g.old_length
  /\ f.kept = g.kept /\ f.marks <= g.marks

\* The frames under the call of free() that ends now: none, or those that wait for it.
Waiting(b, suspended) ==
  \/ frames = <<>> /\ suspended = <<>>
  \/ /\ frames # <<>> /\ entry = b /\ entry # 0
     /\ suspended \in Seq(Frame) /\ Len(suspended) = Len(frames)
     /\ \A i \in 1 .. Len(frames) : /\ suspended[i].header = frames[i].header
                                    /\ suspended[i].do_add <=> frames[i].do_add
                                    /\ Resumes(suspended[i], frames[i])

\* The frames after a call of free(): one more when the hole ends the heap.
LEMMA FramesAfter ==
  ASSUME Typed, Suspended, NEW b, NEW suspended, Waiting(b, suspended), NEW frame \in Frame, NEW push,
         frames' = IF push THEN Append(suspended, frame) ELSE suspended,
         push /\ frames # <<>> => frame.header = Top.header,
         push /\ frame.do_add => ~Adding
  PROVE  /\ frames' \in Seq(Frame)
         /\ \A i, j \in DOMAIN frames' : frames'[i].header = frames'[j].header
         /\ \A i, j \in DOMAIN frames' : frames'[i].do_add /\ frames'[j].do_add => i = j
         /\ Adding' <=> Adding \/ (push /\ frame.do_add)
         /\ push => frames' # <<>> /\ Top'.header = frame.header
         /\ ~push => (frames' = <<>> <=> frames = <<>>) /\ (frames # <<>> => Top'.header = Top.header)
<1>1. PICK n : n = Len(frames)
  OBVIOUS
<1>2. n \in Nat /\ DOMAIN frames = 1 .. n /\ (frames = <<>> <=> n = 0) /\ frames \in Seq(Frame)
  BY <1>1 DEF Typed
<1>3. /\ suspended \in Seq(Frame) /\ Len(suspended) = n
      /\ \A i \in 1 .. n : /\ suspended[i].header = frames[i].header
                           /\ suspended[i].do_add <=> frames[i].do_add
  <2>1. CASE frames = <<>> /\ suspended = <<>>
    BY <1>1, <1>2, <2>1, EmptySeq
  <2>2. CASE frames # <<>>
    BY <1>1, <2>2 DEF Waiting
  <2> QED BY <2>1, <2>2 DEF Waiting
<1>4. /\ \A i, j \in 1 .. n : frames[i].header = frames[j].header
      /\ \A i, j \in 1 .. n : frames[i].do_add /\ frames[j].do_add => i = j
      /\ Adding <=> \E i \in 1 .. n : frames[i].do_add
      /\ n # 0 => Top.header = frames[n].header
  BY <1>1, <1>2 DEF Suspended, Adding, Top
<1>5. CASE ~push
  <2>1. frames' = suspended /\ DOMAIN frames' = 1 .. n /\ Len(frames') = n /\ (frames' = <<>> <=> n = 0)
    BY <1>2, <1>3, <1>5
  <2>2. Adding' <=> \E i \in 1 .. n : frames'[i].do_add
    BY <2>1 DEF Adding
  <2>3. n # 0 => Top'.header = frames'[n].header
    BY <2>1 DEF Top
  <2>4. n # 0 => n \in 1 .. n
    BY <1>2
  <2> QED BY <1>2, <1>3, <1>4, <1>5, <2>1, <2>2, <2>3, <2>4
<1>6. CASE push
  <2>1. frames' = Append(suspended, frame)
    BY <1>6
  <2>2. /\ frames' \in Seq(Frame) /\ Len(frames') = n + 1
        /\ \A i \in 1 .. n : frames'[i] = suspended[i]
        /\ frames'[n + 1] = frame
    BY <1>2, <1>3, <2>1, AppendProperties
  <2>3. DOMAIN frames' = 1 .. n + 1 /\ frames' # <<>>
    BY <1>2, <2>2
  <2>4. \A i \in 1 .. n + 1 : i = n + 1 \/ i \in 1 .. n
    BY <1>2
  <2>5. \A i \in 1 .. n + 1 : frames'[i].header = frame.header
    <3>1. ASSUME NEW i \in 1 .. n PROVE frames'[i].header = frame.header
      <4>1. n # 0 /\ n \in 1 .. n  BY <1>2
      <4>2. frames[i].header = Top.header  BY <1>4, <4>1
      <4>3. frame.header = Top.header  BY <1>2, <1>6, <4>1
      <4> QED BY <1>3, <2>2, <4>2, <4>3
    <3> QED BY <2>2, <2>4, <3>1
  <2>6. Top'.header = frame.header
    BY <2>2 DEF Top
  <2>7. Adding' <=> \E i \in 1 .. n + 1 : frames'[i].do_add
    BY <2>3 DEF Adding
  <2>8. \A i \in 1 .. n : i \in 1 .. n + 1 /\ (frames'[i].do_add <=> frames[i].do_add)
    BY <1>2, <1>3, <2>2
  <2>9. n + 1 \in 1 .. n + 1
    BY <1>2
  <2>10. Adding' <=> Adding \/ frame.do_add
    BY <1>4, <2>2, <2>4, <2>7, <2>8, <2>9
  <2>11. ASSUME NEW i \in 1 .. n + 1, NEW j \in 1 .. n + 1, frames'[i].do_add, frames'[j].do_add
         PROVE  i = j
    BY <1>4, <1>6, <2>2, <2>4, <2>8, <2>11
  <2> QED BY <1>6, <2>2, <2>3, <2>5, <2>6, <2>10, <2>11
<1> QED BY <1>5, <1>6

\* How the hole of the suspended calls meets the block that is freed: it stays apart, or
\* the block was taken from it or from behind it, and what results ends the heap.
LEMMA Meets ==
  ASSUME Sound, request = None, NEW b \in live, NEW h, NEW t, NEW hi, NEW right, NEW suspended,
         Freed(b, h, t, hi, right, suspended), entry = b, entry # 0, frames # <<>>
  PROVE  \/ /\ Resting /\ hi # end_address /\ Top.header # b /\ Top.header # h
            /\ right => Top.header # t
         \/ /\ Top.header = h /\ hi = end_address /\ h \notin Holes
            /\ h = b <=> ~Adding
<1>0. PICK H, e : H = Top.header /\ e = end_address
  OBVIOUS
<1>1. /\ t = After(mem, b)
      /\ \/ h = b /\ \A p \in Vacant : After(mem, p) # b
         \/ h \in Vacant /\ After(mem, h) = b
      /\ right => t \in Holes /\ hi = After(mem, t)
      /\ ~right => hi = t /\ t \notin Vacant
  BY DEF Freed
<1>2. b \in Pieces /\ H \in Pieces /\ (right => t \in Pieces) /\ (h # b => h \in Pieces)
  BY <1>0, <1>1, PiecesAre DEF Sound, Pieces, Vacant
<1>3. b \in Nat /\ t \in Nat /\ b < t /\ t <= e /\ e \in Nat /\ b < e
  BY <1>0, <1>1, <1>2, InHeap DEF Sound, Typed
<1>4. \A s \in Holes : s \in Vacant
  BY DEF Vacant, Pieces, Sound, Listed
<1>5. ASSUME Ends(b) PROVE hi = e
  <2>1. CASE t = e
    <3>1. t \notin Holes
      <4>1. t \in Holes => t \in Pieces  BY DEF Pieces
      <4>2. t \in Pieces => t < e  BY <1>0, InHeap
      <4> QED BY <1>3, <2>1, <4>1, <4>2
    <3> QED BY <1>1, <2>1, <3>1
  <2>2. CASE t \in Holes /\ After(mem, t) = e
    BY <1>1, <1>4, <2>2
  <2> QED BY <1>0, <1>1, <1>5, <2>1, <2>2 DEF Ends
<1>6. CASE Resting
  <2>1. H \notin live /\ After(mem, H) = e /\ t # H
    BY <1>0, <1>1, <1>6 DEF Resting
  <2>2. H # b  BY <2>1
  <2>3. H # h
    BY <1>1, <1>3, <2>1, <2>2
  <2>4. hi # e
    <3>1. CASE right
      BY <1>1, <1>2, <2>1, <3>1, OneBefore
    <3>2. CASE ~right
      BY <1>1, <1>2, <2>1, <2>2, <3>2, OneBefore
    <3> QED BY <3>1, <3>2
  <2> QED BY <1>0, <1>6, <2>1, <2>2, <2>3, <2>4
<1>7. CASE Inside
  <2>1. H = b /\ ~Adding /\ Ends(b) /\ \A s \in Vacant : After(mem, s) # b
    BY <1>0, <1>7 DEF Inside
  <2>2. h = b  BY <1>1, <2>1
  <2>3. b \notin Holes  BY DEF Sound, Listed
  <2> QED BY <1>0, <1>5, <2>1, <2>2, <2>3
<1>8. CASE Behind
  <2>1. After(mem, H) = b /\ Adding /\ H \notin Holes \cup live /\ Ends(b)
    BY <1>0, <1>8 DEF Behind
  <2>2. H \in Vacant  BY <1>2, <2>1 DEF Vacant
  <2>3. h \in Vacant /\ After(mem, h) = b  BY <1>1, <2>1, <2>2
  <2>4. h = H  BY <1>2, <2>1, <2>3, OneBefore DEF Vacant
  <2>5. h # b  BY <2>3 DEF Vacant
  <2> QED BY <1>0, <1>5, <2>1, <2>4, <2>5
<1>9. ~Grown  BY DEF Grown
<1> QED BY <1>6, <1>7, <1>8, <1>9 DEF Sound, Suspended

LEMMA FreedSound ==
  ASSUME Sound, request = None, NEW b \in live, NEW h, NEW t, NEW hi, NEW right, NEW suspended,
         Freed(b, h, t, hi, right, suspended), Waiting(b, suspended), entry' = 0
  PROVE  Sound'
<1>0. PICK e : e = end_address
  OBVIOUS
<1>1. /\ t = After(mem, b) /\ hi \in Nat
      /\ \/ h = b /\ \A p \in Vacant : After(mem, p) # b
         \/ h \in Vacant /\ After(mem, h) = b
      /\ right => t \in Holes /\ hi = After(mem, t)
      /\ ~right => hi = t /\ t \notin Vacant
      /\ live' = live \ {b}
      /\ index' \in Seq(Nat) /\ Once(index')
      /\ Holes' = (IF right THEN Holes \ {t} ELSE Holes) \cup (IF h = b /\ hi # e THEN {h} ELSE {})
      /\ end_address' = e /\ UNCHANGED <<slack, monitor, request>>
  BY <1>0 DEF Freed
<1>2. /\ mem' \in [Cells -> Cell]
      /\ \A c \in Cells : c < h \/ c >= hi => mem'[c] = mem[c]
      /\ mem'[h].val = hi - h /\ Hollow(mem', h)
  BY DEF Freed
<1>3. Typed /\ Suspended /\ Holes \cap live = {}
  BY DEF Sound, Listed
<1>4. /\ b \in Pieces /\ (right => t \in Pieces /\ t \in Vacant)
      /\ (h # b => h \in Pieces /\ h \in Vacant /\ h \notin live) /\ h \in Pieces
  BY <1>1, <1>3 DEF Pieces, Vacant
<1>5. /\ b \in Nat /\ t \in Nat /\ h \in Nat /\ hi \in Nat /\ Start <= h /\ h <= b /\ b + 2 * Rec <= t /\ t <= hi /\ hi <= e
      /\ (h # b => h + 2 * Rec <= b) /\ h + 2 * Rec <= hi
      /\ e \in Nat /\ e <= MaxEnd /\ Start \in Nat /\ Start >= 3 * Rec /\ MaxEnd \in Nat
  <2>1. b \in Nat /\ t \in Nat /\ b + 2 * Rec <= t /\ t <= e /\ Start <= b
    BY <1>0, <1>1, <1>4, InHeap
  <2>2. e \in Nat /\ e <= MaxEnd /\ Start \in Nat /\ Start >= 3 * Rec /\ MaxEnd \in Nat
    BY <1>0, <1>3, PageFacts DEF Typed
  <2>3. t <= hi /\ hi <= e
    <3>1. CASE right
      <4>1. t + 2 * Rec <= After(mem, t) /\ After(mem, t) <= e  BY <1>0, <1>4, <3>1, InHeap
      <4> QED BY <1>1, <2>1, <3>1, <4>1
    <3>2. CASE ~right  BY <1>1, <2>1, <3>2
    <3> QED BY <3>1, <3>2
  <2>4. h \in Nat /\ Start <= h /\ h <= b /\ (h # b => h + 2 * Rec <= b)
    <3>1. CASE h = b  BY <2>1, <3>1
    <3>2. CASE h # b
      <4>1. After(mem, h) = b  BY <1>1, <3>2
      <4>2. h \in Nat /\ Start <= h /\ h + 2 * Rec <= b  BY <1>4, <3>2, <4>1, InHeap
      <4> QED BY <2>1, <4>2
    <3> QED BY <3>1, <3>2
  <2> QED BY <1>1, <2>1, <2>2, <2>3, <2>4
<1> DEFINE T == IF right THEN {t} ELSE {}
           R == {b, h} \cup T
<1>6. ASSUME NEW s \in Pieces, s \notin R
      PROVE  /\ s \in Nat /\ s < e /\ Start <= s /\ mem[s].val \in Nat /\ mem[s].val >= 2 * Rec
             /\ After(mem, s) \in Nat /\ After(mem, s) <= e /\ s + 2 * Rec <= After(mem, s)
             /\ After(mem, s) <= h \/ hi <= s
             /\ \A c \in s .. After(mem, s) - Rec : mem'[c] = mem[c]
             /\ mem'[s].val = mem[s].val /\ After(mem', s) = After(mem, s)
  <2>1. /\ s \in Nat /\ s \in Cells /\ s < e /\ Start <= s /\ mem[s].val \in Nat /\ mem[s].val >= 2 * Rec
        /\ After(mem, s) \in Nat /\ After(mem, s) <= e /\ s + 2 * Rec <= After(mem, s)
        /\ \A c \in s .. After(mem, s) : c \in Cells
    BY <1>0, InHeap
  <2>2. s # b /\ s # h /\ (right => s # t)
    BY <1>6
  <2>3. After(mem, s) <= b \/ t <= s
    BY <1>1, <1>4, <2>2, InHeap
  <2>4. After(mem, s) <= h \/ t <= s
    <3>1. CASE h = b  BY <2>3, <3>1
    <3>2. CASE h # b
      <4>1. After(mem, s) <= h \/ b <= s  BY <1>1, <1>4, <2>2, <3>2, InHeap
      <4> QED BY <1>5, <2>1, <2>3, <4>1
    <3> QED BY <3>1, <3>2
  <2>5. After(mem, s) <= h \/ hi <= s
    <3>1. CASE right
      <4>1. After(mem, s) <= t \/ hi <= s  BY <1>1, <1>4, <2>2, <3>1, InHeap
      <4> QED BY <1>5, <2>1, <2>4, <4>1
    <3>2. CASE ~right  BY <1>1, <2>4, <3>2
    <3> QED BY <3>1, <3>2
  <2>6. \A c \in s .. After(mem, s) - Rec : c \in Cells /\ (c < h \/ c >= hi)
    BY <1>5, <2>1, <2>5
  <2>7. \A c \in s .. After(mem, s) - Rec : mem'[c] = mem[c]
    BY <1>2, <2>6
  <2>8. mem'[s] = mem[s]
    <3>1. s \in s .. After(mem, s) - Rec  BY <2>1
    <3> QED BY <2>7, <3>1
  <2> QED BY <2>1, <2>5, <2>7, <2>8 DEF After
<1>7. \/ frames = <<>>
      \/ /\ frames # <<>> /\ Resting /\ hi # e /\ Top.header \notin R
      \/ /\ frames # <<>> /\ Top.header = h /\ hi = e /\ h \notin Holes /\ (h = b <=> ~Adding)
  <2>1. CASE frames # <<>>
    <3>1. entry = b /\ entry # 0  BY <2>1 DEF Waiting
    <3> QED BY <1>0, <2>1, <3>1, Meets
  <2> QED BY <2>1
<1>8. PICK frame \in Frame : /\ frame.header = h /\ (frame.do_add <=> h = b)
                             /\ frames' = IF hi = e THEN Append(suspended, frame) ELSE suspended
  BY <1>0 DEF Freed
<1>9. /\ frames' \in Seq(Frame)
      /\ \A i, j \in DOMAIN frames' : frames'[i].header = frames'[j].header
      /\ \A i, j \in DOMAIN frames' : frames'[i].do_add /\ frames'[j].do_add => i = j
      /\ Adding' <=> Adding \/ (hi = e /\ h = b)
      /\ hi = e => frames' # <<>> /\ Top'.header = h
      /\ hi # e => (frames' = <<>> <=> frames = <<>>) /\ (frames # <<>> => Top'.header = Top.header)
  <2>1. hi = e /\ frames # <<>> => frame.header = Top.header
    BY <1>7, <1>8
  <2>2. hi = e /\ frame.do_add => ~Adding
    <3>1. frames = <<>> => ~Adding  BY DEF Adding
    <3> QED BY <1>7, <1>8, <3>1
  <2>3. PICK push : push = (hi = e)
    OBVIOUS
  <2>4. /\ frames' = IF push THEN Append(suspended, frame) ELSE suspended
        /\ push /\ frames # <<>> => frame.header = Top.header
        /\ push /\ frame.do_add => ~Adding
    BY <1>8, <2>1, <2>2, <2>3
  <2>5. /\ frames' \in Seq(Frame)
        /\ \A i, j \in DOMAIN frames' : frames'[i].header = frames'[j].header
        /\ \A i, j \in DOMAIN frames' : frames'[i].do_add /\ frames'[j].do_add => i = j
        /\ Adding' <=> Adding \/ (push /\ frame.do_add)
        /\ push => frames' # <<>> /\ Top'.header = frame.header
        /\ ~push => (frames' = <<>> <=> frames = <<>>) /\ (frames # <<>> => Top'.header = Top.header)
    BY <1>3, <2>4, FramesAfter
  <2> QED BY <1>8, <2>3, <2>5
<1> DEFINE D == {f.header : f \in Range(frames)}
<1>10. /\ D = IF frames = <<>> THEN {} ELSE {Top.header}
       /\ D' = IF frames' = <<>> THEN {} ELSE {Top'.header}
  <2>1. D = IF frames = <<>> THEN {} ELSE {Top.header}
    BY <1>3, HeadersAre DEF Typed, Suspended, Top
  <2>2. D' = IF frames' = <<>> THEN {} ELSE {frames'[Len(frames')].header}
    BY <1>9, HeadersAre
  <2>3. Top' = frames'[Len(frames')]
    BY DEF Top
  <2> QED BY <2>1, <2>2, <2>3
<1>11. Pieces = live \cup Holes \cup D /\ Pieces' = (live \ {b}) \cup Holes' \cup D'
  BY <1>1 DEF Pieces
<1> HIDE DEF D
<1>12. Pieces' = (Pieces \ R) \cup {h}
  <2>1. D \subseteq D' /\ D \subseteq (Pieces \ R) \cup {h} /\ D' \subseteq D \cup {h} /\ (hi = e => h \in D')
    BY <1>7, <1>9, <1>10, <1>11
  <2>2. h \in Pieces'
    <3>1. CASE hi = e  BY <1>11, <2>1, <3>1
    <3>2. CASE hi # e /\ h = b  BY <1>1, <1>11, <3>2
    <3>3. CASE hi # e /\ h # b
      <4>1. h \in Holes \/ h \in D  BY <1>4, <1>11, <3>3
      <4>2. h # t  BY <1>5
      <4>3. h \in Holes => h \in Holes'  BY <1>1, <4>2
      <4> QED BY <1>11, <2>1, <4>1, <4>3
    <3> QED BY <3>1, <3>2, <3>3
  <2>3. ASSUME NEW s \in Pieces, s \notin R PROVE s \in Pieces'
    <3>1. s # b /\ (right => s # t)  BY <2>3
    <3>2. s \in Holes => s \in Holes'  BY <1>1, <3>1
    <3> QED BY <1>11, <2>1, <3>1, <3>2
  <2>4. ASSUME NEW s \in Pieces', s # h PROVE s \in Pieces /\ s \notin R
    <3>1. CASE s \in live \ {b}
      <4>1. right => s # t  BY <1>1, <1>3, <3>1
      <4> QED BY <1>11, <2>4, <3>1, <4>1
    <3>2. CASE s \in Holes'
      <4>1. s \in Holes /\ (right => s # t)  BY <1>1, <2>4, <3>2
      <4>2. s # b  BY <1>3, <4>1
      <4> QED BY <1>11, <2>4, <4>1, <4>2
    <3>3. CASE s \in D'
      BY <1>11, <2>1, <2>4, <3>3
    <3> QED BY <1>11, <3>1, <3>2, <3>3
  <2> QED BY <2>2, <2>3, <2>4
<1>13. Vacant' = (Vacant \ R) \cup {h}
  <2>1. h \notin live'  BY <1>1, <1>4
  <2>2. \A s \in Pieces \ R : s \in live <=> s \in live'  BY <1>1
  <2> QED BY <1>12, <2>1, <2>2 DEF Vacant
<1>14. Typed'
  <2>1. mem' \in [Cells -> Cell] /\ index' \in Seq(Nat) /\ frames' \in Seq(Frame)
    BY <1>1, <1>2, <1>9
  <2>2. /\ end_address' = end_address /\ slack' = slack /\ monitor' = monitor /\ request' = None
        /\ live' \subseteq live /\ entry' \in Nat
    BY <1>0, <1>1
  <2> QED BY <1>3, <2>1, <2>2 DEF Typed
<1>15. Tiles(Pieces, mem, end_address)'
  <2>1. Tiles((Pieces \ R) \cup {h}, mem', e)
    <3>1. \A s \in Pieces : mem[s].val \in Int  BY InHeap
    <3>2. Tiles(Pieces, mem, e)  BY <1>0 DEF Sound
    <3>3. \A s \in R : h <= s /\ After(mem, s) <= hi
      <4>1. h <= b /\ After(mem, b) <= hi  BY <1>1, <1>5
      <4>2. h <= h /\ After(mem, h) <= hi  BY <1>1, <1>5
      <4>3. right => h <= t /\ After(mem, t) <= hi  BY <1>1, <1>5
      <4> QED BY <4>1, <4>2, <4>3
    <3>4. \A s \in Pieces \ R : After(mem, s) <= h \/ hi <= s  BY <1>6
    <3>5. \A s \in Pieces \ R : mem'[s].val = mem[s].val  BY <1>6
    <3>6. R \subseteq Pieces /\ h <= hi  BY <1>4, <1>5
    <3> HIDE DEF R
    <3> QED BY <1>1, <1>2, <1>5, <3>1, <3>2, <3>3, <3>4, <3>5, <3>6, OnePiece
  <2> QED BY <1>1, <1>12, <2>1
<1>16. Marked'
  <2>1. ~mem'[Start - Rec].magic
    <3>1. Start - Rec \in Cells /\ Start - Rec < h  BY <1>5 DEF Cells
    <3> QED BY <1>2, <3>1 DEF Sound, Marked
  <2>2. ASSUME NEW s \in live, s # b PROVE Solid(mem', s)
    <3>1. s \in Pieces /\ s \notin R /\ Solid(mem, s)
      BY <1>1, <1>3, <1>4, <2>2 DEF Sound, Marked, Pieces
    <3> QED BY <1>6, <3>1, SolidKept
  <2>3. ASSUME NEW s \in Vacant, s \notin R PROVE Hollow(mem', s)
    <3>1. s \in Pieces  BY DEF Vacant
    <3>2. ~(s = Start /\ After(mem, s) = e)  BY <1>5, <1>6, <2>3, <3>1
    <3>3. Hollow(mem, s)  BY <1>0, <3>2 DEF Sound, Marked, Fresh
    <3> QED BY <1>6, <2>3, <3>1, <3>3, HollowKept
  <2> QED BY <1>1, <1>2, <1>13, <2>1, <2>2, <2>3 DEF Marked
<1>17. Listed' /\ Called'
  <2>1. Holes' \cap live' = {}
    BY <1>1, <1>3
  <2> QED BY <1>1, <2>1 DEF Listed, Called
<1>18. ASSUME frames' # <<>> PROVE Resting'
  <2>1. After(mem', h) = hi
    BY <1>2, <1>5 DEF After
  <2>2. CASE hi = e
    <3>1. Top'.header = h /\ h \notin live'  BY <1>1, <1>4, <1>9, <2>2
    <3>2. h \in Holes' <=> h \in Holes
      <4>1. h # t  BY <1>5
      <4> QED BY <1>1, <2>2, <4>1
    <3>3. h \in Holes <=> ~Adding'
      <4>1. CASE frames = <<>>
        <5>1. ~Adding  BY <4>1 DEF Adding
        <5>2. h \in Holes <=> h # b  BY <1>3, <1>4, <1>10, <1>11, <4>1
        <5> QED BY <1>9, <2>2, <5>1, <5>2
      <4>2. CASE frames # <<>>  BY <1>7, <1>9, <2>2, <4>2
      <4> QED BY <4>1, <4>2
    <3> QED BY <1>1, <2>1, <2>2, <3>1, <3>2, <3>3 DEF Resting
  <2>3. CASE hi # e
    <3>0. PICK H : H = Top.header  OBVIOUS
    <3>1. frames # <<>> /\ Resting /\ H \notin R /\ Top'.header = H
      BY <1>7, <1>9, <1>18, <2>3, <3>0
    <3>2. H \in Pieces  BY <1>10, <1>11, <3>0, <3>1
    <3>3. H \notin live /\ After(mem, H) = e /\ (H \in Holes <=> ~Adding)
      BY <1>0, <3>0, <3>1 DEF Resting
    <3>4. After(mem', H) = e  BY <1>6, <3>1, <3>2, <3>3
    <3>5. H \in Holes' <=> H \in Holes  BY <1>1, <3>1
    <3>6. Adding' <=> Adding  BY <1>9, <2>3
    <3> QED BY <1>1, <3>1, <3>3, <3>4, <3>5, <3>6 DEF Resting
  <2> QED BY <2>2, <2>3
<1>19. Suspended'
  BY <1>9, <1>18 DEF Suspended
<1>20. Apart'
  <2>1. ASSUME NEW s \in Vacant', NEW u \in Vacant', After(mem', s) = u PROVE FALSE
    <3>1. CASE s # h
      <4>1. s \in Vacant /\ s \notin R /\ s \in Pieces  BY <1>13, <3>1 DEF Vacant
      <4>2. After(mem, s) = u  BY <1>6, <2>1, <4>1
      <4>3. u \in Vacant \/ (u = h /\ h = b)  BY <1>4, <1>13
      <4> QED BY <1>1, <4>1, <4>2, <4>3, NoneAdjacent
    <3>2. CASE s = h
      <4>1. u = hi  BY <1>2, <1>5, <2>1, <3>2 DEF After
      <4>2. u # h  BY <1>5, <4>1
      <4>3. u \in Vacant  BY <1>13, <4>2
      <4>4. CASE right  BY <1>1, <1>4, <4>1, <4>3, <4>4, NoneAdjacent
      <4>5. CASE ~right  BY <1>1, <4>1, <4>3, <4>5
      <4> QED BY <4>4, <4>5
    <3> QED BY <3>1, <3>2
  <2> QED BY <2>1 DEF Apart
<1> QED BY <1>14, <1>15, <1>16, <1>17, <1>19, <1>20 DEF Sound

-----------------------------------------------------------------------------
\* Every step

LEMMA KfreeSound ==
  ASSUME Sound, NEW b \in live, NEW seen \in BOOLEAN, defect = "none", Kfree(b, seen), defect' = "none"
  PROVE  Sound'
<1>1. request = None /\ frames = <<>> /\ Free(b, frames, seen) /\ entry' = entry
  BY DEF Kfree, Busy
<1>2. entry' = 0
  BY <1>1 DEF Sound, Called
<1>3. Waiting(b, frames)
  BY <1>1 DEF Waiting
<1>4. PICK h, t, hi, right : Freed(b, h, t, hi, right, frames)
  BY <1>1, FreeFacts
<1> QED BY <1>1, <1>2, <1>3, <1>4, FreedSound

\* unlock() resumes the calls that the report suspended, one character less to print.
LEMMA UnlockFrees ==
  ASSUME Sound, NEW seen \in BOOLEAN, ReportUnlock(seen)
  PROVE  /\ entry # 0 /\ entry' = 0 /\ request = None /\ frames # <<>> /\ entry \in live
         /\ \E suspended : Free(entry, suspended, seen) /\ Waiting(entry, suspended)
<1> DEFINE suspended == [frames EXCEPT ![Len(frames)].marks = @ - 1]
<1>1. entry # 0 /\ entry' = 0 /\ Free(entry, suspended, seen)
  BY DEF ReportUnlock
<1>2. request = None /\ frames # <<>> /\ entry \in live /\ Typed
  BY <1>1 DEF Sound, Called
<1>3. Waiting(entry, suspended)
  <2>1. PICK n : n = Len(frames)
    OBVIOUS
  <2>2. n \in Nat /\ n \in 1 .. n /\ DOMAIN frames = 1 .. n /\ \A i \in 1 .. n : frames[i] \in Frame
    BY <1>2, <2>1 DEF Typed
  <2>3. suspended = [i \in 1 .. n |-> IF i = n THEN [frames[n] EXCEPT !.marks = @ - 1] ELSE frames[i]]
    BY <1>2, <2>1, <2>2
  <2> HIDE DEF suspended
  <2>4. [frames[n] EXCEPT !.marks = @ - 1] \in Frame
    BY <2>2, SMTT(30) DEF Frame
  <2>5. [frames[n] EXCEPT !.marks = @ - 1].header = frames[n].header
        /\ [frames[n] EXCEPT !.marks = @ - 1].do_add = frames[n].do_add
        /\ Resumes([frames[n] EXCEPT !.marks = @ - 1], frames[n])
    BY <2>2 DEF Frame, Resumes
  <2>6. \A i \in 1 .. n : suspended[i] \in Frame
    BY <2>2, <2>3, <2>4
  <2>7. suspended \in Seq(Frame) /\ Len(suspended) = n
    <3>1. suspended \in [1 .. n -> Frame]
      BY <2>3, <2>6
    <3> QED BY <2>2, <3>1, SeqDef
  <2>8. \A i \in 1 .. n : /\ suspended[i].header = frames[i].header
                          /\ suspended[i].do_add <=> frames[i].do_add
                          /\ Resumes(suspended[i], frames[i])
    <3>1. \A i \in 1 .. n : Resumes(frames[i], frames[i])
      <4>1. \A f \in Frame : f.marks \in Int
        BY DEF Frame
      <4>2. \A f \in Frame : f.marks <= f.marks
        BY <4>1
      <4> QED BY <2>2, <4>2 DEF Resumes
    <3>2. \A i \in 1 .. n : i # n => suspended[i] = frames[i]
      BY <2>3
    <3>3. suspended[n] = [frames[n] EXCEPT !.marks = @ - 1]
      BY <2>2, <2>3
    <3> QED BY <2>5, <3>1, <3>2, <3>3
  <2> QED BY <1>1, <1>2, <2>1, <2>7, <2>8 DEF Waiting
<1> QED BY <1>1, <1>2, <1>3

LEMMA UnlockSound ==
  ASSUME Sound, NEW seen \in BOOLEAN, defect = "none", ReportUnlock(seen), defect' = "none"
  PROVE  Sound'
<1>1. PICK suspended : Free(entry, suspended, seen) /\ Waiting(entry, suspended)
  BY UnlockFrees
<1>2. entry \in live /\ request = None /\ entry' = 0
  BY UnlockFrees
<1>3. PICK h, t, hi, right : Freed(entry, h, t, hi, right, suspended)
  BY <1>1, <1>2, FreeFacts
<1> QED BY <1>1, <1>2, <1>3, FreedSound

LEMMA StepSound ==
  ASSUME HeapInv, [Next]_vars
  PROVE  HeapInv'
<1>1. CASE UNCHANGED vars
  <2>1. Sound' <=> Sound
    BY <1>1 DEF vars, Sound, Typed, Tiles, After, Listed, Holes, Once, Marked, Vacant, Pieces, Solid, Hollow,
       Fresh, Suspended, Adding, Ends, Resting, Grown, Inside, Behind, Top, Called, Apart
  <2> QED BY <1>1, <2>1 DEF vars, HeapInv
<1>2. CASE Next
  <2>0. SUFFICES ASSUME defect' = "none" PROVE Sound'
    BY DEF HeapInv
  <2>1. defect = "none" /\ Sound
    BY <1>2 DEF Next, HeapInv
  <2>2. CASE MonitorInit
    BY <2>1, <2>2, RequestSound DEF MonitorInit
  <2>3. ASSUME NEW size \in Sizes, NEW align \in BOOLEAN, Kmalloc(size, align) PROVE Sound'
    <3>1. request = None /\ frames = <<>>
      BY <2>3 DEF Kmalloc, Busy
    <3>2. entry = 0 /\ monitor \in BOOLEAN
      BY <2>1, <3>1 DEF Sound, Called, Typed
    <3>3. request' = [size |-> size, align |-> align, owner |-> "caller"]
      BY <2>3 DEF Kmalloc
    <3>4. size \in Nat \ {0}
      BY HeapAssumption
    <3>5. /\ request' \in [size : Nat \ {0}, align : BOOLEAN, owner : {"caller", "lock"}]
          /\ request'.owner = "caller"
      BY <3>3, <3>4
    <3> QED BY <2>1, <2>3, <3>1, <3>2, <3>5, RequestSound DEF Kmalloc
  <2>4. CASE Expand
    BY <2>0, <2>1, <2>4, ExpandNew, ExpandOld
  <2>5. ASSUME NEW stored \in BOOLEAN, Place(stored) PROVE Sound'
    <3>1. PICK h, front, size, rest : Placed(h, front, size, rest)
      BY <2>0, <2>1, <2>5, PlaceFacts
    <3>2. request # None
      BY <2>5 DEF Place
    <3> QED BY <2>1, <3>1, <3>2, PlacedSound
  <2>6. ASSUME NEW b \in live, NEW seen \in BOOLEAN, Kfree(b, seen) PROVE Sound'
    BY <2>0, <2>1, <2>6, KfreeSound
  <2>7. CASE ReportLock
    <3>1. /\ request' = [size |-> Rec, align |-> FALSE, owner |-> "lock"]
          /\ request = None /\ entry = 0 /\ frames # <<>>
      BY <2>7 DEF ReportLock
    <3>2. /\ request' \in [size : Nat \ {0}, align : BOOLEAN, owner : {"caller", "lock"}]
          /\ ~request'.align /\ request'.owner = "lock"
      BY <3>1
    <3>3. monitor \in BOOLEAN
      BY <2>1 DEF Sound, Typed
    <3> QED BY <2>1, <2>7, <3>1, <3>2, <3>3, RequestSound DEF ReportLock
  <2>8. ASSUME NEW seen \in BOOLEAN, ReportUnlock(seen) PROVE Sound'
    BY <2>0, <2>1, <2>8, UnlockSound
  <2>9. CASE Contract
    BY <2>0, <2>1, <2>9, ContractSound
  <2> QED BY <1>2, <2>2, <2>3, <2>4, <2>5, <2>6, <2>7, <2>8, <2>9 DEF Next
<1> QED BY <1>1, <1>2

\* Until one of the named conditions is met, the heap is sound: kmalloc(), kfree() and
\* the allocations and releases that contract() makes in the middle of free() keep
\* the tiling, the marks of every piece and the one hole of the suspended calls.
THEOREM HeapInvariant == Spec => []HeapInv
<1>1. Init => HeapInv
  BY InitSound DEF HeapInv
<1>2. HeapInv /\ [Next]_vars => HeapInv'
  BY StepSound
<1> QED BY <1>1, <1>2, PTL DEF Spec

LEMMA CountedOnce ==
  ASSUME NEW s \in Seq(Nat), Once(s)
  PROVE  Len(s) = Cardinality(Range(s))
<1>1. PICK n : n = Len(s)
  OBVIOUS
<1>2. n \in Nat /\ DOMAIN s = 1 .. n /\ s \in [1 .. n -> Nat]
  BY <1>1
<1>3. s \in [1 .. n -> Range(s)]
  BY <1>2 DEF Range
<1>4. s \in Surjection(1 .. n, Range(s))
  BY <1>2, <1>3 DEF Surjection, Range
<1>5. s \in Injection(1 .. n, Range(s))
  BY <1>2, <1>3 DEF Injection, IsInjective, Once
<1>6. ExistsBijection(1 .. n, Range(s))
  BY <1>4, <1>5 DEF ExistsBijection, Bijection
<1>7. Cardinality(Range(s)) = n
  BY <1>2, <1>6, FS_CountingElements
<1> QED BY <1>1, <1>7

\* Blocks in use, holes and the hole of unfinished calls of free() cover the heap and
\* do not overlap, and no hole is listed twice, whatever alloc(), free(), expand() and
\* contract() did.
THEOREM BlocksAndHolesTile == Spec => []Tiling
<1>1. ASSUME HeapInv PROVE Tiling
  <2>0. SUFFICES ASSUME defect = "none"
                 PROVE  /\ end_address >= Start + MinSize
                        /\ Len(index) = Cardinality(Holes)
                        /\ \A s, t \in Pieces : s = t \/ Extent(s) \cap Extent(t) = {}
                        /\ UNION {Extent(s) : s \in Pieces} = Start .. end_address - 1
    BY DEF Tiling
  <2>1. Sound
    BY <1>1, <2>0 DEF HeapInv
  <2>2. end_address \in Nat /\ Start \in Nat /\ MinSize \in Nat /\ end_address >= Start + MinSize
    BY <2>1, PageFacts, HeapAssumption DEF Sound, Typed
  <2>3. Len(index) = Cardinality(Holes)
    BY <2>1, CountedOnce DEF Sound, Typed, Listed, Holes
  <2>4. ASSUME NEW s \in Pieces
        PROVE  /\ s \in Nat /\ Start <= s /\ After(mem, s) \in Nat /\ After(mem, s) <= end_address
               /\ Extent(s) = s .. After(mem, s) - 1
    <3>1. s \in Nat /\ Start <= s /\ After(mem, s) \in Nat /\ After(mem, s) <= end_address /\ mem[s].val \in Nat
      BY <2>1, InHeap
    <3>2. s + mem[s].val - 1 = After(mem, s) - 1
      BY <3>1 DEF After
    <3> QED BY <3>1, <3>2 DEF Extent
  <2>5. ASSUME NEW s \in Pieces, NEW t \in Pieces, s # t PROVE Extent(s) \cap Extent(t) = {}
    <3>1. After(mem, s) <= t \/ After(mem, t) <= s
      BY <2>1, <2>5, InHeap
    <3> QED BY <2>4, <3>1
  <2>6. ASSUME NEW c \in Start .. end_address - 1 PROVE \E s \in Pieces : c \in Extent(s)
    <3>1. PICK s \in Pieces : s <= c /\ c < After(mem, s)
      BY <2>1 DEF Sound, Tiles
    <3>2. c \in Extent(s)
      BY <2>2, <2>4, <3>1
    <3> QED BY <3>2
  <2>7. ASSUME NEW s \in Pieces, NEW c \in Extent(s) PROVE c \in Start .. end_address - 1
    BY <2>2, <2>4
  <2>8. UNION {Extent(s) : s \in Pieces} = Start .. end_address - 1
    BY <2>6, <2>7
  <2> QED BY <2>2, <2>3, <2>5, <2>8
<1> QED BY <1>1, HeapInvariant, PTL

\* kfree() finds the header and the footer of every block as alloc() wrote them, and every
\* entry of the index is the header of a hole.
THEOREM BlocksStayIntact == Spec => []BlocksIntact
<1>1. ASSUME HeapInv PROVE BlocksIntact
  <2>0. SUFFICES ASSUME defect = "none"
                 PROVE  /\ \A b \in live : /\ mem[b].magic /\ ~mem[b].is_hole
                                           /\ mem[b + mem[b].val - Rec].magic /\ mem[b + mem[b].val - Rec].val = b
                        /\ \A h \in Holes : mem[h].magic /\ mem[h].is_hole
    BY DEF BlocksIntact
  <2>1. Sound
    BY <1>1, <2>0 DEF HeapInv
  <2>2. ASSUME NEW b \in live
        PROVE  /\ mem[b].magic /\ ~mem[b].is_hole
               /\ mem[b + mem[b].val - Rec].magic /\ mem[b + mem[b].val - Rec].val = b
    <3>1. b \in Pieces /\ Solid(mem, b)  BY <2>1 DEF Pieces, Sound, Marked
    <3>2. b \in Nat /\ mem[b].val \in Nat  BY <2>1, <3>1, InHeap
    <3>3. After(mem, b) - Rec = b + mem[b].val - Rec  BY <3>2 DEF After
    <3> QED BY <3>1, <3>3 DEF Solid
  <2>3. ASSUME NEW h \in Holes PROVE mem[h].magic /\ mem[h].is_hole
    <3>1. h \in Vacant  BY <2>1 DEF Sound, Listed, Vacant, Pieces
    <3> QED BY <2>1, <3>1 DEF Sound, Marked, Hollow, Fresh
  <2> QED BY <2>2, <2>3
<1> QED BY <1>1, HeapInvariant, PTL

-----------------------------------------------------------------------------
\* The entry point in a freed buffer

First == frames[1]

\* The report has a place other than the hole of the suspended calls, so that the
\* heap is not expanded for it.
Spare ==
  \/ entry # 0 /\ entry < Top.header
  \/ \E o \in Holes : o < Top.header /\ mem[o].val >= 3 * Rec

\* Queue entries are small, and taken only when characters are left.  A call that a
\* report suspended comes to its end only if there was a place for that report.
Reports ==
  /\ request # None => request.size = Rec
  /\ request # None \/ entry # 0 => Top.marks > 0
  /\ entry # 0 => mem[entry].val >= 3 * Rec
  /\ \A i \in DOMAIN frames : frames[i].marks <= IF monitor THEN Marks ELSE 0
  /\ Len(frames) = 1 \/ Spare \/ Top.marks > 0

\* The first free() inserts the block it freed, or has added it to a hole before it.
Unified ==
  /\ \/ First.do_add /\ First.header = First.block
     \/ ~First.do_add /\ First.header + 2 * Rec <= First.block
  /\ First.test_header <= Start + First.old_length

\* The entry point is there, inside the hole; or the heap has become shorter than the
\* first free() believes, and stays so.
There ==
  /\ mem[First.block + 2 * Rec] = First.kept /\ Start + First.old_length <= end_address
  /\ entry # Top.header => First.block + 4 * Rec <= After(mem, Top.header)

Shorter == end_address < Start + First.old_length /\ Spare

Kept ==
  frames # <<>> =>
    Reports /\ Unified /\ (First.test_header - First.block >= 4 * Rec => There \/ Shorter)

EntryInv == defect = "none" => Kept

LEMMA FirstFacts ==
  ASSUME Sound, frames # <<>>
  PROVE  /\ First \in Frame /\ Top \in Frame /\ 1 \in DOMAIN frames /\ Len(frames) \in DOMAIN frames
         /\ DOMAIN frames = 1 .. Len(frames) /\ Len(frames) \in Nat
         /\ First.header = Top.header /\ Top.header \in Pieces
         /\ First.block \in Nat /\ First.test_header \in Nat /\ First.old_length \in Int
         /\ Top.marks \in Int
<1>1. /\ DOMAIN frames = 1 .. Len(frames) /\ Len(frames) \in Nat
      /\ 1 \in DOMAIN frames /\ Len(frames) \in DOMAIN frames /\ frames \in Seq(Frame)
  BY DEF Sound, Typed
<1>2. First \in Frame /\ Top \in Frame
  BY <1>1 DEF First, Top
<1>3. First.header = Top.header
  BY <1>1 DEF First, Top, Sound, Suspended
<1>4. Top.header \in Pieces
  BY PiecesAre DEF Sound
<1> QED BY <1>1, <1>2, <1>3, <1>4 DEF Frame

\* With a place for it the report needs no expansion.
LEMMA SpareFits ==
  ASSUME Sound, frames # <<>>, Reports, Spare, request # None
  PROVE  Fitting(request) # {}
<1>1. entry = 0 /\ ~request.align /\ request.size = Rec
  BY DEF Sound, Called, Reports
<1>2. PICK o \in Holes : o < Top.header /\ mem[o].val >= 3 * Rec
  BY <1>1 DEF Spare
<1>3. PICK i \in DOMAIN index : index[i] = o
  BY DEF Holes, Range
<1>4. mem[o].val \in Nat
  BY InHeap DEF Pieces
<1>5. Fits(i, request)
  BY <1>1, <1>2, <1>3, <1>4 DEF Fits
<1> QED BY <1>5 DEF Fitting

LEMMA RequestKept ==
  ASSUME Sound, Kept, UNCHANGED <<mem, index, end_address, entry, frames>>,
         frames # <<>> => /\ monitor' = monitor
                          /\ request' = request \/ (request'.size = Rec /\ Top.marks > 0)
  PROVE  Kept'
<1> SUFFICES ASSUME frames # <<>>
             PROVE  Reports' /\ Unified' /\ (First'.test_header - First'.block >= 4 * Rec => There' \/ Shorter')
  BY DEF Kept
<1>1. Reports /\ Unified /\ (First.test_header - First.block >= 4 * Rec => There \/ Shorter)
  BY DEF Kept
<1>2. Top' = Top /\ First' = First /\ Holes' = Holes /\ Spare' = Spare
  BY DEF Top, First, Holes, Spare
<1>3. Reports'
  BY <1>1, <1>2 DEF Reports
<1>4. Unified' /\ There' = There /\ Shorter' = Shorter
  BY <1>1, <1>2 DEF Unified, There, Shorter, After
<1> QED BY <1>1, <1>2, <1>3, <1>4

LEMMA ExpandKept ==
  ASSUME Sound, Kept, defect = "none", Expand, defect' = "none"
  PROVE  Kept'
<1> SUFFICES ASSUME frames # <<>>
             PROVE  Reports' /\ Unified' /\ (First'.test_header - First'.block >= 4 * Rec => There' \/ Shorter')
  BY DEF Kept, Expand
<1>1. Reports /\ Unified /\ (First.test_header - First.block >= 4 * Rec => There \/ Shorter)
  BY DEF Kept
<1>2. /\ request # None /\ Fitting(request) = {} /\ entry = 0
      /\ UNCHANGED <<slack, monitor, request, entry, frames, live>>
  BY DEF Expand, Sound, Called
<1>3. ~Spare /\ Top' = Top /\ First' = First
  BY <1>1, <1>2, SpareFits DEF Top, First
<1>4. Reports' /\ Unified'
  <2>1. Reports'
    BY <1>1, <1>2, <1>3 DEF Reports
  <2> QED BY <1>1, <1>2, <1>3, <2>1 DEF Unified
<1>5. ASSUME First.test_header - First.block >= 4 * Rec PROVE There'
  <2>0. There
    BY <1>1, <1>3, <1>5 DEF Shorter
  <2>1. PICK e, H, k, l, grown : /\ e = end_address /\ H = Top.header /\ k = First.block
                                 /\ l = First.old_length
                                 /\ grown = ExpandedLength(request) + Start - end_address
    OBVIOUS
  <2>2. /\ grown \in Nat /\ grown >= 2 * Rec /\ e \in Nat /\ mem \in [Cells -> Cell] /\ e <= MaxEnd
        /\ H \in Pieces /\ H \in Nat /\ H \in Cells /\ Start <= H /\ H < e /\ mem[H].val \in Nat
        /\ After(mem, H) \in Nat /\ After(mem, H) <= e /\ After(mem, H) = H + mem[H].val
        /\ Start \in Nat /\ MaxEnd \in Nat
    BY <1>2, <2>1, ExpandFacts, FirstFacts, InHeap, PageFacts DEF Sound, Typed, After
  <2>3. k \in Nat /\ l \in Int /\ H <= k
    <3>1. k \in Nat /\ l \in Int /\ First.header = H
      BY <2>1, FirstFacts
    <3>2. First.header = k \/ First.header + 2 * Rec <= k
      BY <1>1, <2>1 DEF Unified
    <3> QED BY <2>2, <3>1, <3>2
  <2>4. mem[k + 2 * Rec] = First.kept /\ Start + l <= e /\ k + 4 * Rec <= After(mem, H)
    <3>1. entry # H
      BY <1>2, <2>2, PageFacts
    <3> QED BY <2>0, <2>1, <3>1 DEF There
  <2>5. PICK c : c = k + 2 * Rec
    OBVIOUS
  <2>6. c \in Cells /\ c \in Nat /\ c < e /\ H < c /\ c + 2 * Rec <= After(mem, H) /\ c + 2 * Rec = k + 4 * Rec
    BY <2>2, <2>3, <2>4, <2>5 DEF Cells
  <2>7. e + grown <= MaxEnd /\ end_address' = e + grown
    BY <2>1 DEF Expand
  <2>10. SUFFICES mem'[c] = mem[c] /\ c + 2 * Rec <= After(mem', H)
    <3>1. Start + l <= e + grown
      BY <2>2, <2>3, <2>4
    <3> QED BY <1>3, <2>1, <2>4, <2>5, <2>6, <2>7, <3>1 DEF There
  <2>8. CASE Holes = {}
    <3>1. mem' = WriteFooter(WriteHeader(mem, e, TRUE, grown), e + grown - Rec, e)
      BY <2>1, <2>8 DEF Expand
    <3>2. PICK a : a = e + grown - Rec
      OBVIOUS
    <3>3. ASSUME NEW x \in Cells, x + 2 * Rec <= e PROVE mem'[x] = mem[x]
      <4>1. x \in Int /\ a \in Int /\ a >= e
        BY <2>2, <3>2 DEF Cells
      <4>2. /\ x # e /\ x \notin e - Rec + 1 .. e + Rec - 1
            /\ x # a /\ x \notin a - Rec + 1 .. a + Rec - 1
        BY <2>2, <3>3, <4>1
      <4>3. mem' = WriteFooter(WriteHeader(mem, e, TRUE, grown), a, e)
        BY <3>1, <3>2
      <4>4. mem'[x] = WriteHeader(mem, e, TRUE, grown)[x]
        BY <4>2, <4>3 DEF WriteFooter, WriteAt
      <4> QED BY <4>2, <4>4 DEF WriteHeader, WriteAt
    <3>4. mem'[c] = mem[c] /\ mem'[H] = mem[H]
      <4>1. H + 2 * Rec <= e
        BY <2>2, InHeap
      <4> QED BY <2>2, <2>6, <3>3, <4>1
    <3> QED BY <2>6, <3>4 DEF After
  <2>9. CASE Holes # {}
    <3>1. PICK g, size : g = EndmostHole /\ size = mem[g].val + grown
      OBVIOUS
    <3>2. mem' = WriteFooter([mem EXCEPT ![g].val = size], g + size - Rec, g) /\ g + size = e + grown
      BY <2>1, <2>9, <3>1 DEF Expand
    <3>3. g \in Pieces
      <4>1. Holes \in SUBSET (0 .. e)
        <5>1. \A s \in Holes : s \in Pieces  BY DEF Pieces
        <5>2. \A s \in Holes : s \in Nat /\ s < e  BY <2>1, <5>1, InHeap
        <5> QED BY <2>2, <5>2
      <4>2. \E x \in Holes : \A y \in Holes : y <= x
        BY <2>2, <2>9, <4>1, GreatestIn
      <4> QED BY <3>1, <4>2 DEF EndmostHole, Pieces
    <3>4. g \in Nat /\ g \in Cells /\ mem[g].val \in Nat /\ After(mem, g) = g + mem[g].val /\ g < e
      BY <2>1, <3>3, InHeap DEF After
    <3>5. PICK a : a = g + size - Rec
      OBVIOUS
    <3>6. size \in Nat /\ a - Rec >= e /\ a \in Nat /\ After(mem, g) = e
      <4>1. PICK v \in Nat : v = mem[g].val
        BY <3>4
      <4>2. size = v + grown /\ g + size = e + grown /\ a = g + size - Rec /\ After(mem, g) = g + v
        BY <3>1, <3>2, <3>4, <3>5, <4>1
      <4>3. grown \in Nat /\ grown >= 2 * Rec /\ e \in Nat /\ g \in Nat
        BY <2>2, <3>4
      <4> QED BY <4>2, <4>3
    <3>7. c # g
      <4>1. g = H \/ After(mem, g) <= H \/ After(mem, H) <= g
        BY <2>2, <3>3, InHeap
      <4> QED BY <2>2, <2>6, <3>6, <4>1
    <3>8. mem' = WriteFooter([mem EXCEPT ![g].val = size], a, g)
      BY <3>2, <3>5
    <3>9. ASSUME NEW x \in Cells, x <= e PROVE mem'[x] = [mem EXCEPT ![g].val = size][x]
      <4>1. x \in Int
        BY <2>2 DEF Cells
      <4>2. x # a /\ x \notin a - Rec + 1 .. a + Rec - 1
        BY <2>2, <3>6, <3>9, <4>1
      <4>3. PICK m1 : m1 = [mem EXCEPT ![g].val = size]
        OBVIOUS
      <4>4. mem' = WriteAt(m1, a, [m1[a] EXCEPT !.magic = TRUE, !.val = g])
        BY <3>8, <4>3 DEF WriteFooter
      <4>5. mem'[x] = m1[x]
        BY <4>2, <4>4 DEF WriteAt
      <4> QED BY <4>3, <4>5
    <3>10. mem'[c] = mem[c]
      <4>1. c \in Cells /\ c <= e
        BY <2>2, <2>6
      <4>2. mem'[c] = [mem EXCEPT ![g].val = size][c]
        BY <3>9, <4>1
      <4>3. mem \in [Cells -> Cell]
        BY <2>2
      <4> QED BY <3>7, <4>1, <4>2, <4>3
    <3>11. mem'[H].val = IF g = H THEN size ELSE mem[H].val
      <4>1. H \in Cells /\ H <= e /\ mem \in [Cells -> Cell]
        BY <2>2
      <4>2. mem'[H] = [mem EXCEPT ![g].val = size][H]
        BY <3>9, <4>1
      <4> QED BY <4>1, <4>2 DEF Cell
    <3>12. c + 2 * Rec <= After(mem', H)
      BY <2>2, <2>6, <3>1, <3>4, <3>6, <3>11 DEF After
    <3> QED BY <3>10, <3>12
  <2> QED BY <2>8, <2>9
<1> QED BY <1>3, <1>4, <1>5

LEMMA BlockFacts ==
  ASSUME Sound, frames # <<>>, Unified, NEW H, NEW k, NEW t, NEW l,
         H = Top.header, k = First.block, t = First.test_header, l = First.old_length
  PROVE  /\ k \in Nat /\ t \in Nat /\ l \in Int /\ t <= Start + l
         /\ H \in Pieces /\ H \in Nat /\ H \in Cells /\ Start <= H /\ H < end_address /\ H # 0
         /\ mem[H].val \in Nat /\ After(mem, H) = H + mem[H].val /\ After(mem, H) \in Nat
         /\ After(mem, H) <= end_address /\ end_address \in Nat /\ Start \in Nat
         /\ H <= k /\ (~First.do_add => H + 2 * Rec <= k)
<1>1. k \in Nat /\ t \in Nat /\ l \in Int /\ First.header = H /\ H \in Pieces
  BY FirstFacts
<1>2. /\ H \in Nat /\ H \in Cells /\ Start <= H /\ H < end_address /\ mem[H].val \in Nat
      /\ After(mem, H) = H + mem[H].val /\ After(mem, H) \in Nat /\ After(mem, H) <= end_address
  BY <1>1, InHeap DEF After
<1>3. end_address \in Nat /\ Start \in Nat /\ Start > 0
  BY PageFacts DEF Sound, Typed
<1>4. t <= Start + l
  BY DEF Unified
<1>5. First.header = k \/ First.header + 2 * Rec <= k
  BY DEF Unified
<1>6. ~First.do_add => First.header + 2 * Rec <= k
  BY DEF Unified
<1> QED BY <1>1, <1>2, <1>3, <1>4, <1>5, <1>6

LEMMA PlaceKept ==
  ASSUME Sound, Kept, request # None, NEW h, NEW front, NEW size, NEW rest, Placed(h, front, size, rest)
  PROVE  Kept'
<1> SUFFICES ASSUME frames # <<>>
             PROVE  Reports' /\ Unified' /\ (First'.test_header - First'.block >= 4 * Rec => There' \/ Shorter')
  BY DEF Kept, Placed
<1>1. Reports /\ Unified /\ (First.test_header - First.block >= 4 * Rec => There \/ Shorter)
  BY DEF Kept
<1>2. /\ UNCHANGED <<end_address, slack, monitor, frames>> /\ request' = None /\ entry = 0
      /\ ~request.align /\ request.owner = "lock" /\ request.size = Rec
  BY <1>1 DEF Placed, Sound, Called, Reports
<1>3. front = 0 /\ h \in Holes /\ size \in Nat /\ size >= 3 * Rec /\ rest \in Nat /\ h \in Pieces
  BY <1>2 DEF Placed, Pieces
<1>4. PICK z : z = h + front + size + rest
  OBVIOUS
<1>5. /\ h \in Nat /\ h \in Cells /\ Start <= h /\ Start > 0 /\ z = After(mem, h) /\ z \in Nat
      /\ z <= end_address /\ Start \in Nat /\ h + 0 = h
  BY <1>3, <1>4, InHeap, PageFacts DEF Placed
<1>6. /\ entry' = h /\ h # 0 /\ mem'[h].val = size
      /\ \A c \in Cells : c <= h - Rec \/ c >= z => mem'[c] = mem[c]
      /\ Spares(h + 4 * Rec, z - 2 * Rec) /\ Holes \ {h} \subseteq Holes'
  <2>1. entry' = h + front /\ mem'[h + front].val = size
    BY <1>2 DEF Placed
  <2>2. Spares(h + 4 * Rec, z - 2 * Rec) /\ Holes \ {h} \subseteq Holes'
    BY <1>2, <1>3, <1>4 DEF Placed
  <2>3. \A c \in Cells : c <= h - Rec \/ c >= z => mem'[c] = mem[c]
    BY <1>4 DEF Placed
  <2> QED BY <1>3, <1>5, <2>1, <2>2, <2>3
<1>7. Top' = Top /\ First' = First
  BY <1>2 DEF Top, First
<1>8. ASSUME NEW s \in Pieces, s # h PROVE mem'[s] = mem[s]
  <2>1. s \in Nat /\ s \in Cells /\ s + 2 * Rec <= After(mem, s) /\ After(mem, s) \in Nat
    BY InHeap
  <2>2. After(mem, s) <= h \/ z <= s
    BY <1>3, <1>5, <1>8, InHeap
  <2> QED BY <1>5, <1>6, <2>1, <2>2
<1>9. Spare => Spare'
  <2>1. SUFFICES ASSUME Spare PROVE Spare'
    OBVIOUS
  <2>2. PICK o \in Holes : o < Top.header /\ mem[o].val >= 3 * Rec
    BY <1>2, <2>1 DEF Spare
  <2>3. CASE o = h
    BY <1>6, <1>7, <2>2, <2>3 DEF Spare
  <2>4. CASE o # h
    <3>1. o \in Pieces /\ o \in Holes'
      BY <1>6, <2>4 DEF Pieces
    <3>2. mem'[o] = mem[o]
      BY <1>8, <2>4, <3>1
    <3> QED BY <1>7, <2>2, <3>1, <3>2 DEF Spare
  <2> QED BY <2>3, <2>4
<1>10. Reports'
  <2>1. mem'[entry'].val >= 3 * Rec
    BY <1>3, <1>6
  <2>2. Top'.marks > 0
    BY <1>1, <1>7 DEF Reports
  <2> QED BY <1>1, <1>2, <1>7, <2>1, <2>2 DEF Reports
<1>11. Unified'
  BY <1>1, <1>7 DEF Unified
<1>12. ASSUME First.test_header - First.block >= 4 * Rec, There PROVE There'
  <2>1. PICK H, k, t, l : /\ H = Top.header /\ k = First.block /\ t = First.test_header
                          /\ l = First.old_length
    OBVIOUS
  <2>2. /\ k \in Nat /\ H \in Nat /\ H \in Pieces /\ H <= k /\ H # 0
        /\ After(mem, H) \in Nat /\ After(mem, H) <= end_address /\ end_address \in Nat
        /\ (~First.do_add => H + 2 * Rec <= k)
    BY <1>1, <2>1, BlockFacts
  <2>3. mem[k + 2 * Rec] = First.kept /\ Start + l <= end_address /\ k + 4 * Rec <= After(mem, H)
    BY <1>2, <1>12, <2>1, <2>2 DEF There
  <2>4. PICK c : c = k + 2 * Rec
    OBVIOUS
  <2>5. c \in H .. After(mem, H) /\ c \in Nat /\ H < c /\ c + 2 * Rec <= After(mem, H) /\ (~First.do_add => H + 4 * Rec <= c)
    BY <2>2, <2>3, <2>4
  <2>6. c \in Cells
    BY <2>2, <2>5, InHeap
  <2>7. mem'[c] = mem[c]
    <3>1. CASE h = H
      <4>1. ~Grown /\ ~Inside /\ ~Behind
        BY <1>2, <1>3, <2>1, <3>1 DEF Grown, Inside, Behind
      <4>2. ~Adding
        BY <1>3, <2>1, <3>1, <4>1 DEF Sound, Suspended, Resting
      <4>3. ~First.do_add
        BY <4>2, FirstFacts DEF Adding, First
      <4>4. h + 4 * Rec <= c /\ c <= z - 2 * Rec
        BY <1>5, <2>2, <2>5, <3>1, <4>3
      <4> QED BY <1>6, <2>6, <4>4 DEF Spares
    <3>2. CASE h # H
      <4>1. After(mem, H) <= h \/ z <= H
        BY <1>3, <1>5, <2>2, <3>2, InHeap
      <4>2. c <= h - Rec \/ c >= z
        BY <1>5, <2>2, <2>5, <4>1
      <4> QED BY <1>6, <2>6, <4>2
    <3> QED BY <3>1, <3>2
  <2>8. ASSUME h # H PROVE After(mem', H) = After(mem, H)
    <3>1. mem'[H] = mem[H]
      BY <1>8, <2>2, <2>8
    <3> QED BY <3>1 DEF After
  <2>9. mem'[k + 2 * Rec] = First.kept
    BY <2>3, <2>4, <2>7
  <2>10. h # H => k + 4 * Rec <= After(mem', H)
    BY <2>3, <2>8
  <2> QED BY <1>2, <1>6, <1>7, <2>1, <2>3, <2>9, <2>10 DEF There
<1>13. Shorter => Shorter'
  BY <1>2, <1>7, <1>9 DEF Shorter
<1> QED BY <1>1, <1>7, <1>10, <1>11, <1>12, <1>13

\* Where the hole of a free() lies.
LEMMA FreedPlace ==
  ASSUME Sound, NEW b \in live, NEW h, NEW t, NEW hi, NEW right, NEW suspended,
         Freed(b, h, t, hi, right, suspended)
  PROVE  /\ b \in Nat /\ t \in Nat /\ h \in Nat /\ hi \in Nat /\ h <= b /\ b + 2 * Rec <= t /\ t <= hi
         /\ t = b + mem[b].val /\ t = After(mem, b) /\ (h # b => h + 2 * Rec <= b) /\ h \in Pieces /\ b \in Pieces
         /\ t <= end_address /\ mem[b].val \in Nat /\ After(mem', h) = hi
<1>1. /\ t = After(mem, b) /\ hi \in Nat /\ mem'[h].val = hi - h
      /\ h = b \/ (h \in Vacant /\ After(mem, h) = b)
      /\ right => t \in Holes /\ hi = After(mem, t)
      /\ ~right => hi = t
  BY DEF Freed
<1>2. b \in Pieces /\ (right => t \in Pieces) /\ h \in Pieces
  BY <1>1 DEF Pieces, Vacant
<1>3. /\ b \in Nat /\ t \in Nat /\ b + 2 * Rec <= t /\ t <= end_address /\ t = b + mem[b].val
      /\ mem[b].val \in Nat
  BY <1>1, <1>2, InHeap DEF After
<1>4. h \in Nat /\ (h # b => h + 2 * Rec <= b)
  BY <1>1, <1>2, InHeap
<1>5. t <= hi
  <2>1. CASE right
    <3>1. t + 2 * Rec <= After(mem, t)  BY <1>2, <2>1, InHeap
    <3> QED BY <1>1, <1>3, <2>1, <3>1
  <2>2. CASE ~right  BY <1>1, <1>3, <2>2
  <2> QED BY <2>1, <2>2
<1>6. After(mem', h) = hi
  BY <1>1, <1>4 DEF After
<1> QED BY <1>1, <1>2, <1>3, <1>4, <1>5, <1>6

LEMMA KfreeKept ==
  ASSUME Sound, NEW b \in live, NEW seen \in BOOLEAN, defect = "none", Kfree(b, seen), defect' = "none"
  PROVE  Kept'
<1>1. request = None /\ frames = <<>> /\ Free(b, frames, seen) /\ entry' = entry /\ entry = 0
  BY DEF Kfree, Busy, Sound, Called
<1>2. PICK h, t, hi, right : Freed(b, h, t, hi, right, frames)
  BY <1>1, FreeFacts
<1>3. PICK frame \in Frame :
        /\ frame.header = h /\ (frame.do_add <=> h = b) /\ Records(frame, b, t)
        /\ frames' = IF hi = end_address THEN Append(frames, frame) ELSE frames
  BY <1>2 DEF Freed
<1> SUFFICES ASSUME frames' # <<>>
             PROVE  Reports' /\ Unified' /\ (First'.test_header - First'.block >= 4 * Rec => There' \/ Shorter')
  BY DEF Kept
<1>4. hi = end_address /\ frames' = <<frame>>
  BY <1>1, <1>3
<1>5. Len(frames') = 1 /\ DOMAIN frames' = {1} /\ First' = frame /\ Top' = frame
  <2>1. Len(frames') = 1 /\ DOMAIN frames' = {1} /\ frames'[1] = frame
    BY <1>4
  <2> QED BY <2>1 DEF First, Top
<1>6. /\ b \in Nat /\ t \in Nat /\ h \in Nat /\ hi \in Nat /\ h <= b /\ b + 2 * Rec <= t /\ t <= hi
      /\ (h # b => h + 2 * Rec <= b) /\ t <= end_address /\ After(mem', h) = hi /\ b \in Pieces
      /\ t = After(mem, b)
  BY <1>2, FreedPlace
<1>7. /\ request' = None /\ entry' = 0 /\ end_address' = end_address /\ monitor' = monitor
      /\ \A c \in Cells : c # h /\ (h # b => c # b /\ c # t - Rec) => mem'[c] = mem[c]
  BY <1>1, <1>2 DEF Freed
<1>8. end_address \in Nat /\ Start \in Nat /\ Start + (end_address - Start) = end_address /\ Marks \in Nat
  BY PageFacts, HeapAssumption DEF Sound, Typed
<1>9. /\ frame.block = b /\ frame.test_header = t /\ frame.kept = mem[b + 2 * Rec]
      /\ frame.old_length = end_address - Start /\ frame.marks = IF monitor THEN Marks ELSE 0
  BY <1>3 DEF Records
<1>10. Reports'
  <2>1. frame.marks <= IF monitor THEN Marks ELSE 0
    BY <1>8, <1>9
  <2> QED BY <1>4, <1>5, <1>7, <2>1 DEF Reports
<1>11. Unified'
  <2>1. (frame.do_add /\ h = b) \/ (~frame.do_add /\ h + 2 * Rec <= b)
    BY <1>3, <1>6
  <2>2. t <= Start + (end_address - Start)
    BY <1>6, <1>8
  <2> QED BY <1>3, <1>5, <1>9, <2>1, <2>2 DEF Unified
<1>12. ASSUME t - b >= 4 * Rec PROVE There'
  <2>1. PICK c : c = b + 2 * Rec
    OBVIOUS
  <2>2. c \in b .. After(mem, b) /\ c # h /\ c # b /\ c # t - Rec /\ b + 4 * Rec <= hi
    BY <1>6, <1>12, <2>1
  <2>3. c \in Cells
    BY <1>6, <2>2, InHeap
  <2>4. mem'[b + 2 * Rec] = mem[b + 2 * Rec]
    BY <1>7, <2>1, <2>2, <2>3
  <2>5. Start + frame.old_length <= end_address'
    BY <1>7, <1>8, <1>9
  <2> QED BY <1>3, <1>5, <1>6, <1>9, <2>2, <2>4, <2>5 DEF There
<1> QED BY <1>5, <1>9, <1>10, <1>11, <1>12

LEMMA UnlockKept ==
  ASSUME Sound, Kept, NEW seen \in BOOLEAN, defect = "none", ReportUnlock(seen), defect' = "none"
  PROVE  Kept'
<1>1. PICK suspended : Free(entry, suspended, seen) /\ Waiting(entry, suspended)
  BY UnlockFrees
<1>2. PICK b : b = entry
  OBVIOUS
<1>3. b \in live /\ request = None /\ b # 0 /\ entry' = 0 /\ frames # <<>>
  BY <1>2, UnlockFrees
<1>4. PICK h, t, hi, right : Freed(b, h, t, hi, right, suspended)
  BY <1>1, <1>2, <1>3, FreeFacts
<1>5. PICK frame \in Frame :
        /\ frame.header = h /\ (frame.do_add <=> h = b) /\ Records(frame, b, t)
        /\ frames' = IF hi = end_address THEN Append(suspended, frame) ELSE suspended
  BY <1>4 DEF Freed
<1>6. Reports /\ Unified /\ (First.test_header - First.block >= 4 * Rec => There \/ Shorter)
  BY <1>3 DEF Kept
<1>7. /\ b \in Nat /\ t \in Nat /\ h \in Nat /\ hi \in Nat /\ h <= b /\ b + 2 * Rec <= t /\ t <= hi
      /\ t = b + mem[b].val /\ t = After(mem, b) /\ (h # b => h + 2 * Rec <= b) /\ h \in Pieces /\ b \in Pieces
      /\ t <= end_address /\ mem[b].val \in Nat /\ After(mem', h) = hi
  BY <1>3, <1>4, FreedPlace
<1>8. /\ UNCHANGED <<end_address, slack, monitor, request>>
      /\ \A c \in Cells : c # h /\ (h # b => c # b /\ c # t - Rec) => mem'[c] = mem[c]
      /\ Holes' = (IF right THEN Holes \ {t} ELSE Holes) \cup (IF h = b /\ hi # end_address THEN {h} ELSE {})
      /\ mem'[h].val = hi - h
  BY <1>4 DEF Freed
<1>9. PICK n : n = Len(frames)
  OBVIOUS
<1>10. /\ suspended \in Seq(Frame) /\ Len(suspended) = n /\ n \in Nat /\ n >= 1 /\ DOMAIN frames = 1 .. n
       /\ \A i \in 1 .. n : /\ suspended[i].header = frames[i].header
                            /\ suspended[i].do_add <=> frames[i].do_add
                            /\ Resumes(suspended[i], frames[i])
       /\ \A i \in 1 .. n : suspended[i] \in Frame /\ frames[i] \in Frame
  BY <1>1, <1>3, <1>9 DEF Waiting, Sound, Typed
<1>11. PICK H, k, tt, l : H = Top.header /\ k = First.block /\ tt = First.test_header /\ l = First.old_length
  OBVIOUS
<1>12. /\ k \in Nat /\ tt \in Nat /\ l \in Int /\ tt <= Start + l
       /\ H \in Pieces /\ H \in Nat /\ H \in Cells /\ Start <= H /\ H < end_address /\ H # 0
       /\ After(mem, H) \in Nat /\ After(mem, H) <= end_address /\ end_address \in Nat /\ Start \in Nat
       /\ H <= k /\ (~First.do_add => H + 2 * Rec <= k)
  BY <1>3, <1>6, <1>11, BlockFacts
<1>13. PICK F : F = suspended[1]
  OBVIOUS
<1>14. /\ F.block = k /\ F.test_header = tt /\ F.old_length = l /\ F.kept = First.kept
       /\ F.header = First.header /\ (F.do_add <=> First.do_add)
  <2>1. 1 \in 1 .. n
    BY <1>10
  <2> QED BY <1>10, <1>11, <1>13, <2>1 DEF Resumes, First
<1>15. First' = F /\ frames' # <<>>
  <2>1. CASE hi = end_address
    <3>1. frames' = Append(suspended, frame)
      BY <1>5, <2>1
    <3>2. Len(frames') = n + 1 /\ frames'[1] = suspended[1]
      BY <1>10, <3>1
    <3> QED BY <1>10, <1>13, <3>2 DEF First
  <2>2. CASE hi # end_address
    <3>1. frames' = suspended
      BY <1>5, <2>2
    <3> QED BY <1>10, <1>13, <3>1 DEF First
  <2> QED BY <2>1, <2>2
<1>16. Unified'
  BY <1>6, <1>11, <1>14, <1>15 DEF Unified
<1>17. \/ /\ Resting /\ hi # end_address /\ H # b /\ H # h
          /\ right => H # t
       \/ /\ H = h /\ hi = end_address /\ h \notin Holes
          /\ h = b <=> ~Adding
  BY <1>2, <1>3, <1>4, <1>11, Meets
<1>18. SUFFICES Reports' /\ (tt - k >= 4 * Rec => There' \/ Shorter')
  BY <1>14, <1>15, <1>16 DEF Kept
<1>19. mem[b].val >= 3 * Rec /\ Top.marks > 0 /\ \A i \in 1 .. n : frames[i].marks <= IF monitor THEN Marks ELSE 0
  BY <1>2, <1>3, <1>6, <1>10 DEF Reports
<1>20. (IF monitor THEN Marks ELSE 0) \in Int
  BY HeapAssumption
<1>21. \A i \in 1 .. n : suspended[i].marks <= IF monitor THEN Marks ELSE 0
  <2>1. ASSUME NEW i \in 1 .. n PROVE suspended[i].marks <= IF monitor THEN Marks ELSE 0
    <3>1. suspended[i].marks \in Int /\ frames[i].marks \in Int
      BY <1>10 DEF Frame
    <3>2. suspended[i].marks <= frames[i].marks
      BY <1>10 DEF Resumes
    <3> QED BY <1>19, <1>20, <3>1, <3>2
  <2> QED BY <2>1
<1>22. CASE /\ Resting /\ hi # end_address /\ H # b /\ H # h
            /\ right => H # t
  <2>1. frames' = suspended /\ Top'.header = H
    <3>1. frames' = suspended
      BY <1>5, <1>22
    <3>2. n \in 1 .. n
      BY <1>10
    <3> QED BY <1>9, <1>10, <1>11, <3>1, <3>2 DEF Top
  <2>2. After(mem, H) = end_address
    BY <1>11, <1>22 DEF Resting
  <2>3. h < H /\ t <= H
    <3>1. After(mem, b) <= H
      <4>1. After(mem, b) <= H \/ After(mem, H) <= b
        BY <1>7, <1>12, <1>22, InHeap
      <4> QED BY <1>7, <1>12, <2>2, <4>1
    <3> QED BY <1>7, <1>12, <3>1
  <2>4. h \in Holes'
    <3>1. CASE h = b
      BY <1>8, <1>22, <3>1
    <3>2. CASE h # b
      <4>1. h \in Holes
        <5>1. h \in Vacant
          BY <1>4, <3>2 DEF Freed
        <5> QED BY <1>3, <1>11, <1>22, <5>1, PiecesAre DEF Sound, Vacant
      <4>2. h # t
        BY <1>7
      <4> QED BY <1>8, <4>1, <4>2
    <3> QED BY <3>1, <3>2
  <2>5. mem'[h].val >= 3 * Rec
    BY <1>7, <1>8, <1>19
  <2>6. Spare'
    BY <2>1, <2>3, <2>4, <2>5 DEF Spare
  <2>7. Reports'
    <3>1. DOMAIN frames' = 1 .. n
      BY <1>10, <2>1
    <3> QED BY <1>3, <1>8, <1>21, <2>1, <2>6, <3>1 DEF Reports
  <2>8. ASSUME tt - k >= 4 * Rec, There PROVE There'
    <3>1. entry # H
      BY <1>2, <1>22
    <3>2. mem[k + 2 * Rec] = First.kept /\ Start + l <= end_address /\ k + 4 * Rec <= After(mem, H)
      BY <1>11, <2>8, <3>1 DEF There
    <3>3. PICK c : c = k + 2 * Rec
      OBVIOUS
    <3>4. c \in H .. After(mem, H) /\ c # h /\ c # b /\ c # t - Rec /\ H # t - Rec /\ c \in Nat
      BY <1>7, <1>12, <2>3, <3>2, <3>3
    <3>5. c \in Cells
      BY <1>12, <3>4, InHeap
    <3>6. mem'[c] = mem[c] /\ mem'[H] = mem[H]
      BY <1>8, <1>12, <1>22, <3>4, <3>5
    <3>7. mem'[k + 2 * Rec] = First.kept /\ k + 4 * Rec <= After(mem', H)
      BY <3>2, <3>3, <3>6 DEF After
    <3> QED BY <1>8, <1>14, <1>15, <2>1, <3>2, <3>7 DEF There
  <2>9. Shorter => Shorter'
    BY <1>8, <1>11, <1>14, <1>15, <2>6 DEF Shorter
  <2> QED BY <1>6, <1>11, <2>7, <2>8, <2>9
<1>23. CASE /\ H = h /\ hi = end_address /\ h \notin Holes
            /\ h = b <=> ~Adding
  <2>1. frames' = Append(suspended, frame)
    BY <1>5, <1>23
  <2>2. /\ Len(frames') = n + 1 /\ DOMAIN frames' = 1 .. n + 1 /\ frames'[n + 1] = frame
        /\ \A i \in 1 .. n : frames'[i] = suspended[i]
    BY <1>10, <2>1
  <2>3. Top' = frame /\ Top'.header = H /\ frame.marks = IF monitor THEN Marks ELSE 0
    BY <1>5, <1>23, <2>2 DEF Top, Records
  <2>4. Spare => Spare'
    <3>1. SUFFICES ASSUME Spare PROVE Spare'
      OBVIOUS
    <3>2. ~(entry < H)
      BY <1>2, <1>7, <1>23
    <3>3. PICK o \in Holes : o < H /\ mem[o].val >= 3 * Rec
      BY <1>11, <3>1, <3>2 DEF Spare
    <3>4. o \in Nat /\ o \in Cells
      BY InHeap DEF Pieces
    <3>5. o # h /\ o # b /\ o # t - Rec /\ o # t
      BY <1>7, <1>23, <3>3, <3>4
    <3>6. o \in Holes' /\ mem'[o] = mem[o]
      BY <1>8, <3>4, <3>5
    <3> QED BY <2>3, <3>3, <3>6 DEF Spare
  <2>5. Reports'
    <3>1. \A i \in 1 .. n + 1 : i = n + 1 \/ i \in 1 .. n
      BY <1>10
    <3>2. frame.marks <= IF monitor THEN Marks ELSE 0
      BY <1>20, <2>3
    <3>3. \A i \in DOMAIN frames' : frames'[i].marks <= IF monitor' THEN Marks ELSE 0
      BY <1>8, <1>21, <2>2, <3>1, <3>2
    <3>4. Top'.marks > 0
      <4>1. n \in 1 .. n /\ Top = frames[n]
        BY <1>9, <1>10 DEF Top
      <4>2. Top.marks <= (IF monitor THEN Marks ELSE 0) /\ Top.marks \in Int
        BY <1>10, <1>19, <4>1 DEF Frame
      <4> QED BY <1>19, <1>20, <2>3, <4>2
    <3> QED BY <1>3, <1>8, <3>3, <3>4 DEF Reports
  <2>6. ASSUME tt - k >= 4 * Rec, There PROVE There'
    <3>1. /\ mem[k + 2 * Rec] = First.kept /\ Start + l <= end_address
          /\ entry # H => k + 4 * Rec <= After(mem, H)
      BY <1>11, <2>6 DEF There
    <3>2. PICK c : c = k + 2 * Rec
      OBVIOUS
    <3>3. c \in Nat /\ H < c /\ k + 4 * Rec <= end_address /\ c < end_address
      BY <1>12, <2>6, <3>1, <3>2
    <3>4. c \in Cells
      <4>1. end_address <= MaxEnd /\ MaxEnd \in Nat
        BY PageFacts DEF Sound, Typed
      <4> QED BY <1>12, <3>3, <4>1 DEF Cells
    <3>5. ASSUME h # b PROVE c # b /\ c # t - Rec
      <4>1. b = After(mem, H)
        BY <1>4, <1>23, <3>5 DEF Freed
      <4>2. k + 4 * Rec <= b
        BY <1>2, <1>23, <3>1, <3>5, <4>1
      <4> QED BY <1>7, <1>12, <3>2, <3>3, <4>2
    <3>6. mem'[c] = mem[c]
      BY <1>8, <1>12, <1>23, <3>3, <3>4, <3>5
    <3>7. mem'[k + 2 * Rec] = First.kept /\ k + 4 * Rec <= After(mem', H)
      BY <1>7, <1>23, <3>1, <3>2, <3>3, <3>6
    <3> QED BY <1>8, <1>14, <1>15, <2>3, <3>1, <3>7 DEF There
  <2>7. Shorter => Shorter'
    BY <1>8, <1>11, <1>14, <1>15, <2>4 DEF Shorter
  <2> QED BY <1>6, <1>11, <2>5, <2>6, <2>7
<1> QED BY <1>17, <1>22, <1>23

\* contract() of the length that is still right writes the size and a footer.
LEMMA ContractFacts ==
  ASSUME Sound, Contract, Top.old_length = end_address - Start,
         NEW H, H = Top.header
  PROVE  /\ end_address' \in Nat /\ end_address' <= end_address /\ H <= end_address'
         /\ \A c \in Cells : c # H /\ (c <= end_address' - 2 * Rec \/ c >= end_address') => mem'[c] = mem[c]
         /\ mem[H].val - (Top.old_length - ContractedLength(H)) = end_address' - H
<1>0. frames # <<>> /\ request = None /\ entry = 0 /\ Resting /\ Typed
  BY AtRest DEF Contract, Sound
<1>1. PICK e, new, size : /\ e = end_address /\ new = ContractedLength(H)
                          /\ size = mem[H].val - (Top.old_length - new)
  OBVIOUS
<1>2. H \in Pieces /\ After(mem, H) = e
  BY <1>0, <1>1, PiecesAre DEF Sound, Resting
<1>3. H \in Nat /\ H \in Cells /\ Start <= H /\ H < e /\ e \in Nat /\ mem[H].val \in Nat
      /\ e = H + mem[H].val /\ mem \in [Cells -> Cell] /\ e <= MaxEnd
      /\ Start \in Nat /\ Start >= 3 * Rec /\ MaxEnd \in Nat
  BY <1>0, <1>1, <1>2, InHeap, PageFacts DEF After, Typed
<1>4. new \in Nat /\ H - Start <= new /\ Start + new <= e
  BY <1>0, <1>1, <1>3, ContractedLengthFacts DEF Typed
<1>5. Top.old_length = e - Start
  BY <1>1
<1>6. size = Start + new - H /\ size \in Nat
  BY <1>1, <1>3, <1>4, <1>5
<1>7. end_address' = Start + new /\ mem' = (IF size > 0 THEN Shrink(mem, H, size) ELSE mem)
  BY <1>1 DEF Contract
<1>8. PICK a : a = H + size - Rec
  OBVIOUS
<1>9. a = Start + new - Rec
  BY <1>3, <1>4, <1>6, <1>8
<1>10. ASSUME NEW c \in Cells, c # H, Beside(c, a) PROVE mem'[c] = mem[c]
  <2>1. CASE size > 0
    <3>1. mem' = WriteFooter([mem EXCEPT ![H].val = size], a, H)
      BY <1>7, <1>8, <2>1 DEF Shrink
    <3>2. a \in Int /\ c \in Int
      BY <1>3, <1>6, <1>8 DEF Cells
    <3>3. c # a /\ c \notin a - Rec + 1 .. a + Rec - 1
      BY <1>10, <3>2 DEF Beside
    <3>4. mem'[c] = [mem EXCEPT ![H].val = size][c]
      BY <3>1, <3>3 DEF WriteFooter, WriteAt
    <3> QED BY <1>3, <1>10, <3>4
  <2>2. CASE ~(size > 0)
    BY <1>7, <2>2
  <2> QED BY <2>1, <2>2
<1>11. \A c \in Cells : c <= end_address' - 2 * Rec \/ c >= end_address' => Beside(c, a)
  BY <1>3, <1>4, <1>7, <1>9 DEF Cells, Beside
<1>12. end_address' \in Nat /\ end_address' <= end_address /\ H <= end_address'
  BY <1>1, <1>3, <1>4, <1>7
<1>13. mem[H].val - (Top.old_length - ContractedLength(H)) = end_address' - H
  <2>1. mem[H].val - (Top.old_length - ContractedLength(H)) = size
    BY <1>1
  <2>2. end_address' - H = size
    BY <1>3, <1>4, <1>6, <1>7
  <2> QED BY <2>1, <2>2
<1> QED BY <1>10, <1>11, <1>12, <1>13

LEMMA ContractKept ==
  ASSUME Sound, Sound', Kept, defect = "none", Contract, defect' = "none"
  PROVE  Kept'
<1> SUFFICES ASSUME frames' # <<>>
             PROVE  Reports' /\ Unified' /\ (First'.test_header - First'.block >= 4 * Rec => There' \/ Shorter')
  BY DEF Kept
<1>1. frames # <<>> /\ request = None /\ entry = 0 /\ Top.marks = 0 /\ frames' = Pop /\ Typed
      /\ UNCHANGED <<monitor, request, entry>> /\ Top.old_length = end_address - Start
  BY DEF Contract, Sound
<1>2. Reports /\ Unified /\ (First.test_header - First.block >= 4 * Rec => There \/ Shorter)
  BY <1>1 DEF Kept
<1>3. PICK n : n = Len(frames)
  OBVIOUS
<1>4. /\ n \in Nat /\ n >= 2 /\ DOMAIN frames = 1 .. n /\ DOMAIN frames' = 1 .. n - 1 /\ Len(frames') = n - 1
      /\ \A i \in 1 .. n - 1 : frames'[i] = frames[i]
  <2>1. /\ Pop \in Seq(Frame) /\ DOMAIN Pop = 1 .. n - 1 /\ Len(Pop) = n - 1
        /\ DOMAIN frames = 1 .. n /\ n \in Nat /\ n > 0
        /\ \A i \in DOMAIN Pop : Pop[i] = frames[i]
    BY <1>1, <1>3, PopFacts
  <2>2. n - 1 # 0
    BY <1>1, <2>1, EmptySeq
  <2> QED BY <1>1, <2>1, <2>2
<1>5. PICK H, k, t, l : H = Top.header /\ k = First.block /\ t = First.test_header /\ l = First.old_length
  OBVIOUS
<1>6. /\ k \in Nat /\ t \in Nat /\ l \in Int /\ t <= Start + l
      /\ H \in Pieces /\ H \in Nat /\ H \in Cells /\ Start <= H /\ H < end_address /\ H # 0
      /\ After(mem, H) \in Nat /\ After(mem, H) <= end_address /\ end_address \in Nat /\ Start \in Nat
      /\ H <= k
  BY <1>1, <1>2, <1>5, BlockFacts
<1>7. First' = First /\ Top'.header = H
  <2>1. 1 \in 1 .. n - 1 /\ n - 1 \in 1 .. n - 1 /\ n - 1 \in 1 .. n /\ n \in 1 .. n
    BY <1>4
  <2>2. frames[n - 1].header = frames[n].header
    BY <1>4, <2>1 DEF Sound, Suspended
  <2> QED BY <1>3, <1>4, <1>5, <2>1, <2>2 DEF First, Top
<1>8. /\ end_address' \in Nat /\ end_address' <= end_address /\ H <= end_address'
      /\ \A c \in Cells : c # H /\ (c <= end_address' - 2 * Rec \/ c >= end_address') => mem'[c] = mem[c]
      /\ mem[H].val - (Top.old_length - ContractedLength(H)) = end_address' - H
  BY <1>1, <1>5, ContractFacts
<1>9. H < end_address' /\ Holes \subseteq Holes'
  <2>1. mem[H].val - (Top.old_length - ContractedLength(H)) # 0
    BY <1>5 DEF Contract
  <2>2. end_address' # H
    BY <1>6, <1>8, <2>1
  <2>3. index' = IF Top.do_add THEN Insert(index, H, mem') ELSE index
    BY <1>5, <2>1 DEF Contract
  <2>4. Holes \subseteq Holes'
    <3>1. \A i \in DOMAIN index : mem'[index[i]].val \in Int
      <4>1. \A i \in DOMAIN index : index[i] \in Pieces  BY DEF Holes, Range, Pieces
      <4>2. \A i \in DOMAIN index : index[i] \in Cells  BY <4>1, InHeap
      <4> QED BY <4>2 DEF Cell, Sound, Typed
    <3>2. mem'[H].val \in Int
      BY <1>6 DEF Cell, Sound, Typed
    <3>3. Range(Insert(index, H, mem')) = Range(index) \cup {H}
      BY <1>1, <1>6, <3>1, <3>2, InsertItem DEF Typed
    <3> QED BY <2>3, <3>3 DEF Holes
  <2> QED BY <1>6, <1>8, <2>2, <2>4
<1>10. Spare'
  <2>1. Spare
    BY <1>1, <1>2, <1>3, <1>4 DEF Reports
  <2>2. PICK o \in Holes : o < H /\ mem[o].val >= 3 * Rec
    BY <1>1, <1>5, <2>1 DEF Spare
  <2>3. o \in Nat /\ o \in Cells
    BY InHeap DEF Pieces
  <2>4. mem'[o] = mem[o]
    <3>1. o # H /\ o <= end_address' - 2 * Rec
      <4>1. o \in Pieces
        BY DEF Pieces
      <4>2. o + 2 * Rec <= After(mem, o) /\ After(mem, o) \in Nat
        BY <4>1, InHeap
      <4>3. After(mem, o) <= H
        <5>1. After(mem, o) <= H \/ After(mem, H) <= o
          BY <1>6, <2>2, <2>3, <4>1, InHeap
        <5>2. H + 2 * Rec <= After(mem, H)
          BY <1>6, InHeap
        <5> QED BY <1>6, <2>2, <2>3, <5>1, <5>2
      <4>4. PICK z \in Nat : z = end_address'
        BY <1>8
      <4>5. H < z
        BY <1>9, <4>4
      <4>6. o # H /\ o <= z - 2 * Rec
        BY <1>6, <2>2, <2>3, <4>2, <4>3, <4>5
      <4> QED BY <4>4, <4>6
    <3> QED BY <1>8, <2>3, <3>1
  <2> QED BY <1>7, <1>9, <2>2, <2>4 DEF Spare
<1>11. Reports'
  <2>1. \A i \in 1 .. n - 1 : i \in 1 .. n
    BY <1>4
  <2>2. \A i \in 1 .. n - 1 : frames'[i].marks <= IF monitor' THEN Marks ELSE 0
    BY <1>1, <1>2, <1>4, <2>1 DEF Reports
  <2> QED BY <1>1, <1>4, <1>10, <2>2 DEF Reports
<1>12. Unified'
  BY <1>2, <1>7 DEF Unified
<1>13. ASSUME Start + l <= end_address', t - k >= 4 * Rec, There PROVE There'
  <2>1. mem[k + 2 * Rec] = First.kept
    BY <1>5, <1>13 DEF There
  <2>2. PICK c : c = k + 2 * Rec
    OBVIOUS
  <2>3. c \in Nat /\ c # H /\ c <= end_address' - 2 * Rec /\ k + 4 * Rec <= end_address' /\ c <= end_address /\ Start <= c
    <3>1. PICK z \in Nat : z = end_address'
      BY <1>8
    <3>2. z <= end_address /\ Start + l <= z
      BY <1>8, <1>13, <3>1
    <3>3. k + 4 * Rec <= z
      BY <1>6, <1>13, <3>2
    <3>4. c \in Nat /\ c # H /\ c <= z - 2 * Rec /\ k + 4 * Rec <= z /\ c <= end_address /\ Start <= c
      BY <1>6, <2>2, <3>2, <3>3
    <3> QED BY <3>1, <3>4
  <2>4. c \in Cells
    <3>1. end_address <= MaxEnd /\ MaxEnd \in Nat
      BY <1>1, PageFacts DEF Typed
    <3> QED BY <1>6, <2>3, <3>1 DEF Cells
  <2>5. mem'[k + 2 * Rec] = First.kept
    BY <1>8, <2>1, <2>2, <2>3, <2>4
  <2>6. After(mem', H) = end_address'
    <3>1. Resting'
      BY <1>1 DEF Sound, Suspended, Grown, Inside, Behind
    <3> QED BY <1>7, <3>1 DEF Resting
  <2> QED BY <1>5, <1>7, <1>13, <2>3, <2>5, <2>6 DEF There
<1>14. ASSUME ~(Start + l <= end_address') PROVE Shorter'
  <2>1. end_address' < Start + l
    BY <1>6, <1>8, <1>14
  <2> QED BY <1>5, <1>7, <1>10, <2>1 DEF Shorter
<1>15. Shorter => ~(Start + l <= end_address')
  BY <1>5, <1>6, <1>8 DEF Shorter
<1> QED BY <1>2, <1>5, <1>7, <1>11, <1>12, <1>13, <1>14, <1>15

LEMMA StepKept ==
  ASSUME HeapInv, HeapInv', EntryInv, [Next]_vars
  PROVE  EntryInv'
<1>1. CASE UNCHANGED vars
  <2>1. Kept' <=> Kept
    BY <1>1 DEF vars, Kept, Reports, Unified, There, Shorter, Spare, First, Top, Holes, After
  <2> QED BY <1>1, <2>1 DEF vars, EntryInv
<1>2. CASE Next
  <2>0. SUFFICES ASSUME defect' = "none" PROVE Kept'
    BY DEF EntryInv
  <2>1. defect = "none" /\ Sound /\ Kept /\ Sound'
    BY <1>2, <2>0 DEF Next, HeapInv, EntryInv
  <2>2. CASE MonitorInit
    <3>1. frames = <<>>
      BY <2>2 DEF MonitorInit, Busy
    <3> QED BY <2>1, <2>2, <3>1, RequestKept DEF MonitorInit
  <2>3. ASSUME NEW size \in Sizes, NEW align \in BOOLEAN, Kmalloc(size, align) PROVE Kept'
    <3>1. frames = <<>>
      BY <2>3 DEF Kmalloc, Busy
    <3> QED BY <2>1, <2>3, <3>1, RequestKept DEF Kmalloc
  <2>4. CASE Expand
    BY <2>0, <2>1, <2>4, ExpandKept
  <2>5. ASSUME NEW stored \in BOOLEAN, Place(stored) PROVE Kept'
    <3>1. PICK h, front, size, rest : Placed(h, front, size, rest)
      BY <2>0, <2>1, <2>5, PlaceFacts
    <3>2. request # None
      BY <2>5 DEF Place
    <3> QED BY <2>1, <3>1, <3>2, PlaceKept
  <2>6. ASSUME NEW b \in live, NEW seen \in BOOLEAN, Kfree(b, seen) PROVE Kept'
    BY <2>0, <2>1, <2>6, KfreeKept
  <2>7. CASE ReportLock
    <3>1. request'.size = Rec /\ Top.marks > 0 /\ monitor' = monitor
      BY <2>7 DEF ReportLock
    <3> QED BY <2>1, <2>7, <3>1, RequestKept DEF ReportLock
  <2>8. ASSUME NEW seen \in BOOLEAN, ReportUnlock(seen) PROVE Kept'
    BY <2>0, <2>1, <2>8, UnlockKept
  <2>9. CASE Contract
    BY <2>0, <2>1, <2>9, ContractKept
  <2> QED BY <1>2, <2>2, <2>3, <2>4, <2>5, <2>6, <2>7, <2>8, <2>9 DEF Next
<1> QED BY <1>1, <1>2

\* The step that ends the first free().
LEMMA EntryAtEnd ==
  ASSUME HeapInv, EntryInv, Next, Len(frames) = 1, frames' = <<>>,
         Top.test_header - Top.block >= 4 * Rec, defect' # "twice"
  PROVE  \/ mem'[Top.block + 2 * Rec] = Top.kept 
         \/ end_address' \in Top.block + 2 * Rec + 1 .. Top.block + 4 * Rec - 1
<1>1. defect = "none" /\ Sound /\ Kept
  BY DEF Next, HeapInv, EntryInv
<1>2. frames # <<>> /\ First = Top
  <2>1. Len(<<>>) = 0
    BY EmptySeq
  <2> QED BY <2>1 DEF First, Top
<1>3. Contract
  <2>1. ~Busy => FALSE
    BY <1>2 DEF Busy
  <2>2. ~(frames' = frames)
    BY <1>2
  <2>3. \A seen \in BOOLEAN : ~ReportUnlock(seen)
    <3>1. SUFFICES ASSUME NEW seen \in BOOLEAN, ReportUnlock(seen) PROVE FALSE
      OBVIOUS
    <3>2. PICK suspended : Free(entry, suspended, seen) /\ Waiting(entry, suspended)
      BY <1>1, <3>1, UnlockFrees
    <3>3. suspended \in Seq(Frame) /\ Len(suspended) = 1
      BY <1>2, <3>2 DEF Waiting
    <3>4. (\E f : frames' = Append(suspended, f)) \/ frames' = suspended
      BY <3>2 DEF Free
    <3>5. ASSUME NEW f, frames' = Append(suspended, f) PROVE FALSE
      <4>1. suspended \in Seq(Frame \cup {f}) /\ f \in Frame \cup {f}
        BY <3>3
      <4>2. Append(suspended, f) # <<>>
        BY <4>1, AppendProperties
      <4> QED BY <3>5, <4>2
    <3>6. suspended # <<>>
      <4>1. Len(<<>>) = 0 /\ 1 # 0
        BY EmptySeq
      <4>2. Len(suspended) = 1
        BY <3>3
      <4> QED BY <4>1, <4>2, Zenon
    <3> QED BY <3>4, <3>5, <3>6
  <2> QED BY <2>1, <2>2, <2>3 DEF Next, MonitorInit, Kmalloc, Expand, Place, Kfree, ReportLock
<1>4. entry = 0 /\ request = None /\ Top.old_length = end_address - Start
  <2>1. Top.old_length # end_address - Start => defect' = "twice"
    BY <1>3 DEF Contract
  <2> QED BY <1>3, <2>1 DEF Contract
<1>5. Unified /\ (There \/ Shorter)
  BY <1>1, <1>2 DEF Kept
<1>6. PICK H, k, t, l : H = Top.header /\ k = First.block /\ t = First.test_header /\ l = First.old_length
  OBVIOUS
<1>7. /\ k \in Nat /\ l \in Int /\ H \in Nat /\ H <= k /\ H # 0 /\ Start <= H
      /\ After(mem, H) \in Nat /\ After(mem, H) <= end_address /\ end_address \in Nat /\ Start \in Nat
  BY <1>1, <1>2, <1>5, <1>6, BlockFacts
<1>8. There
  BY <1>2, <1>4, <1>5, <1>6, <1>7 DEF Shorter
<1>9. mem[k + 2 * Rec] = Top.kept /\ k + 4 * Rec <= After(mem, H)
  BY <1>2, <1>4, <1>6, <1>7, <1>8 DEF There
<1>10. /\ end_address' \in Nat
       /\ \A c \in Cells : c # H /\ (c <= end_address' - 2 * Rec \/ c >= end_address') => mem'[c] = mem[c]
  BY <1>1, <1>3, <1>4, <1>6, ContractFacts
<1>11. PICK c : c = k + 2 * Rec
  OBVIOUS
<1>12. c \in Nat /\ c # H /\ c \in Cells
  <2>1. end_address <= MaxEnd /\ MaxEnd \in Nat
    BY <1>1, PageFacts DEF Sound, Typed
  <2> QED BY <1>7, <1>9, <1>11, <2>1 DEF Cells
<1>13. CASE ~(c <= end_address' - 2 * Rec \/ c >= end_address')
  <2>1. end_address' \in k + 2 * Rec + 1 .. k + 4 * Rec - 1
    <3>1. PICK z \in Nat : z = end_address'
      BY <1>10
    <3>2. ~(c <= z - 2 * Rec \/ c >= z)
      BY <1>13, <3>1
    <3>3. z \in k + 2 * Rec + 1 .. k + 4 * Rec - 1
      BY <1>7, <1>11, <3>2
    <3> QED BY <3>1, <3>3
  <2> QED BY <1>2, <1>6, <2>1
<1>14. CASE c <= end_address' - 2 * Rec \/ c >= end_address'
  <2>1. mem'[k + 2 * Rec] = Top.kept
    BY <1>9, <1>10, <1>11, <1>12, <1>14
  <2> QED BY <1>2, <1>6, <2>1
<1> QED BY <1>13, <1>14

\* load_executable() (elf.c:44) finds the entry point in the buffer that it has freed,
\* whatever the report of contract() allocated and freed meanwhile, unless the heap now
\* ends close behind it or a nested free() has contracted the heap.
THEOREM EntryPointSurvives == Spec => EntrySurvives
<1>1. Init => EntryInv
  BY DEF Init, EntryInv, Kept
<1>2. HeapInv /\ HeapInv' /\ EntryInv /\ [Next]_vars => EntryInv'
  BY StepKept
<1>3. HeapInv /\ EntryInv /\ [Next]_vars =>
        [/\ Len(frames) = 1 /\ frames' = <<>> /\ Top.test_header - Top.block >= 4 * Rec
         /\ defect' # "twice"
         => \/ mem'[Top.block + 2 * Rec] = Top.kept
            \/ end_address' \in Top.block + 2 * Rec + 1 .. Top.block + 4 * Rec - 1]_vars
  BY EntryAtEnd
<1>4. Spec => []HeapInv
  BY HeapInvariant
<1> QED BY <1>1, <1>2, <1>3, <1>4, PTL DEF Spec, EntrySurvives
=============================================================================
