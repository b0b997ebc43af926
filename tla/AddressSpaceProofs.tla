------------------------- MODULE AddressSpaceProofs -------------------------
(***************************************************************************)
(* Proofs about AddressSpace: every frame has one holder, a task keeps the *)
(* frames of its stacks, and its pages hold the program it has loaded.     *)
(***************************************************************************)
EXTENDS AddressSpace, WellFoundedInduction, FiniteSetTheorems, SequenceTheorems, TLAPS

-----------------------------------------------------------------------------
\* The inductive invariant

IsSpace(m) ==
  /\ DOMAIN m \subseteq Range(Nodes)
  /\ m \in [DOMAIN m -> Frames]

\* The variables have their types.
Typed ==
  /\ free \subseteq Frames /\ spare \subseteq Frames /\ lost \subseteq Frames
  /\ held \in Frames \cup {0}
  /\ space \in Seq(Range(space)) /\ \A t \in Tasks : IsSpace(space[t])
  /\ current \in Tasks
  /\ IsSpace(clone)
  /\ loading \in [file : Programs \cup {NoProgram}, segment : Nat]
  /\ job \in [kind : {"idle", "stack", "clone", "load"}, todo : Seq(Range(Nodes))]

\* What each call in progress still has to do.
Jobs ==
  /\ job.kind = "idle" => job = Idle
  /\ job.kind = "stack" => current = 1 /\ Range(job.todo) \subseteq Range(Stacks)
  /\ job.kind = "load" =>
       /\ current > 1
       /\ loading.file \in Programs /\ loading.segment \in DOMAIN loading.file
       /\ Range(job.todo) \subseteq Range(MappedPages(loading.file[loading.segment]))
  /\ job.kind = "clone" =>
       /\ IsInjective(job.todo) /\ Range(job.todo) \cap DOMAIN clone = {}
       /\ DOMAIN clone \subseteq DOMAIN space[current]
       /\ DOMAIN space[current] \subseteq DOMAIN clone \cup Range(job.todo)
  /\ job.kind # "clone" => DOMAIN clone = {}

\* Frames that no table refers to.
Loose == free \cup spare \cup lost \cup {held}

\* No frame is in two places.
LooseApart ==
  /\ free \cap spare = {} /\ free \cap lost = {} /\ spare \cap lost = {}
  /\ held \notin free \cup spare \cup lost

Exclusive ==
  /\ \A n \in DOMAIN clone : clone[n] \notin Loose
  /\ \A m, n \in DOMAIN clone : clone[m] = clone[n] => m = n
  /\ \A t \in Tasks : \A n \in DOMAIN space[t] : space[t][n] \notin Loose
  /\ \A t \in Tasks : \A n \in DOMAIN space[t], m \in DOMAIN clone : space[t][n] # clone[m]
  /\ \A t, u \in Tasks : \A n \in DOMAIN space[t], m \in DOMAIN space[u] :
       space[t][n] = space[u][m] => t = u /\ n = m

\* Every frame is in some place.
Total ==
  \A f \in Frames :
    \/ f \in Loose
    \/ \E n \in DOMAIN clone : clone[n] = f
    \/ \E t \in Tasks : \E n \in DOMAIN space[t] : space[t][n] = f

\* The first task gets its stacks before anything is cloned.
StacksMapped ==
  /\ \A t \in Tasks : t > 1 => Range(Stacks) \subseteq DOMAIN space[t]
  /\ job.kind = "stack" => Range(Stacks) \subseteq DOMAIN space[current] \cup Range(job.todo)
  /\ job.kind = "clone" => Range(Stacks) \subseteq DOMAIN space[current]

SpaceInv == Typed /\ Jobs /\ LooseApart /\ Exclusive /\ Total /\ StacksMapped

\* Nothing is mapped without the tables above it.
Rooted(m) == \A n \in DOMAIN m : \A k \in 0 .. Len(n) : SubSeq(n, 1, k) \in DOMAIN m

Tabled == \A t \in Tasks : <<>> \in DOMAIN space[t] /\ Rooted(space[t])

\* The CPU remembers no wrong translation of a page with bytes of the program.
Coherent ==
  \A s \in DOMAIN program[current] : \A a \in Kept(program[current], s) :
    PageOf(a) \in DOMAIN tlb => tlb[PageOf(a)] = space[current][PageOf(a)]

\* A clone holds what its original holds.
Copied ==
  \A s \in DOMAIN program[current] : \A a \in Kept(program[current], s) :
    PageOf(a) \in DOMAIN clone =>
      content[clone[PageOf(a)]] = content[space[current][PageOf(a)]]

\* The bytes of segment s that the segments up to the k-th leave alone.
Staying(file, s, k) ==
  {a \in Bytes(file[s]) : \A r \in s + 1 .. k :
     a \notin Bytes(file[r]) /\ PageOf(a) \notin Range(MappedPages(file[r]))}

\* The segments before the k-th have been copied.
UpTo(file, k) ==
  \A s \in 1 .. k - 1 : \A a \in Bytes(file[s]) :
    /\ PageOf(a) \in DOMAIN space[current]
    /\ a \in Staying(file, s, k) =>
         /\ PageOf(a) \in DOMAIN tlb => tlb[PageOf(a)] = space[current][PageOf(a)]
         /\ content[space[current][PageOf(a)]][a % Unit] = <<file, s>>

PartLoaded ==
  job.kind = "load" =>
    program[current] = NoProgram /\ UpTo(loading.file, loading.segment)

\* A task's program is present, and the bytes that stay are its own.
Loaded ==
  \A t \in Tasks : \A s \in DOMAIN program[t] : \A a \in Bytes(program[t][s]) :
    /\ PageOf(a) \in DOMAIN space[t]
    /\ a \in Kept(program[t], s) =>
         content[space[t][PageOf(a)]][a % Unit] = <<program[t], s>>

ImageTyped ==
  /\ program \in Seq(Programs \cup {NoProgram}) /\ DOMAIN program = Tasks
  /\ DOMAIN content = Frames

Image == ImageTyped /\ Tabled /\ Coherent /\ Copied /\ PartLoaded /\ Loaded

ImageInv == halt # "stale" => Image

-----------------------------------------------------------------------------
\* Sets of numbers and sequences

\* The block allocator finds a free block if there is one.
LEMMA MinIsIn ==
  ASSUME NEW S \in SUBSET Nat, S # {}
  PROVE  Min(S) \in S /\ \A x \in S : Min(S) <= x
<1> DEFINE R == OpToRel(<, Nat)
<1>1. \E x \in S : \A y \in S : ~(<<y, x>> \in R)
  BY NatLessThanWellFounded, WFMin
<1>2. \A x, y \in Nat : x < y => <<x, y>> \in R
  BY DEF OpToRel
<1> HIDE DEF R
<1>3. PICK x \in S : \A y \in S : ~(<<y, x>> \in R)
  BY <1>1
<1>4. ASSUME NEW y \in S PROVE x <= y
  <2>1. ~(y < x)
    BY <1>2, <1>3
  <2> QED BY <2>1
<1> QED BY <1>4 DEF Min

\* What Head() and Tail() leave of a sequence.
LEMMA HeadTail ==
  ASSUME NEW S, NEW s \in Seq(S), s # <<>>
  PROVE  /\ Head(s) \in Range(s) /\ Tail(s) \in Seq(S)
         /\ Range(s) = {Head(s)} \cup Range(Tail(s))
         /\ IsInjective(s) => IsInjective(Tail(s)) /\ Head(s) \notin Range(Tail(s))
<1>1. Len(s) \in Nat \ {0} /\ Head(s) = s[1] /\ Tail(s) \in Seq(S) /\ Len(Tail(s)) = Len(s) - 1
  OBVIOUS
<1>2. \A i \in 1 .. Len(s) - 1 : Tail(s)[i] = s[i + 1]
  OBVIOUS
<1>3. DOMAIN s = 1 .. Len(s) /\ DOMAIN Tail(s) = 1 .. Len(s) - 1
  BY <1>1
<1> DEFINE r == Tail(s)
<1>4. r \in Seq(S) /\ (\A i \in 1 .. Len(s) - 1 : r[i] = s[i + 1]) /\ DOMAIN r = 1 .. Len(s) - 1
  BY <1>1, <1>2, <1>3
<1> HIDE DEF r
<1>5. Range(s) = {s[1]} \cup Range(r)
  <2>1. ASSUME NEW i \in DOMAIN s PROVE s[i] \in {s[1]} \cup Range(r)
    <3>1. CASE i = 1
      BY <3>1
    <3>2. CASE i # 1
      <4>1. i - 1 \in 1 .. Len(s) - 1 /\ r[i - 1] = s[i]
        BY <1>1, <1>3, <1>4, <3>2
      <4> QED BY <1>4, <4>1 DEF Range
    <3> QED BY <3>1, <3>2
  <2>2. ASSUME NEW i \in DOMAIN r PROVE r[i] \in Range(s)
    <3>1. i + 1 \in DOMAIN s /\ r[i] = s[i + 1]
      BY <1>1, <1>3, <1>4
    <3> QED BY <3>1 DEF Range
  <2>3. s[1] \in Range(s)
    BY <1>1, <1>3 DEF Range
  <2> QED BY <2>1, <2>2, <2>3 DEF Range
<1>6. ASSUME IsInjective(s) PROVE IsInjective(r) /\ s[1] \notin Range(r)
  <2>1. ASSUME NEW i \in DOMAIN r, NEW j \in DOMAIN r, r[i] = r[j] PROVE i = j
    <3>1. i + 1 \in DOMAIN s /\ j + 1 \in DOMAIN s /\ s[i + 1] = s[j + 1]
      BY <1>1, <1>3, <1>4, <2>1
    <3>2. i + 1 = j + 1 /\ i \in Nat /\ j \in Nat
      BY <1>4, <1>6, <3>1, <1>1 DEF IsInjective
    <3> QED BY <3>2
  <2>2. ASSUME NEW i \in DOMAIN r PROVE r[i] # s[1]
    <3>1. i + 1 \in DOMAIN s /\ r[i] = s[i + 1] /\ 1 \in DOMAIN s /\ i + 1 # 1
      BY <1>1, <1>3, <1>4
    <3> QED BY <1>6, <3>1 DEF IsInjective
  <2> QED BY <2>1, <2>2 DEF IsInjective, Range
<1> QED BY <1>1, <1>5, <1>6 DEF r

\* A prefix of a prefix is a prefix.
LEMMA PrefixOfPrefix ==
  ASSUME NEW n \in Seq(Nat), NEW j \in 0 .. Len(n), NEW k \in 0 .. j
  PROVE  /\ SubSeq(n, 1, j) \in Seq(Nat) /\ Len(SubSeq(n, 1, j)) = j
         /\ SubSeq(SubSeq(n, 1, j), 1, k) = SubSeq(n, 1, k)
         /\ SubSeq(n, 1, Len(n)) = n
<1> DEFINE p == SubSeq(n, 1, j)
<1>1. p \in Seq(Nat) /\ Len(p) = j /\ \A i \in 1 .. j : p[i] = n[i]
  OBVIOUS
<1>2. SubSeq(n, 1, k) \in Seq(Nat) /\ Len(SubSeq(n, 1, k)) = k /\ \A i \in 1 .. k : SubSeq(n, 1, k)[i] = n[i]
  OBVIOUS
<1> HIDE DEF p
<1>3. SubSeq(p, 1, k) \in Seq(Nat) /\ Len(SubSeq(p, 1, k)) = k /\ \A i \in 1 .. k : SubSeq(p, 1, k)[i] = p[i]
  BY <1>1
<1>4. SubSeq(p, 1, k) = SubSeq(n, 1, k)
  BY <1>1, <1>2, <1>3
<1>5. SubSeq(n, 1, Len(n)) = n
  OBVIOUS
<1> QED BY <1>1, <1>4, <1>5 DEF p

-----------------------------------------------------------------------------
\* The constants

\* The paths that clone_pml4t() goes through.
LEMMA NodeFacts ==
  /\ Nodes \in Seq(Seq(Nat)) /\ Nodes \in Seq(Range(Nodes)) /\ IsInjective(Nodes)
  /\ <<>> \in Range(Nodes) /\ <<0>> \in Range(Nodes) /\ Range(Layout) \subseteq Range(Nodes)
  /\ \A n \in Range(Nodes) : n \in Seq(Nat) /\ Len(n) \in 0 .. 4
<1> DEFINE top == <<<<>>, <<0>>>>
           P == {n \in Seq(Nat) : Len(n) \in 0 .. 4}
<1>1. top \in Seq(P) /\ Layout \in Seq(P) /\ Len(top) = 2 /\ top[1] = <<>> /\ top[2] = <<0>>
  BY AddressAssumption
<1> HIDE DEF top, P
<1>0. /\ top \o Layout \in Seq(P) /\ Len(top \o Layout) = Len(top) + Len(Layout)
      /\ \A i \in 1 .. Len(top) + Len(Layout) :
           (top \o Layout)[i] = IF i <= Len(top) THEN top[i] ELSE Layout[i - Len(top)]
  BY <1>1, ConcatProperties
<1>2. top \o Layout \in Seq(P) /\ Len(top \o Layout) = 2 + Len(Layout) /\ Len(Layout) \in Nat
  BY <1>0, <1>1
<1>3. \A i \in 1 .. 2 : (top \o Layout)[i] = top[i]
  BY <1>0, <1>1, <1>2
<1>4. \A i \in 1 .. Len(Layout) : (top \o Layout)[i + 2] = Layout[i]
  <2> TAKE i \in 1 .. Len(Layout)
  <2>1. i + 2 \in 1 .. Len(top) + Len(Layout) /\ ~(i + 2 <= Len(top)) /\ (i + 2) - Len(top) = i
    BY <1>1, <1>2
  <2> QED BY <1>0, <2>1
<1>5. Nodes = top \o Layout
  BY DEF Nodes, top
<1> HIDE DEF Nodes
<1>6. DOMAIN Nodes = 1 .. 2 + Len(Layout) /\ DOMAIN Layout = 1 .. Len(Layout)
  BY <1>1, <1>2, <1>5
<1>7. \A i \in DOMAIN Nodes : Nodes[i] \in P
  BY <1>2, <1>5, <1>6
<1>8. Nodes[1] = <<>> /\ Nodes[2] = <<0>> /\ 1 \in DOMAIN Nodes /\ 2 \in DOMAIN Nodes
  BY <1>1, <1>2, <1>3, <1>5, <1>6
<1>9. \A i \in DOMAIN Layout : i + 2 \in DOMAIN Nodes /\ Nodes[i + 2] = Layout[i]
  BY <1>2, <1>4, <1>5, <1>6
<1>10. Nodes \in Seq(Seq(Nat))
  BY <1>2, <1>5 DEF P
<1>11. Nodes \in Seq(Range(Nodes))
  <2>1. Nodes \in [1 .. Len(Nodes) -> Range(Nodes)] /\ Len(Nodes) \in Nat
    BY <1>10 DEF Range
  <2> QED BY <2>1
<1>12. \A n \in Range(Nodes) : n \in Seq(Nat) /\ Len(n) \in 0 .. 4
  BY <1>7 DEF P, Range
<1>14. Range(Layout) \subseteq Range(Nodes)
  BY <1>9 DEF Range
<1> QED BY <1>8, <1>10, <1>11, <1>12, <1>14, AddressAssumption DEF Range

\* clean_user_space() keeps the pages of the stacks.
LEMMA StackFacts ==
  /\ Stacks \in Seq(Range(Nodes))
  /\ \A n \in Range(Stacks) : n \in Range(Nodes) /\ IsPage(n) /\ ~Cleaned(n)
<1> DEFINE a == <<0, 2, 511, 511>>
           b == <<0, 2, 511, 510>>
<1>1. IsPage(a) /\ IsPage(b) /\ ~Cleaned(a) /\ ~Cleaned(b)
  BY DEF IsPage, Cleaned
<1> HIDE DEF a, b
<1>2. Stacks = <<a, b>>
  BY DEF Stacks, a, b
<1>3. Range(Stacks) = {a, b}
  BY <1>2 DEF Range
<1>4. a \in Range(Nodes) /\ b \in Range(Nodes)
  BY <1>3, AddressAssumption, NodeFacts
<1>5. Stacks \in Seq(Range(Nodes))
  BY <1>2, <1>4
<1> QED BY <1>1, <1>3, <1>4, <1>5

\* An address is in one place of one page.
LEMMA SameByte ==
  ASSUME NEW a \in Nat, NEW b \in Nat, PageOf(a) = PageOf(b), a % Unit = b % Unit
  PROVE  a = b
<1>1. Unit \in Nat \ {0}
  BY AddressAssumption
<1> DEFINE p == a \div Unit
           q == b \div Unit
<1>2. p \in Nat /\ q \in Nat /\ a = Unit * p + (a % Unit) /\ b = Unit * q + (b % Unit)
  BY <1>1
<1>3. Path(p) = Path(q)
  BY DEF PageOf
<1> HIDE DEF p, q
<1>4. p \div 262144 = q \div 262144 /\ (p \div 512) % 512 = (q \div 512) % 512 /\ p % 512 = q % 512
  BY <1>3 DEF Path
<1>5. p = q
  BY <1>2, <1>4
<1> QED BY <1>2, <1>5

\* A page has a path of four entries.
LEMMA PathFacts ==
  ASSUME NEW a \in Nat
  PROVE  PageOf(a) \in Seq(Nat) /\ Len(PageOf(a)) = 4 /\ a % Unit \in 0 .. Unit - 1
<1>1. Unit \in Nat \ {0}
  BY AddressAssumption
<1> DEFINE p == a \div Unit
<1>2. p \in Nat /\ a % Unit \in 0 .. Unit - 1
  BY <1>1
<1> HIDE DEF p
<1>3. p \div 262144 \in Nat /\ (p \div 512) % 512 \in Nat /\ p % 512 \in Nat
  BY <1>2
<1>4. Path(p) \in Seq(Nat) /\ Len(Path(p)) = 4
  BY <1>3 DEF Path
<1> QED BY <1>2, <1>4 DEF PageOf, p

\* Programs are made of pages that are no stacks.
LEMMA ProgramFacts ==
  ASSUME NEW file \in Programs
  PROVE  /\ Len(file) \in Nat \ {0} /\ DOMAIN file = 1 .. Len(file)
         /\ \A s \in DOMAIN file : /\ MappedPages(file[s]) \in Seq(Range(Nodes))
                                  /\ Range(MappedPages(file[s])) \subseteq LoadPages
                                  /\ \A a \in Bytes(file[s]) : a \in Nat /\ PageOf(a) \in LoadPages
<1>1. file \in Seq(Segments) /\ file # <<>> /\ Unit \in Nat \ {0}
  BY AddressAssumption
<1>2. LoadPages \subseteq Range(Nodes)
  BY NodeFacts DEF LoadPages
<1>3. Len(file) \in Nat \ {0} /\ DOMAIN file = 1 .. Len(file)
  BY <1>1
<1>4. ASSUME NEW s \in DOMAIN file
      PROVE  /\ MappedPages(file[s]) \in Seq(Range(Nodes)) /\ Range(MappedPages(file[s])) \subseteq LoadPages
             /\ \A a \in Bytes(file[s]) : a \in Nat /\ PageOf(a) \in LoadPages
  <2>1. /\ Range(MappedPages(file[s])) \subseteq LoadPages
        /\ \A a \in Bytes(file[s]) : PageOf(a) \in LoadPages
    BY AddressAssumption
  <2> HIDE DEF LoadPages
  <2>2. PICK g : g = file[s]
    OBVIOUS
  <2>3. g \in Segments
    BY <1>1, <2>2
  <2>4. g.vaddr \in Nat /\ g.filesz \in Nat /\ g.memsz \in Nat
    BY <2>3 DEF Segments
  <2>5. \A a \in Bytes(g) : a \in Nat
    BY <2>4 DEF Bytes
  <2> DEFINE n == g.memsz \div Unit + 1
             q == MappedPages(g)
  <2>6. n \in Nat
    BY <1>1, <2>4
  <2>7. DOMAIN q = 1 .. n /\ q = [i \in 1 .. n |-> q[i]]
    BY DEF MappedPages
  <2>8. \A i \in 1 .. n : q[i] \in Range(Nodes)
    <3> HIDE DEF n, q
    <3>1. Range(q) \subseteq Range(Nodes)
      BY <1>2, <2>1, <2>2 DEF q
    <3> QED BY <2>7, <3>1 DEF Range
  <2> HIDE DEF n, q
  <2>9. q \in [1 .. n -> Range(Nodes)]
    BY <2>7, <2>8
  <2>10. q \in Seq(Range(Nodes))
    BY <2>6, <2>9, SeqDef
  <2> QED BY <2>1, <2>2, <2>5, <2>10 DEF q
<1> QED BY <1>3, <1>4

-----------------------------------------------------------------------------
\* What a step does to the address spaces

\* A function on 1 .. N is a sequence.
LEMMA RangeSeq ==
  ASSUME NEW N \in Nat, NEW S, NEW s \in [1 .. N -> S]
  PROVE  s \in Seq(Range(s)) /\ DOMAIN s = 1 .. N
<1>1. s \in [1 .. N -> Range(s)] /\ DOMAIN s = 1 .. N
  BY DEF Range
<1>2. s \in Seq(Range(s))
  BY <1>1, SeqDef
<1>3. QED
  BY <1>1, <1>2

\* alloc_page() and create_page_for_current() write one entry.
LEMMA Inserted ==
  ASSUME Typed, NEW n \in Range(Nodes), NEW f \in Frames,
         space' = [space EXCEPT ![current] = With(@, n, f)]
  PROVE  /\ Tasks' = Tasks /\ space' \in Seq(Range(space'))
         /\ \A t \in Tasks : IsSpace(space'[t])
         /\ \A t \in Tasks : t # current => space'[t] = space[t]
         /\ DOMAIN space'[current] = DOMAIN space[current] \cup {n}
         /\ space'[current][n] = f
         /\ \A m \in DOMAIN space[current] : m # n => space'[current][m] = space[current][m]
<1> DEFINE g == With(space[current], n, f)
<1>1. DOMAIN g = DOMAIN space[current] \cup {n} /\ g[n] = f
      /\ \A m \in DOMAIN space[current] : m # n => g[m] = space[current][m]
  BY DEF With
<1>2. IsSpace(g)
  <2>1. IsSpace(space[current])
    BY DEF Typed
  <2>2. \A m \in DOMAIN g : g[m] \in Frames
    BY <1>1, <2>1 DEF IsSpace
  <2>3. g = [m \in DOMAIN g |-> g[m]]
    BY <1>1 DEF With
  <2> HIDE DEF g
  <2>4. g \in [DOMAIN g -> Frames]
    BY <2>2, <2>3
  <2> QED BY <1>1, <2>1, <2>4 DEF IsSpace
<1> HIDE DEF g
<1>3. Len(space) \in Nat /\ space = [i \in 1 .. Len(space) |-> space[i]] /\ Tasks = 1 .. Len(space)
  BY DEF Typed, Tasks
<1>4. space' = [space EXCEPT ![current] = g]
  BY DEF g
<1>5. space' \in [1 .. Len(space) -> Range(space) \cup {g}]
  BY <1>3, <1>4 DEF Range
<1>6. space' \in Seq(Range(space')) /\ DOMAIN space' = 1 .. Len(space)
  <2> DEFINE S == Range(space) \cup {g}
             r == space'
  <2>1. Len(space) \in Nat /\ r \in [1 .. Len(space) -> S]
    BY <1>3, <1>5
  <2> HIDE DEF S, r
  <2>2. r \in Seq(Range(r)) /\ DOMAIN r = 1 .. Len(space)
    BY <2>1, RangeSeq
  <2> QED BY <2>2 DEF r
<1>7. space'[current] = g /\ \A t \in Tasks : t # current => space'[t] = space[t]
  BY <1>4 DEF Typed, Tasks
<1> QED BY <1>1, <1>2, <1>3, <1>6, <1>7 DEF Typed, Tasks

\* An entry that is written gives its frame a place and its old frame none.
LEMMA InsertedHeld ==
  ASSUME Typed, Exclusive, Total, NEW n \in Range(Nodes), NEW f \in Frames,
         space' = [space EXCEPT ![current] = With(@, n, f)],
         f \in Loose, clone' = clone, current' = current,
         \A g \in Frames :
           (g \in Loose') <=> \/ g \in Loose /\ g # f
                              \/ n \in DOMAIN space[current] /\ g = space[current][n]
  PROVE  Exclusive' /\ Total'
<1>1. /\ Tasks' = Tasks
      /\ \A t \in Tasks : IsSpace(space'[t])
      /\ \A t \in Tasks : t # current => space'[t] = space[t]
      /\ DOMAIN space'[current] = DOMAIN space[current] \cup {n}
      /\ space'[current][n] = f
      /\ \A m \in DOMAIN space[current] : m # n => space'[current][m] = space[current][m]
  BY Inserted
<1>2. /\ current \in Tasks
      /\ \A t \in Tasks : \A m \in DOMAIN space[t] : space[t][m] \in Frames
      /\ \A m \in DOMAIN clone : clone[m] \in Frames
  BY DEF Typed, IsSpace
<1>3. ASSUME NEW t \in Tasks, NEW m \in DOMAIN space'[t]
      PROVE  \/ t = current /\ m = n /\ space'[t][m] = f
             \/ /\ m \in DOMAIN space[t] /\ space'[t][m] = space[t][m]
                /\ ~(t = current /\ m = n)
  BY <1>1
<1>4. \A m \in DOMAIN clone' : clone'[m] \notin Loose'
  BY <1>2 DEF Exclusive
<1>5. \A l, m \in DOMAIN clone' : clone'[l] = clone'[m] => l = m
  BY DEF Exclusive
<1>6. ASSUME NEW t \in Tasks, NEW m \in DOMAIN space'[t]
      PROVE  space'[t][m] \notin Loose' /\ \A l \in DOMAIN clone' : space'[t][m] # clone'[l]
  <2>1. CASE t = current /\ m = n /\ space'[t][m] = f
    <3>1. \A l \in DOMAIN clone : clone[l] # f
      BY DEF Exclusive
    <3>2. f \notin Loose'
      BY <1>2 DEF Exclusive
    <3> QED BY <2>1, <3>1, <3>2
  <2>2. CASE m \in DOMAIN space[t] /\ space'[t][m] = space[t][m] /\ ~(t = current /\ m = n)
    <3>1. space[t][m] \notin Loose
      BY <2>2 DEF Exclusive
    <3>2. n \in DOMAIN space[current] => space[t][m] # space[current][n]
      BY <1>2, <2>2 DEF Exclusive
    <3>3. \A l \in DOMAIN clone : space[t][m] # clone[l]
      BY <2>2 DEF Exclusive
    <3> QED BY <1>2, <2>2, <3>1, <3>2, <3>3
  <2> QED BY <1>3, <2>1, <2>2
<1>7. ASSUME NEW t \in Tasks, NEW u \in Tasks, NEW l \in DOMAIN space'[t], NEW m \in DOMAIN space'[u],
             space'[t][l] = space'[u][m]
      PROVE  t = u /\ l = m
  <2>1. \A v \in Tasks : \A k \in DOMAIN space[v] : space[v][k] # f
    BY DEF Exclusive
  <2>2. CASE t = current /\ l = n /\ space'[t][l] = f
    BY <1>3, <1>7, <2>1, <2>2
  <2>3. CASE l \in DOMAIN space[t] /\ space'[t][l] = space[t][l]
    <3>1. m \in DOMAIN space[u] /\ space'[u][m] = space[u][m]
      BY <1>3, <1>7, <2>1, <2>3
    <3> QED BY <1>7, <2>3, <3>1 DEF Exclusive
  <2> QED BY <1>3, <2>2, <2>3
<1>8. Exclusive'
  BY <1>1, <1>4, <1>5, <1>6, <1>7 DEF Exclusive
<1>9. ASSUME NEW g \in Frames, g \notin Loose', ~\E m \in DOMAIN clone' : clone'[m] = g
      PROVE  \E t \in Tasks' : \E m \in DOMAIN space'[t] : space'[t][m] = g
  <2>1. CASE g = f
    BY <1>1, <1>2, <2>1
  <2>2. CASE g # f
    <3>1. PICK t \in Tasks : \E m \in DOMAIN space[t] : space[t][m] = g
      BY <1>1, <1>9, <2>2 DEF Total
    <3>2. PICK m \in DOMAIN space[t] : space[t][m] = g
      BY <3>1
    <3>3. ~(t = current /\ m = n)
      BY <1>9, <3>2
    <3>4. m \in DOMAIN space'[t] /\ space'[t][m] = g
      BY <1>1, <3>2, <3>3
    <3> QED BY <1>1, <3>4
  <2> QED BY <2>1, <2>2
<1>10. Total'
  BY <1>9 DEF Total
<1> QED BY <1>8, <1>10

\* clone_pml4t() writes one entry of the copy.
LEMMA ClonedHeld ==
  ASSUME Typed, Exclusive, Total, NEW n \in Range(Nodes), NEW f \in Frames,
         n \notin DOMAIN clone, clone' = With(clone, n, f),
         f \in Loose, space' = space,
         \A g \in Frames : (g \in Loose') <=> (g \in Loose /\ g # f)
  PROVE  /\ DOMAIN clone' = DOMAIN clone \cup {n} /\ clone'[n] = f
         /\ \A m \in DOMAIN clone : clone'[m] = clone[m] /\ m # n
         /\ IsSpace(clone') /\ Exclusive' /\ Total'
<1>1. /\ DOMAIN clone' = DOMAIN clone \cup {n} /\ clone'[n] = f
      /\ \A m \in DOMAIN clone : clone'[m] = clone[m] /\ m # n
  BY DEF With
<1>2. /\ \A t \in Tasks : \A m \in DOMAIN space[t] : space[t][m] \in Frames
      /\ \A m \in DOMAIN clone : clone[m] \in Frames
      /\ DOMAIN clone \subseteq Range(Nodes)
  BY DEF Typed, IsSpace
<1>3. IsSpace(clone')
  <2>1. clone' = [m \in DOMAIN clone' |-> clone'[m]]
    BY <1>1 DEF With
  <2>2. \A m \in DOMAIN clone' : clone'[m] \in Frames
    BY <1>1, <1>2
  <2>3. clone' \in [DOMAIN clone' -> Frames]
    BY <2>1, <2>2
  <2> QED BY <1>1, <1>2, <2>3 DEF IsSpace
<1>4. Exclusive'
  <2>1. \A m \in DOMAIN clone : clone[m] \notin Loose /\ clone[m] # f
    BY DEF Exclusive
  <2>2. \A m \in DOMAIN clone' : clone'[m] \notin Loose'
    BY <1>1, <1>2, <2>1
  <2>3. \A l, m \in DOMAIN clone' : clone'[l] = clone'[m] => l = m
    BY <1>1, <2>1 DEF Exclusive
  <2>4. \A t \in Tasks : \A m \in DOMAIN space[t] : space[t][m] \notin Loose /\ space[t][m] # f
    BY DEF Exclusive
  <2>5. \A t \in Tasks : \A m \in DOMAIN space[t] : space[t][m] \notin Loose'
    BY <1>2, <2>4
  <2>6. \A t \in Tasks : \A m \in DOMAIN space[t], l \in DOMAIN clone' : space[t][m] # clone'[l]
    BY <1>1, <2>4 DEF Exclusive
  <2> QED BY <2>2, <2>3, <2>5, <2>6 DEF Exclusive, Tasks
<1>5. Total'
  <2>1. ASSUME NEW g \in Frames, g \notin Loose', ~\E m \in DOMAIN clone' : clone'[m] = g
        PROVE  \E t \in Tasks : \E m \in DOMAIN space[t] : space[t][m] = g
    <3>1. g # f
      BY <1>1, <2>1
    <3>2. g \notin Loose /\ ~\E m \in DOMAIN clone : clone[m] = g
      BY <1>1, <2>1, <3>1
    <3> QED BY <3>2 DEF Total
  <2> QED BY <2>1 DEF Total, Tasks
<1> QED BY <1>1, <1>3, <1>4, <1>5

\* The new task gets the copy.
LEMMA Appended ==
  ASSUME Typed, space' = Append(space, clone)
  PROVE  /\ Len(space) \in Nat /\ Tasks = 1 .. Len(space)
         /\ Tasks' = Tasks \cup {Len(space) + 1} /\ Len(space) + 1 \notin Tasks
         /\ space' \in Seq(Range(space'))
         /\ \A t \in Tasks : space'[t] = space[t]
         /\ space'[Len(space) + 1] = clone
<1> DEFINE S == Range(space) \cup {clone}
           r == Append(space, clone)
<1>1. Len(space) \in Nat /\ Tasks = 1 .. Len(space)
  BY DEF Typed, Tasks
<1>2. space \in Seq(S) /\ clone \in S
  <2>1. Range(space) \subseteq S /\ space \in Seq(Range(space))
    BY DEF Typed
  <2> QED BY <2>1, SeqMonotonic
<1> HIDE DEF S
<1>3. /\ Len(r) = Len(space) + 1 /\ r \in Seq(S)
      /\ \A i \in 1 .. Len(space) : r[i] = space[i]
      /\ r[Len(space) + 1] = clone
  BY <1>1, <1>2
<1> HIDE DEF r
<1>4. r \in [1 .. Len(space) + 1 -> S] /\ DOMAIN r = 1 .. Len(space) + 1
  BY <1>1, <1>3
<1>5. r \in Seq(Range(r))
  <2>1. Len(space) + 1 \in Nat
    BY <1>1
  <2> QED BY <1>4, <2>1, RangeSeq
<1>6. space' = r
  BY DEF r
<1> QED BY <1>1, <1>3, <1>4, <1>5, <1>6 DEF Tasks

LEMMA AppendedHeld ==
  ASSUME Typed, Exclusive, Total, space' = Append(space, clone), clone' = Empty, Loose' = Loose
  PROVE  Exclusive' /\ Total'
<1>1. /\ Tasks' = Tasks \cup {Len(space) + 1} /\ Len(space) + 1 \notin Tasks
      /\ \A t \in Tasks : space'[t] = space[t]
      /\ space'[Len(space) + 1] = clone
  BY Appended
<1>2. DOMAIN clone' = {}
  BY DEF Empty
<1>3. \A t \in Tasks' : \A n \in DOMAIN space'[t] : space'[t][n] \notin Loose'
  BY <1>1 DEF Exclusive
<1>4. ASSUME NEW t \in Tasks', NEW u \in Tasks', NEW n \in DOMAIN space'[t], NEW m \in DOMAIN space'[u],
             space'[t][n] = space'[u][m]
      PROVE  t = u /\ n = m
  <2>0. /\ t \in Tasks => space'[t] = space[t]
        /\ t \notin Tasks => space'[t] = clone /\ t = Len(space) + 1
        /\ u \in Tasks => space'[u] = space[u]
        /\ u \notin Tasks => space'[u] = clone /\ u = Len(space) + 1
    BY <1>1
  <2>1. CASE t \in Tasks /\ u \in Tasks
    <3>1. n \in DOMAIN space[t] /\ m \in DOMAIN space[u] /\ space[t][n] = space[u][m]
      BY <1>4, <2>0, <2>1
    <3> QED BY <2>1, <3>1 DEF Exclusive
  <2>2. CASE t \notin Tasks /\ u \notin Tasks
    <3>1. n \in DOMAIN clone /\ m \in DOMAIN clone /\ clone[n] = clone[m] /\ t = u
      BY <1>4, <2>0, <2>2
    <3> QED BY <3>1 DEF Exclusive
  <2>3. CASE t \in Tasks /\ u \notin Tasks
    <3>1. n \in DOMAIN space[t] /\ m \in DOMAIN clone /\ space[t][n] = clone[m]
      BY <1>4, <2>0, <2>3
    <3> QED BY <2>3, <3>1 DEF Exclusive
  <2>4. CASE t \notin Tasks /\ u \in Tasks
    <3>1. n \in DOMAIN clone /\ m \in DOMAIN space[u] /\ space[u][m] = clone[n]
      BY <1>4, <2>0, <2>4
    <3> QED BY <2>4, <3>1 DEF Exclusive
  <2> QED BY <2>1, <2>2, <2>3, <2>4
<1>5. Exclusive'
  BY <1>2, <1>3, <1>4 DEF Exclusive
<1>6. ASSUME NEW g \in Frames, g \notin Loose'
      PROVE  \E t \in Tasks' : \E m \in DOMAIN space'[t] : space'[t][m] = g
  <2>1. CASE \E m \in DOMAIN clone : clone[m] = g
    BY <1>1, <2>1
  <2>2. CASE ~\E m \in DOMAIN clone : clone[m] = g
    <3>1. \E t \in Tasks : \E m \in DOMAIN space[t] : space[t][m] = g
      BY <1>6, <2>2 DEF Total
    <3> QED BY <1>1, <3>1
  <2> QED BY <2>1, <2>2
<1> QED BY <1>5, <1>6 DEF Total

\* clean_user_space() clears the entries of the program.
LEMMA CleanedSpace ==
  ASSUME Typed, space' = [space EXCEPT ![current] = CleanEntries(@)]
  PROVE  /\ Tasks' = Tasks /\ space' \in Seq(Range(space'))
         /\ \A t \in Tasks : IsSpace(space'[t])
         /\ \A t \in Tasks : t # current => space'[t] = space[t]
         /\ DOMAIN space'[current] = {n \in DOMAIN space[current] : ~Cleaned(n)}
         /\ \A n \in DOMAIN space'[current] : space'[current][n] = space[current][n]
<1> DEFINE g == CleanEntries(space[current])
           S == Range(space) \cup {g}
           r == space'
<1>1. DOMAIN g = {n \in DOMAIN space[current] : ~Cleaned(n)} /\ \A n \in DOMAIN g : g[n] = space[current][n]
  BY DEF CleanEntries, Restrict
<1>2. IsSpace(g)
  <2>1. IsSpace(space[current])
    BY DEF Typed
  <2>2. \A n \in DOMAIN g : g[n] \in Frames
    BY <1>1, <2>1 DEF IsSpace
  <2>3. g = [n \in DOMAIN g |-> g[n]]
    BY <1>1 DEF CleanEntries, Restrict
  <2> HIDE DEF g
  <2>4. g \in [DOMAIN g -> Frames]
    BY <2>2, <2>3
  <2> QED BY <1>1, <2>1, <2>4 DEF IsSpace
<1>3. r = [space EXCEPT ![current] = g]
  OBVIOUS
<1> HIDE DEF g, S, r
<1>4. Len(space) \in Nat /\ space \in [1 .. Len(space) -> Range(space)] /\ Tasks = 1 .. Len(space)
  BY DEF Typed, Tasks
<1>5. r \in [1 .. Len(space) -> S]
  BY <1>3, <1>4 DEF S
<1>6. r \in Seq(Range(r)) /\ DOMAIN r = 1 .. Len(space)
  BY <1>4, <1>5, RangeSeq
<1>7. r[current] = g /\ \A t \in Tasks : t # current => r[t] = space[t]
  BY <1>3, <1>4 DEF Typed
<1> QED BY <1>1, <1>2, <1>4, <1>6, <1>7 DEF Typed, Tasks, r

LEMMA CleanedHeld ==
  ASSUME Typed, Exclusive, Total, space' = [space EXCEPT ![current] = CleanEntries(@)],
         clone' = clone,
         \A g \in Frames :
           (g \in Loose') <=> \/ g \in Loose
                              \/ \E n \in DOMAIN space[current] : Cleaned(n) /\ g = space[current][n]
  PROVE  Exclusive' /\ Total'
<1>1. /\ Tasks' = Tasks
      /\ \A t \in Tasks : t # current => space'[t] = space[t]
      /\ DOMAIN space'[current] = {n \in DOMAIN space[current] : ~Cleaned(n)}
      /\ \A n \in DOMAIN space'[current] : space'[current][n] = space[current][n]
  BY CleanedSpace
<1>2. /\ current \in Tasks
      /\ \A t \in Tasks : \A m \in DOMAIN space[t] : space[t][m] \in Frames
      /\ \A m \in DOMAIN clone : clone[m] \in Frames
  BY DEF Typed, IsSpace
<1>3. ASSUME NEW t \in Tasks, NEW n \in DOMAIN space'[t]
      PROVE  /\ n \in DOMAIN space[t] /\ space'[t][n] = space[t][n]
             /\ t = current => ~Cleaned(n)
  BY <1>1
<1>4. ASSUME NEW t \in Tasks, NEW n \in DOMAIN space'[t] PROVE space'[t][n] \notin Loose'
  <2>1. space[t][n] \notin Loose
    BY <1>3 DEF Exclusive
  <2>2. \A m \in DOMAIN space[current] : Cleaned(m) => space[t][n] # space[current][m]
    BY <1>2, <1>3 DEF Exclusive
  <2> QED BY <1>2, <1>3, <2>1, <2>2
<1>5. ASSUME NEW m \in DOMAIN clone PROVE clone[m] \notin Loose'
  <2>1. clone[m] \notin Loose /\ \A n \in DOMAIN space[current] : clone[m] # space[current][n]
    BY <1>2 DEF Exclusive
  <2> QED BY <1>2, <2>1
<1>6. \A t \in Tasks : \A n \in DOMAIN space'[t], m \in DOMAIN clone : space'[t][n] # clone[m]
  BY <1>3 DEF Exclusive
<1>7. \A t, u \in Tasks : \A n \in DOMAIN space'[t], m \in DOMAIN space'[u] :
        space'[t][n] = space'[u][m] => t = u /\ n = m
  BY <1>3 DEF Exclusive
<1>8. \A m, n \in DOMAIN clone : clone[m] = clone[n] => m = n
  BY DEF Exclusive
<1>9. Exclusive'
  BY <1>1, <1>4, <1>5, <1>6, <1>7, <1>8 DEF Exclusive
<1>10. ASSUME NEW g \in Frames, g \notin Loose', ~\E m \in DOMAIN clone : clone[m] = g
       PROVE  \E t \in Tasks : \E m \in DOMAIN space'[t] : space'[t][m] = g
  <2>1. g \notin Loose
    BY <1>10
  <2>2. PICK t \in Tasks : \E m \in DOMAIN space[t] : space[t][m] = g
    BY <1>10, <2>1 DEF Total
  <2>3. PICK m \in DOMAIN space[t] : space[t][m] = g
    BY <2>2
  <2>4. ~(t = current /\ Cleaned(m))
    BY <1>10, <2>3
  <2>5. m \in DOMAIN space'[t] /\ space'[t][m] = g
    BY <1>1, <2>3, <2>4
  <2> QED BY <2>5
<1> QED BY <1>1, <1>9, <1>10 DEF Total

-----------------------------------------------------------------------------
\* The invariant is inductive

LEMMA SameHeld ==
  ASSUME LooseApart, Exclusive, Total, UNCHANGED <<free, spare, lost, held, space, clone>>
  PROVE  LooseApart' /\ Exclusive' /\ Total'
<1>1. Loose' = Loose /\ Tasks' = Tasks
  BY DEF Loose, Tasks
<1> QED BY <1>1 DEF LooseApart, Exclusive, Total

\* The rest of a list of pages or nodes.
LEMMA RestOfJob ==
  ASSUME Typed, job.todo # <<>>, job' = [job EXCEPT !.todo = Tail(@)]
  PROVE  /\ job'.kind = job.kind /\ job'.todo = Tail(job.todo)
         /\ job' \in [kind : {"idle", "stack", "clone", "load"}, todo : Seq(Range(Nodes))]
         /\ Head(job.todo) \in Range(Nodes) /\ Head(job.todo) \in Range(job.todo)
         /\ Range(job.todo) = {Head(job.todo)} \cup Range(job'.todo)
         /\ IsInjective(job.todo) => /\ IsInjective(job'.todo)
                                     /\ Head(job.todo) \notin Range(job'.todo)
<1> DEFINE s == job.todo
           N == Range(Nodes)
<1>1. job \in [kind : {"idle", "stack", "clone", "load"}, todo : Seq(N)]
  BY DEF Typed
<1>2. s \in Seq(N) /\ s # <<>>
  BY <1>1
<1> HIDE DEF N, s
<1>3. /\ Head(s) \in Range(s) /\ Tail(s) \in Seq(N) /\ Range(s) = {Head(s)} \cup Range(Tail(s))
      /\ IsInjective(s) => IsInjective(Tail(s)) /\ Head(s) \notin Range(Tail(s))
  BY <1>2, HeadTail
<1>4. Head(s) \in N
  BY <1>2
<1>5. job'.kind = job.kind /\ job'.todo = Tail(s)
  BY <1>1 DEF s
<1>6. job' \in [kind : {"idle", "stack", "clone", "load"}, todo : Seq(N)]
  BY <1>1, <1>3 DEF s
<1> QED BY <1>3, <1>4, <1>5, <1>6 DEF s, N

LEMMA InitSpace == Init => SpaceInv
<1> SUFFICES ASSUME Init PROVE SpaceInv
  OBVIOUS
<1> USE AddressAssumption
<1>1. PICK pml4 \in Frames \ SparePages, pdp \in Frames \ SparePages :
        /\ pml4 < pdp
        /\ free = Frames \ (SparePages \cup {pml4, pdp})
        /\ space = <<[n \in {<<>>, <<0>>} |-> IF n = <<>> THEN pml4 ELSE pdp]>>
  BY DEF Init
<1>2. /\ spare = SparePages /\ current = 1 /\ job = Idle /\ held = 0 /\ clone = Empty /\ lost = {}
      /\ loading = [file |-> NoProgram, segment |-> 0]
  BY DEF Init
<1> DEFINE g == [n \in {<<>>, <<0>>} |-> IF n = <<>> THEN pml4 ELSE pdp]
<1>3. /\ DOMAIN g = {<<>>, <<0>>} /\ <<0>> # <<>> /\ g[<<>>] = pml4 /\ g[<<0>>] = pdp
      /\ g \in [DOMAIN g -> Frames] /\ pml4 # pdp
  BY <1>1
<1>4. IsSpace(g)
  BY <1>3, NodeFacts DEF IsSpace
<1>5. space = <<g>>
  BY <1>1
<1> HIDE DEF g
<1>6. Tasks = {1} /\ space[1] = g /\ space \in Seq(Range(space))
  <2>1. DOMAIN space = 1 .. 1 /\ space[1] = g
    BY <1>5
  <2>2. space \in [1 .. 1 -> {g}] /\ 1 \in Nat
    BY <1>5
  <2>3. space \in Seq(Range(space))
    BY <2>2, RangeSeq
  <2> QED BY <2>1, <2>3 DEF Tasks
<1>7. DOMAIN clone = {} /\ IsSpace(clone) /\ job.kind = "idle"
  BY <1>2 DEF Empty, IsSpace, Idle
<1>8. Typed
  <2>1. job \in [kind : {"idle", "stack", "clone", "load"}, todo : Seq(Range(Nodes))]
    BY <1>2 DEF Idle
  <2>2. loading \in [file : Programs \cup {NoProgram}, segment : Nat]
    BY <1>2
  <2> QED BY <1>1, <1>2, <1>4, <1>6, <1>7, <2>1, <2>2 DEF Typed
<1>9. Jobs
  BY <1>2, <1>7 DEF Jobs
<1>10. \A f \in Frames : f \in Loose <=> f # pml4 /\ f # pdp
  BY <1>1, <1>2 DEF Loose
<1>11. LooseApart
  BY <1>1, <1>2 DEF LooseApart
<1>12. Exclusive
  <2>1. \A n \in DOMAIN g : g[n] \notin Loose
    BY <1>3, <1>10
  <2>2. \A m, n \in DOMAIN g : g[m] = g[n] => m = n
    BY <1>3
  <2> QED BY <1>6, <1>7, <2>1, <2>2 DEF Exclusive
<1>13. Total
  <2>1. 1 \in Tasks /\ <<>> \in DOMAIN space[1] /\ space[1][<<>>] = pml4
    BY <1>3, <1>6
  <2>2. <<0>> \in DOMAIN space[1] /\ space[1][<<0>>] = pdp
    BY <1>3, <1>6
  <2> QED BY <1>10, <2>1, <2>2 DEF Total
<1>14. StacksMapped
  BY <1>6, <1>7 DEF StacksMapped
<1> QED BY <1>8, <1>9, <1>11, <1>12, <1>13, <1>14 DEF SpaceInv

LEMMA AllocFrameSpace ==
  ASSUME SpaceInv, AllocFrame
  PROVE  SpaceInv'
<1> USE DEF SpaceInv
<1>1. UNCHANGED <<spare, space, current, job, loading, clone, lost>>
  BY DEF AllocFrame
<1>2. Tasks' = Tasks
  BY <1>1 DEF Tasks
<1>3. Jobs' /\ StacksMapped'
  BY <1>1, <1>2 DEF Jobs, StacksMapped
<1>4. CASE free = {}
  <2>1. UNCHANGED <<free, held>>
    BY <1>4 DEF AllocFrame
  <2>2. LooseApart' /\ Exclusive' /\ Total'
    BY <1>1, <2>1, SameHeld
  <2>3. Typed'
    BY <1>1, <1>2, <2>1 DEF Typed
  <2> QED BY <1>3, <2>2, <2>3
<1>5. CASE free # {}
  <2>1. held = 0 /\ held' = Min(free) /\ free' = free \ {Min(free)}
    BY <1>5 DEF AllocFrame
  <2>2. Min(free) \in free /\ free \subseteq Frames
    <3>1. free \in SUBSET Nat
      BY AddressAssumption DEF Typed
    <3> QED BY <1>5, <3>1, MinIsIn DEF Typed
  <2>3. Typed'
    BY <1>1, <1>2, <2>1, <2>2 DEF Typed
  <2>4. \A g \in Frames : g \in Loose' <=> g \in Loose
    BY <1>1, <2>1, <2>2, AddressAssumption DEF Loose
  <2>5. LooseApart'
    BY <1>1, <2>1, <2>2 DEF LooseApart
  <2>6. /\ \A t \in Tasks : \A m \in DOMAIN space[t] : space[t][m] \in Frames
        /\ \A m \in DOMAIN clone : clone[m] \in Frames
    BY DEF Typed, IsSpace
  <2>7. Exclusive'
    BY <1>1, <1>2, <2>4, <2>6 DEF Exclusive
  <2>8. Total'
    BY <1>1, <1>2, <2>4 DEF Total
  <2> QED BY <1>3, <2>3, <2>5, <2>7, <2>8
<1> QED BY <1>4, <1>5

\* The path of the first table that is missing.
LEMMA MissingFacts ==
  ASSUME Typed, NEW n \in Range(Nodes), IsPage(n), Missing(n) # {}
  PROVE  LET p == SubSeq(n, 1, Min(Missing(n)))
         IN  /\ p \in Range(Nodes) /\ p \notin DOMAIN space[current] /\ ~IsPage(p)
             /\ Min(Missing(n)) \in 1 .. 3
             /\ \A k \in 1 .. Min(Missing(n)) - 1 : SubSeq(n, 1, k) \in DOMAIN space[current]
<1> DEFINE j == Min(Missing(n))
<1>1. Missing(n) \in SUBSET Nat /\ Missing(n) \subseteq 1 .. 3
  BY DEF Missing
<1>2. j \in Missing(n) /\ \A x \in Missing(n) : j <= x
  BY <1>1, MinIsIn
<1> HIDE DEF j
<1>3. j \in 1 .. 3 /\ SubSeq(n, 1, j) \notin DOMAIN space[current]
  BY <1>2 DEF Missing
<1>4. Len(n) = 4 /\ n \in Seq(Nat) /\ j \in 0 .. Len(n)
  BY <1>3, NodeFacts DEF IsPage
<1>5. Len(SubSeq(n, 1, j)) = j
  BY <1>4, PrefixOfPrefix
<1>6. SubSeq(n, 1, j) \in Range(Nodes)
  BY <1>4, AddressAssumption
<1>7. ASSUME NEW k \in 1 .. j - 1 PROVE SubSeq(n, 1, k) \in DOMAIN space[current]
  <2>1. k \in 1 .. 3 /\ ~(j <= k)
    BY <1>3
  <2> QED BY <1>2, <2>1 DEF Missing
<1> QED BY <1>3, <1>5, <1>6, <1>7 DEF IsPage, j

\* What alloc_page() maps is a page, and never a stack of a task but the first.
LEMMA MappedPage ==
  ASSUME Typed, Jobs, Mapping
  PROVE  /\ Head(job.todo) \in Range(Nodes) /\ IsPage(Head(job.todo))
         /\ job.kind = "load" => /\ Head(job.todo) \in LoadPages
                                 /\ Head(job.todo) \in Range(MappedPages(loading.file[loading.segment]))
         /\ job.kind = "stack" => current = 1
<1>1. job.todo # <<>> /\ job.kind \in {"stack", "load"}
  BY DEF Mapping
<1>2. Head(job.todo) \in Range(job.todo) /\ Head(job.todo) \in Range(Nodes)
  <2> DEFINE s == job.todo
             N == Range(Nodes)
  <2>1. s \in Seq(N) /\ s # <<>>
    BY <1>1 DEF Typed
  <2> HIDE DEF s, N
  <2>2. Head(s) \in Range(s) /\ Head(s) \in N
    BY <2>1, HeadTail
  <2> QED BY <2>2 DEF s, N
<1>3. CASE job.kind = "stack"
  BY <1>2, <1>3, StackFacts DEF Jobs
<1>4. CASE job.kind = "load"
  <2>1. Head(job.todo) \in Range(MappedPages(loading.file[loading.segment]))
    BY <1>2, <1>4 DEF Jobs
  <2>2. Head(job.todo) \in LoadPages
    BY <1>4, <2>1, ProgramFacts DEF Jobs
  <2>3. IsPage(Head(job.todo))
    BY <2>2 DEF LoadPages
  <2> QED BY <1>2, <1>4, <2>1, <2>2, <2>3
<1> QED BY <1>1, <1>3, <1>4

LEMMA MakeTableSpace ==
  ASSUME SpaceInv, MakeTable
  PROVE  SpaceInv'
<1> USE DEF SpaceInv
<1> DEFINE n == SubSeq(Head(job.todo), 1, Min(Missing(Head(job.todo))))
<1>1. UNCHANGED <<spare, current, job, loading, held, clone, lost>> /\ Mapping
  BY DEF MakeTable
<1>2. n \in Range(Nodes) /\ n \notin DOMAIN space[current] /\ ~IsPage(n)
  BY MissingFacts, MappedPage, <1>1 DEF MakeTable
<1>3. CASE free = {}
  <2>1. UNCHANGED <<free, space>>
    BY <1>3 DEF MakeTable
  <2>2. LooseApart' /\ Exclusive' /\ Total'
    BY <1>1, <2>1, SameHeld
  <2>3. Typed'
    BY <1>1, <2>1 DEF Typed, Tasks
  <2>4. Jobs' /\ StacksMapped'
    BY <1>1, <2>1 DEF Jobs, StacksMapped, Tasks
  <2> QED BY <2>2, <2>3, <2>4
<1>4. CASE free # {}
  <2> DEFINE f == Min(free)
  <2>1. space' = [space EXCEPT ![current] = With(@, n, f)] /\ free' = free \ {f}
    BY <1>4 DEF MakeTable
  <2>2. f \in free /\ f \in Frames /\ f \in Loose
    <3>1. free \in SUBSET Nat
      BY AddressAssumption DEF Typed
    <3> QED BY <1>4, <3>1, MinIsIn DEF Typed, Loose
  <2> HIDE DEF n, f
  <2>3. f \notin spare /\ f \notin lost /\ f # held
    BY <2>2 DEF LooseApart
  <2>4. \A g \in Frames : (g \in Loose') <=> (g \in Loose /\ g # f)
    BY <1>1, <2>1, <2>3 DEF Loose
  <2>5. Exclusive' /\ Total'
    BY <1>1, <1>2, <2>1, <2>2, <2>4, InsertedHeld
  <2>6. LooseApart'
    BY <1>1, <2>1 DEF LooseApart
  <2>7. /\ Tasks' = Tasks /\ space' \in Seq(Range(space'))
        /\ \A t \in Tasks : IsSpace(space'[t])
        /\ \A t \in Tasks : t # current => space'[t] = space[t]
        /\ DOMAIN space'[current] = DOMAIN space[current] \cup {n}
    BY <1>2, <2>1, <2>2, Inserted
  <2>8. Typed'
    BY <1>1, <2>1, <2>2, <2>7 DEF Typed
  <2>9. job.kind # "clone"
    BY <1>1 DEF Mapping
  <2>10. Jobs'
    BY <1>1, <2>9 DEF Jobs
  <2>11. \A t \in Tasks : DOMAIN space[t] \subseteq DOMAIN space'[t]
    BY <2>7
  <2>12. StacksMapped'
    BY <1>1, <2>7, <2>9, <2>11 DEF StacksMapped, Typed
  <2> QED BY <2>5, <2>6, <2>8, <2>10, <2>12
<1> QED BY <1>3, <1>4

LEMMA SetPageSpace ==
  ASSUME SpaceInv, SetPage
  PROVE  SpaceInv'
<1> USE DEF SpaceInv
<1> DEFINE n == Head(job.todo)
<1>1. /\ UNCHANGED <<free, spare, current, loading, clone>> /\ Mapping
      /\ held # 0 /\ held' = 0 /\ job' = [job EXCEPT !.todo = Tail(@)]
      /\ space' = [space EXCEPT ![current] = With(@, n, held)]
      /\ lost' = lost \cup (IF n \in Pages(current) THEN {space[current][n]} ELSE {})
  BY DEF SetPage
<1>2. n \in Range(Nodes) /\ IsPage(n) /\ job.todo # <<>> /\ job.kind \in {"stack", "load"}
  BY <1>1, MappedPage DEF Mapping
<1>3. /\ job'.kind = job.kind
      /\ job' \in [kind : {"idle", "stack", "clone", "load"}, todo : Seq(Range(Nodes))]
      /\ Range(job.todo) = {n} \cup Range(job'.todo)
  BY <1>1, <1>2, RestOfJob
<1> HIDE DEF n
<1>4. held \in Frames /\ held \in Loose /\ held \notin free /\ held \notin spare /\ held \notin lost
  BY <1>1 DEF Typed, Loose, LooseApart
<1>5. n \in Pages(current) <=> n \in DOMAIN space[current]
  BY <1>2 DEF Pages
<1>6. \A t \in Tasks : \A m \in DOMAIN space[t] : space[t][m] \in Frames /\ space[t][m] \notin Loose
  BY DEF Typed, IsSpace, Exclusive
<1>7. \A g \in Frames :
        (g \in Loose') <=> \/ g \in Loose /\ g # held
                           \/ n \in DOMAIN space[current] /\ g = space[current][n]
  BY <1>1, <1>4, <1>5, AddressAssumption DEF Loose
<1>8. Exclusive' /\ Total'
  BY <1>1, <1>2, <1>4, <1>7, InsertedHeld
<1>9. current \in Tasks
  BY DEF Typed
<1>10. LooseApart'
  <2>1. 0 \notin Frames
    BY AddressAssumption
  <2>2. lost' \subseteq Frames /\ \A g \in lost' : g \in lost \/ g \notin Loose
    BY <1>1, <1>5, <1>6, <1>9 DEF Typed
  <2>3. free' \cap lost' = {} /\ spare' \cap lost' = {}
    BY <1>1, <2>2 DEF LooseApart, Loose
  <2>4. free' \subseteq Frames /\ spare' \subseteq Frames /\ free' \cap spare' = {}
    BY <1>1 DEF LooseApart, Typed
  <2> QED BY <1>1, <2>1, <2>2, <2>3, <2>4 DEF LooseApart
<1>11. /\ Tasks' = Tasks /\ space' \in Seq(Range(space'))
       /\ \A t \in Tasks : IsSpace(space'[t])
       /\ \A t \in Tasks : t # current => space'[t] = space[t]
       /\ DOMAIN space'[current] = DOMAIN space[current] \cup {n}
  BY <1>1, <1>2, <1>4, Inserted
<1>12. Typed'
  BY <1>1, <1>3, <1>5, <1>6, <1>9, <1>11 DEF Typed
<1>13. Jobs'
  BY <1>1, <1>2, <1>3 DEF Jobs
<1>14. StacksMapped'
  <2>1. \A t \in Tasks : DOMAIN space[t] \subseteq DOMAIN space'[t]
    BY <1>11
  <2> QED BY <1>1, <1>2, <1>3, <1>9, <1>11, <2>1 DEF StacksMapped
<1> QED BY <1>8, <1>10, <1>12, <1>13, <1>14

LEMMA ForkKernelSpace ==
  ASSUME SpaceInv, ForkKernel
  PROVE  SpaceInv'
<1> USE DEF SpaceInv
<1>1. /\ UNCHANGED <<free, spare, space, current, loading, held, clone, lost>>
      /\ job = Idle /\ current = 1 /\ job' = [kind |-> "stack", todo |-> Stacks]
  BY DEF ForkKernel
<1>2. LooseApart' /\ Exclusive' /\ Total'
  BY <1>1, SameHeld
<1>3. Typed'
  BY <1>1, StackFacts DEF Typed, Tasks
<1>4. DOMAIN clone = {}
  BY <1>1 DEF Jobs, Idle
<1>5. Jobs' /\ StacksMapped'
  BY <1>1, <1>4 DEF Jobs, StacksMapped, Tasks
<1> QED BY <1>2, <1>3, <1>5

LEMMA CloneStartSpace ==
  ASSUME SpaceInv, CloneStart
  PROVE  SpaceInv'
<1> USE DEF SpaceInv
<1>1. /\ UNCHANGED <<free, spare, space, current, loading, held, clone, lost>>
      /\ job' = [kind |-> "clone", todo |-> Nodes]
      /\ job = [kind |-> "stack", todo |-> <<>>] \/ (job = Idle /\ current > 1)
  BY DEF CloneStart
<1>2. LooseApart' /\ Exclusive' /\ Total'
  BY <1>1, SameHeld
<1>3. Typed'
  BY <1>1, NodeFacts DEF Typed, Tasks
<1>4. DOMAIN clone = {}
  BY <1>1 DEF Jobs, Idle
<1>5. current \in Tasks /\ DOMAIN space[current] \subseteq Range(Nodes)
  BY DEF Typed, IsSpace
<1>6. Jobs'
  BY <1>1, <1>4, <1>5, NodeFacts DEF Jobs
<1>7. Range(Stacks) \subseteq DOMAIN space[current]
  <2>1. CASE job = [kind |-> "stack", todo |-> <<>>]
    <3>1. Range(<<>>) = {}
      BY DEF Range
    <3>2. job.kind = "stack" /\ job.todo = <<>>
      BY <2>1
    <3>3. Range(Stacks) \subseteq DOMAIN space[current] \cup Range(<<>>)
      BY <3>2 DEF StacksMapped
    <3> QED BY <3>1, <3>3
  <2>2. CASE current > 1
    BY <1>5, <2>2 DEF StacksMapped
  <2> QED BY <1>1, <2>1, <2>2
<1>8. StacksMapped'
  BY <1>1, <1>7 DEF StacksMapped, Tasks
<1> QED BY <1>2, <1>3, <1>6, <1>8

LEMMA CloneNextSpace ==
  ASSUME SpaceInv, CloneNext
  PROVE  SpaceInv'
<1> USE DEF SpaceInv
<1> DEFINE n == Head(job.todo)
           pool == IF spare # {} THEN spare ELSE free
           f == Min(pool)
<1>1. /\ UNCHANGED <<space, current, loading, held, lost>>
      /\ job.kind = "clone" /\ job.todo # <<>> /\ n \in DOMAIN space[current]
  BY DEF CloneNext
<1>2. Tasks' = Tasks
  BY <1>1 DEF Tasks
<1>3. CASE pool = {}
  <2>1. UNCHANGED <<free, spare, clone, job>>
    BY <1>3 DEF CloneNext
  <2>2. LooseApart' /\ Exclusive' /\ Total'
    BY <1>1, <2>1, SameHeld
  <2>3. Typed' /\ Jobs' /\ StacksMapped'
    BY <1>1, <1>2, <2>1 DEF Typed, Jobs, StacksMapped
  <2> QED BY <2>2, <2>3
<1>4. CASE pool # {}
  <2>1. /\ spare' = spare \ {f} /\ free' = free \ {f} /\ clone' = With(clone, n, f)
        /\ job' = [job EXCEPT !.todo = Tail(@)]
    BY <1>4 DEF CloneNext
  <2>2. f \in pool /\ (f \in free \/ f \in spare) /\ f \in Frames /\ f \in Loose
    <3>1. pool \in SUBSET Nat
      BY AddressAssumption DEF Typed
    <3>2. f \in pool
      BY <1>4, <3>1, MinIsIn
    <3> QED BY <3>2 DEF Typed, Loose
  <2>3. /\ job'.kind = job.kind
        /\ job' \in [kind : {"idle", "stack", "clone", "load"}, todo : Seq(Range(Nodes))]
        /\ n \in Range(Nodes) /\ n \in Range(job.todo)
        /\ Range(job.todo) = {n} \cup Range(job'.todo)
        /\ IsInjective(job.todo) => IsInjective(job'.todo) /\ n \notin Range(job'.todo)
    BY <1>1, <2>1, RestOfJob
  <2> HIDE DEF n, f, pool
  <2>4. n \notin DOMAIN clone /\ IsInjective(job.todo)
    BY <1>1, <2>3 DEF Jobs
  <2>5. f # held /\ f \notin lost
    BY <2>2 DEF LooseApart
  <2>6. \A g \in Frames : (g \in Loose') <=> (g \in Loose /\ g # f)
    BY <1>1, <2>1, <2>5 DEF Loose
  <2>7. /\ DOMAIN clone' = DOMAIN clone \cup {n} /\ IsSpace(clone') /\ Exclusive' /\ Total'
    <3>1. space' = space /\ n \in Range(Nodes) /\ f \in Frames /\ clone' = With(clone, n, f)
      BY <1>1, <2>1, <2>2, <2>3
    <3> QED BY <2>2, <2>4, <2>6, <3>1, ClonedHeld
  <2>8. LooseApart'
    BY <1>1, <2>1 DEF LooseApart
  <2>9. Typed'
    BY <1>1, <1>2, <2>1, <2>3, <2>7 DEF Typed
  <2>10. Jobs'
    BY <1>1, <2>3, <2>4, <2>7 DEF Jobs
  <2>11. StacksMapped'
    BY <1>1, <1>2, <2>3 DEF StacksMapped
  <2> QED BY <2>7, <2>8, <2>9, <2>10, <2>11
<1> QED BY <1>3, <1>4

LEMMA CloneSkipSpace ==
  ASSUME SpaceInv, CloneSkip
  PROVE  SpaceInv'
<1> USE DEF SpaceInv
<1> DEFINE n == Head(job.todo)
<1>1. /\ UNCHANGED <<free, spare, space, current, loading, held, clone, lost>>
      /\ job.kind = "clone" /\ job.todo # <<>> /\ n \notin DOMAIN space[current]
      /\ job' = [job EXCEPT !.todo = Tail(@)]
  BY DEF CloneSkip
<1>2. LooseApart' /\ Exclusive' /\ Total'
  BY <1>1, SameHeld
<1>3. /\ job'.kind = job.kind
      /\ job' \in [kind : {"idle", "stack", "clone", "load"}, todo : Seq(Range(Nodes))]
      /\ Range(job.todo) = {n} \cup Range(job'.todo)
      /\ IsInjective(job.todo) => IsInjective(job'.todo)
  BY <1>1, RestOfJob
<1> HIDE DEF n
<1>4. Typed'
  BY <1>1, <1>3 DEF Typed, Tasks
<1>5. Jobs'
  BY <1>1, <1>3 DEF Jobs
<1>6. StacksMapped'
  BY <1>1, <1>3 DEF StacksMapped, Tasks
<1> QED BY <1>2, <1>4, <1>5, <1>6

LEMMA CloneDoneSpace ==
  ASSUME SpaceInv, CloneDone
  PROVE  SpaceInv' /\ DOMAIN clone = DOMAIN space[current]
<1> USE DEF SpaceInv
<1>1. /\ UNCHANGED <<free, spare, current, loading, held, lost>>
      /\ job = [kind |-> "clone", todo |-> <<>>] /\ job' = Idle
      /\ space' = Append(space, clone) /\ clone' = Empty
  BY DEF CloneDone
<1>2. DOMAIN clone = DOMAIN space[current]
  <2>1. Range(<<>>) = {}
    BY DEF Range
  <2>2. job.kind = "clone" /\ job.todo = <<>>
    BY <1>1
  <2> QED BY <2>1, <2>2 DEF Jobs
<1>3. Loose' = Loose
  BY <1>1 DEF Loose
<1>4. Exclusive' /\ Total'
  BY <1>1, <1>3, AppendedHeld
<1>5. LooseApart'
  BY <1>1 DEF LooseApart
<1>6. /\ Tasks' = Tasks \cup {Len(space) + 1}
      /\ space' \in Seq(Range(space'))
      /\ \A t \in Tasks : space'[t] = space[t]
      /\ space'[Len(space) + 1] = clone
  BY <1>1, Appended
<1>7. /\ job'.kind = "idle" /\ job' \in [kind : {"idle", "stack", "clone", "load"}, todo : Seq(Range(Nodes))]
      /\ DOMAIN clone' = {} /\ IsSpace(clone')
  BY <1>1 DEF Idle, Empty, IsSpace
<1>8. Typed'
  <2>0. IsSpace(clone) /\ \A t \in Tasks : IsSpace(space[t])
    BY DEF Typed
  <2>1. \A t \in Tasks' : IsSpace(space'[t])
    BY <1>6, <2>0
  <2> QED BY <1>1, <1>6, <1>7, <2>1 DEF Typed
<1>9. Jobs'
  BY <1>1, <1>7 DEF Jobs
<1>10. StacksMapped'
  <2>1. Range(Stacks) \subseteq DOMAIN clone
    BY <1>1, <1>2 DEF StacksMapped
  <2>2. \A t \in Tasks' : t \in Tasks \/ space'[t] = clone
    BY <1>6
  <2> QED BY <1>6, <1>7, <2>1, <2>2 DEF StacksMapped
<1> QED BY <1>2, <1>4, <1>5, <1>8, <1>9, <1>10

LEMMA ExecSpace ==
  ASSUME SpaceInv, NEW file \in Programs, NEW elf \in BOOLEAN, Exec(file, elf)
  PROVE  SpaceInv'
<1> USE DEF SpaceInv
<1>1. /\ UNCHANGED <<spare, current, held, clone, lost>>
      /\ job = Idle /\ current > 1
      /\ free' = free \cup {space[current][n] : n \in {m \in DOMAIN space[current] : Cleaned(m)}}
      /\ space' = [space EXCEPT ![current] = CleanEntries(@)]
      /\ loading' = [file |-> file, segment |-> 1]
      /\ job' = [kind |-> "load", todo |-> MappedPages(file[1])]
  BY DEF Exec
<1>2. /\ Tasks' = Tasks /\ space' \in Seq(Range(space'))
      /\ \A t \in Tasks : IsSpace(space'[t])
      /\ \A t \in Tasks : t # current => space'[t] = space[t]
      /\ DOMAIN space'[current] = {n \in DOMAIN space[current] : ~Cleaned(n)}
  BY <1>1, CleanedSpace
<1>3. /\ current \in Tasks
      /\ \A m \in DOMAIN space[current] : space[current][m] \in Frames /\ space[current][m] \notin Loose
  BY DEF Typed, IsSpace, Exclusive
<1>4. \A g : g \in free' <=> \/ g \in free
                             \/ \E n \in DOMAIN space[current] : Cleaned(n) /\ g = space[current][n]
  BY <1>1
<1>5. \A g \in Frames :
        (g \in Loose') <=> \/ g \in Loose
                           \/ \E n \in DOMAIN space[current] : Cleaned(n) /\ g = space[current][n]
  BY <1>1, <1>4 DEF Loose
<1>6. Exclusive' /\ Total'
  BY <1>1, <1>5, CleanedHeld
<1>7. LooseApart'
  <2>1. \A g \in free' : g \in free \/ g \notin Loose
    BY <1>3, <1>4
  <2> QED BY <1>1, <2>1 DEF LooseApart, Loose
<1>8. /\ 1 \in DOMAIN file /\ MappedPages(file[1]) \in Seq(Range(Nodes))
  BY ProgramFacts
<1>9. /\ job' \in [kind : {"idle", "stack", "clone", "load"}, todo : Seq(Range(Nodes))]
      /\ loading' \in [file : Programs \cup {NoProgram}, segment : Nat]
      /\ job'.kind = "load" /\ job'.todo = MappedPages(file[1]) /\ loading'.file = file /\ loading'.segment = 1
  BY <1>1, <1>8
<1>10. Typed'
  <2>1. free' \subseteq Frames
    BY <1>3, <1>4 DEF Typed
  <2> QED BY <1>1, <1>2, <1>9, <2>1 DEF Typed
<1>11. DOMAIN clone = {}
  BY <1>1 DEF Jobs, Idle
<1>12. Jobs'
  BY <1>1, <1>8, <1>9, <1>11 DEF Jobs
<1>13. StacksMapped'
  <2>1. ASSUME NEW t \in Tasks, t > 1 PROVE Range(Stacks) \subseteq DOMAIN space'[t]
    <3>1. Range(Stacks) \subseteq DOMAIN space[t]
      BY <2>1 DEF StacksMapped
    <3> QED BY <1>2, <3>1, StackFacts
  <2> QED BY <1>2, <1>9, <2>1 DEF StacksMapped
<1> QED BY <1>6, <1>7, <1>10, <1>12, <1>13

LEMMA CopySegmentSpace ==
  ASSUME SpaceInv, CopySegment
  PROVE  SpaceInv'
<1> USE DEF SpaceInv
<1>1. /\ UNCHANGED <<free, spare, space, current, held, clone, lost>>
      /\ job = [kind |-> "load", todo |-> <<>>]
  BY DEF CopySegment
<1>2. LooseApart' /\ Exclusive' /\ Total'
  BY <1>1, SameHeld
<1>3. Tasks' = Tasks /\ DOMAIN clone = {} /\ job.kind = "load"
  BY <1>1 DEF Tasks, Jobs
<1> DEFINE file == loading.file
           k == loading.segment
<1>4. file \in Programs /\ k \in DOMAIN file /\ current > 1
  BY <1>3 DEF Jobs
<1>5. Len(file) \in Nat \ {0} /\ DOMAIN file = 1 .. Len(file) /\ k \in Nat
      /\ \A s \in DOMAIN file : MappedPages(file[s]) \in Seq(Range(Nodes))
  BY <1>4, ProgramFacts
<1> DEFINE done == Reached(Bytes(file[k]))
<1>8. CASE done # Bytes(file[k])
  <2>1. UNCHANGED <<job, loading>>
    BY <1>8 DEF CopySegment
  <2>2. Typed' /\ Jobs' /\ StacksMapped'
    BY <1>1, <1>3, <2>1 DEF Typed, Jobs, StacksMapped
  <2> QED BY <1>2, <2>2
<1>6. CASE done = Bytes(file[k]) /\ k < Len(file)
  <2>1. /\ loading' = [loading EXCEPT !.segment = @ + 1]
        /\ job' = [kind |-> "load", todo |-> MappedPages(file[k + 1])]
    BY <1>6 DEF CopySegment
  <2>2. loading \in [file : Programs \cup {NoProgram}, segment : Nat]
    BY DEF Typed
  <2>3. /\ loading' \in [file : Programs \cup {NoProgram}, segment : Nat]
        /\ loading'.file = file /\ loading'.segment = k + 1
    BY <2>1, <2>2
  <2> HIDE DEF file, k, done
  <2>4. k + 1 \in DOMAIN file
    BY <1>4, <1>5, <1>6
  <2>5. /\ job' \in [kind : {"idle", "stack", "clone", "load"}, todo : Seq(Range(Nodes))]
        /\ job'.kind = "load" /\ job'.todo = MappedPages(file[k + 1])
    BY <1>5, <2>1, <2>4
  <2>6. Typed'
    BY <1>1, <1>3, <2>3, <2>5 DEF Typed
  <2>7. Jobs'
    BY <1>1, <1>3, <1>4, <2>3, <2>4, <2>5 DEF Jobs
  <2>8. StacksMapped'
    BY <1>1, <1>3, <2>5 DEF StacksMapped
  <2> QED BY <1>2, <2>6, <2>7, <2>8
<1>7. CASE done = Bytes(file[k]) /\ ~(k < Len(file))
  <2>1. job' = Idle /\ UNCHANGED loading
    BY <1>4, <1>5, <1>7 DEF CopySegment
  <2>2. /\ job' \in [kind : {"idle", "stack", "clone", "load"}, todo : Seq(Range(Nodes))]
        /\ job'.kind = "idle"
    BY <2>1 DEF Idle
  <2>3. Typed'
    BY <1>1, <1>3, <2>1, <2>2 DEF Typed
  <2>4. Jobs' /\ StacksMapped'
    BY <1>1, <1>3, <2>1, <2>2 DEF Jobs, StacksMapped
  <2> QED BY <1>2, <2>3, <2>4
<1> QED BY <1>6, <1>7, <1>8

\* Steps of the CPU leave the tables alone.
LEMMA CpuSpace ==
  ASSUME SpaceInv,
         \/ \E n \in Range(Layout) : Touch(n)
         \/ Forget
         \/ \E t \in Tasks : SwitchTask(t)
         \/ UNCHANGED vars
  PROVE  SpaceInv'
<1> USE DEF SpaceInv
<1>1. /\ UNCHANGED <<free, spare, space, job, loading, held, clone, lost>>
      /\ current' = current \/ (job = Idle /\ current' \in Tasks)
  BY DEF Touch, Forget, SwitchTask, vars
<1>2. LooseApart' /\ Exclusive' /\ Total'
  BY <1>1, SameHeld
<1>3. Tasks' = Tasks
  BY <1>1 DEF Tasks
<1>4. Typed'
  BY <1>1, <1>3 DEF Typed
<1>5. job = Idle => job.kind = "idle"
  BY DEF Idle
<1>6. Jobs' /\ StacksMapped'
  BY <1>1, <1>3, <1>5 DEF Jobs, StacksMapped
<1> QED BY <1>2, <1>4, <1>6

LEMMA NextSpace == SpaceInv /\ [Next]_vars => SpaceInv'
<1> SUFFICES ASSUME SpaceInv, [Next]_vars PROVE SpaceInv'
  OBVIOUS
<1>1. CASE ForkKernel
  BY <1>1, ForkKernelSpace
<1>2. CASE AllocFrame
  BY <1>2, AllocFrameSpace
<1>3. CASE MakeTable
  BY <1>3, MakeTableSpace
<1>4. CASE SetPage
  BY <1>4, SetPageSpace
<1>5. CASE CloneStart
  BY <1>5, CloneStartSpace
<1>6. CASE CloneNext
  BY <1>6, CloneNextSpace
<1>7. CASE CloneSkip
  BY <1>7, CloneSkipSpace
<1>8. CASE CloneDone
  BY <1>8, CloneDoneSpace
<1>9. CASE \E file \in Programs, elf \in BOOLEAN : Exec(file, elf)
  BY <1>9, ExecSpace
<1>10. CASE CopySegment
  BY <1>10, CopySegmentSpace
<1>11. CASE \/ \E n \in Range(Layout) : Touch(n)
            \/ Forget
            \/ \E t \in Tasks : SwitchTask(t)
            \/ UNCHANGED vars
  BY <1>11, CpuSpace
<1> QED BY <1>1, <1>2, <1>3, <1>4, <1>5, <1>6, <1>7, <1>8, <1>9, <1>10, <1>11 DEF Next

\* Whatever tasks fork() and exec() make: the tables, the heap and the block allocator
\* share no frame, none is missing, and every task but the first has its stacks.
THEOREM SpaceInvariant == Spec => []SpaceInv
<1>1. Init => SpaceInv
  BY InitSpace
<1>2. SpaceInv /\ [Next]_vars => SpaceInv'
  BY NextSpace
<1> QED BY <1>1, <1>2, PTL DEF Spec

-----------------------------------------------------------------------------
\* What follows

\* Every frame is in exactly one place.
THEOREM FramesHaveOneHolder == Spec => []OneHolder
<1>1. SpaceInv => OneHolder
  <2> SUFFICES ASSUME SpaceInv, NEW f \in Frames PROVE Cardinality(Holders(f)) = 1
    BY DEF OneHolder
  <2> USE DEF SpaceInv
  <2>1. \A h : h \in Holders(f) <=>
          \/ h = <<"free">> /\ f \in free
          \/ h = <<"spare">> /\ f \in spare
          \/ h = <<"lost">> /\ f \in lost
          \/ h = <<"held">> /\ f = held
          \/ \E n \in DOMAIN clone : h = <<"clone", n>> /\ clone[n] = f
          \/ \E t \in Tasks : \E n \in DOMAIN space[t] : h = <<"space", t, n>> /\ space[t][n] = f
    <3> DEFINE A == {<<"free">> : x \in {f} \cap free}
               B == {<<"spare">> : x \in {f} \cap spare}
               C == {<<"lost">> : x \in {f} \cap lost}
               D == {<<"held">> : x \in {f} \cap {held}}
               E == {<<"clone", n>> : n \in {m \in DOMAIN clone : clone[m] = f}}
               G(t) == {<<"space", t, n>> : n \in {m \in DOMAIN space[t] : space[t][m] = f}}
               H == UNION {G(t) : t \in Tasks}
    <3>1. \A h : h \in A <=> h = <<"free">> /\ f \in free
      OBVIOUS
    <3>2. \A h : h \in B <=> h = <<"spare">> /\ f \in spare
      OBVIOUS
    <3>3. \A h : h \in C <=> h = <<"lost">> /\ f \in lost
      OBVIOUS
    <3>4. \A h : h \in D <=> h = <<"held">> /\ f = held
      OBVIOUS
    <3>5. \A h : h \in E <=> \E n \in DOMAIN clone : h = <<"clone", n>> /\ clone[n] = f
      OBVIOUS
    <3>6. \A t \in Tasks : \A h : h \in G(t) <=> \E n \in DOMAIN space[t] : h = <<"space", t, n>> /\ space[t][n] = f
      OBVIOUS
    <3>7. \A h : h \in H <=> \E t \in Tasks : h \in G(t)
      <4> HIDE DEF G
      <4> QED OBVIOUS
    <3>8. Holders(f) = A \cup B \cup C \cup D \cup E \cup H
      BY DEF Holders
    <3> HIDE DEF A, B, C, D, E, G, H
    <3> QED BY <3>1, <3>2, <3>3, <3>4, <3>5, <3>6, <3>7, <3>8
  <2>2. \E h : Holders(f) = {h}
    <3>1. CASE f \in Loose
      <4>1. /\ \A n \in DOMAIN clone : clone[n] # f
            /\ \A t \in Tasks : \A n \in DOMAIN space[t] : space[t][n] # f
        BY <3>1 DEF Exclusive
      <4>2. CASE f \in free
        <5>1. f \notin spare /\ f \notin lost /\ f # held
          BY <4>2 DEF LooseApart
        <5>2. Holders(f) = {<<"free">>}
          BY <2>1, <4>1, <4>2, <5>1
        <5> QED BY <5>2
      <4>3. CASE f \in spare
        <5>1. f \notin free /\ f \notin lost /\ f # held
          BY <4>3 DEF LooseApart
        <5>2. Holders(f) = {<<"spare">>}
          BY <2>1, <4>1, <4>3, <5>1
        <5> QED BY <5>2
      <4>4. CASE f \in lost
        <5>1. f \notin spare /\ f \notin free /\ f # held
          BY <4>4 DEF LooseApart
        <5>2. Holders(f) = {<<"lost">>}
          BY <2>1, <4>1, <4>4, <5>1
        <5> QED BY <5>2
      <4>5. CASE f = held
        <5>1. f \notin spare /\ f \notin lost /\ f \notin free
          BY <4>5 DEF LooseApart
        <5>2. Holders(f) = {<<"held">>}
          BY <2>1, <4>1, <4>5, <5>1
        <5> QED BY <5>2
      <4> QED BY <3>1, <4>2, <4>3, <4>4, <4>5 DEF Loose
    <3>2. CASE \E n \in DOMAIN clone : clone[n] = f
      <4>1. PICK n \in DOMAIN clone : clone[n] = f
        BY <3>2
      <4>2. f \notin Loose /\ \A t \in Tasks : \A m \in DOMAIN space[t] : space[t][m] # f
        BY <4>1 DEF Exclusive
      <4>3. \A m \in DOMAIN clone : clone[m] = f => m = n
        BY <4>1 DEF Exclusive
      <4>4. Holders(f) = {<<"clone", n>>}
        BY <2>1, <4>1, <4>2, <4>3 DEF Loose
      <4> QED BY <4>4
    <3>3. CASE \E t \in Tasks : \E n \in DOMAIN space[t] : space[t][n] = f
      <4>1. PICK t \in Tasks : \E n \in DOMAIN space[t] : space[t][n] = f
        BY <3>3
      <4>2. PICK n \in DOMAIN space[t] : space[t][n] = f
        BY <4>1
      <4>3. f \notin Loose /\ \A m \in DOMAIN clone : clone[m] # f
        BY <4>2 DEF Exclusive
      <4>4. \A u \in Tasks : \A m \in DOMAIN space[u] : space[u][m] = f => u = t /\ m = n
        BY <4>2 DEF Exclusive
      <4>5. Holders(f) = {<<"space", t, n>>}
        BY <2>1, <4>2, <4>3, <4>4 DEF Loose
      <4> QED BY <4>5
    <3> QED BY <3>1, <3>2, <3>3 DEF Total
  <2> QED BY <2>2, FS_Singleton
<1> QED BY <1>1, SpaceInvariant, PTL

\* Once a task has its stacks their frames never change.
THEOREM StacksNeverMove == Spec => StacksKept
<1> DEFINE Same == \A t \in Tasks : \A n \in Range(Stacks) :
                     t > 1 => /\ n \in Pages(t) /\ n \in DOMAIN space'[t]
                              /\ space'[t][n] = space[t][n]
<1>1. SpaceInv /\ [Next]_vars => [Same]_vars
  <2> SUFFICES ASSUME SpaceInv, Next, NEW t \in Tasks, NEW n \in Range(Stacks), t > 1
               PROVE  /\ n \in Pages(t) /\ n \in DOMAIN space'[t]
                      /\ space'[t][n] = space[t][n]
    OBVIOUS
  <2> USE DEF SpaceInv
  <2>1. n \in Range(Nodes) /\ IsPage(n) /\ ~Cleaned(n) /\ n \in DOMAIN space[t] /\ n \in Pages(t)
    <3>1. n \in Range(Nodes) /\ IsPage(n) /\ ~Cleaned(n)
      BY StackFacts
    <3>2. n \in DOMAIN space[t]
      BY DEF StacksMapped
    <3> QED BY <3>1, <3>2 DEF Pages
  <2>2. CASE UNCHANGED space
    BY <2>1, <2>2
  <2>3. CASE MakeTable
    <3> DEFINE p == SubSeq(Head(job.todo), 1, Min(Missing(Head(job.todo))))
    <3>1. p \in Range(Nodes) /\ ~IsPage(p)
      BY <2>3, MissingFacts, MappedPage DEF MakeTable
    <3>2. CASE free = {}
      BY <2>1, <2>3, <3>2 DEF MakeTable
    <3>3. CASE free # {}
      <4> DEFINE f == Min(free)
      <4>1. space' = [space EXCEPT ![current] = With(@, p, f)]
        BY <2>3, <3>3 DEF MakeTable
      <4>2. f \in Frames
        <5>1. free \in SUBSET Nat
          BY AddressAssumption DEF Typed
        <5> QED BY <3>3, <5>1, MinIsIn DEF Typed
      <4> HIDE DEF p, f
      <4>3. /\ \A u \in Tasks : u # current => space'[u] = space[u]
            /\ DOMAIN space'[current] = DOMAIN space[current] \cup {p}
            /\ \A m \in DOMAIN space[current] : m # p => space'[current][m] = space[current][m]
        BY <3>1, <4>1, <4>2, Inserted
      <4>4. n # p
        BY <2>1, <3>1
      <4> QED BY <2>1, <4>3, <4>4
    <3> QED BY <3>2, <3>3
  <2>4. CASE SetPage
    <3> DEFINE p == Head(job.todo)
    <3>1. space' = [space EXCEPT ![current] = With(@, p, held)] /\ held \in Frames /\ Mapping
      BY <2>4 DEF SetPage, Typed
    <3>2. p \in Range(Nodes) /\ (t = current => p # n)
      <4>1. p \in Range(Nodes) /\ (job.kind = "load" => p \in LoadPages) /\ (job.kind = "stack" => current = 1)
        BY <3>1, MappedPage
      <4>2. job.kind \in {"load", "stack"}
        BY <3>1 DEF Mapping
      <4> QED BY <4>1, <4>2 DEF LoadPages
    <3> HIDE DEF p
    <3>3. /\ \A u \in Tasks : u # current => space'[u] = space[u]
          /\ DOMAIN space'[current] = DOMAIN space[current] \cup {p}
          /\ \A m \in DOMAIN space[current] : m # p => space'[current][m] = space[current][m]
      BY <3>1, <3>2, Inserted
    <3> QED BY <2>1, <3>2, <3>3
  <2>5. CASE CloneDone
    <3>1. \A u \in Tasks : space'[u] = space[u]
      BY <2>5, Appended DEF CloneDone
    <3> QED BY <2>1, <3>1
  <2>6. CASE \E file \in Programs, elf \in BOOLEAN : Exec(file, elf)
    <3>1. /\ \A u \in Tasks : u # current => space'[u] = space[u]
          /\ DOMAIN space'[current] = {m \in DOMAIN space[current] : ~Cleaned(m)}
          /\ \A m \in DOMAIN space'[current] : space'[current][m] = space[current][m]
      BY <2>6, CleanedSpace DEF Exec
    <3> QED BY <2>1, <3>1
  <2>7. \/ UNCHANGED space
        \/ MakeTable \/ SetPage \/ CloneDone
        \/ \E file \in Programs, elf \in BOOLEAN : Exec(file, elf)
    BY DEF Next, ForkKernel, AllocFrame, CloneStart, CloneNext, CloneSkip, CopySegment, Touch, Forget,
           SwitchTask
  <2> QED BY <2>2, <2>3, <2>4, <2>5, <2>6, <2>7
<1> QED BY <1>1, SpaceInvariant, PTL DEF Spec, StacksKept

-----------------------------------------------------------------------------
\* What the pages hold

LEMMA EmptyPrefix ==
  ASSUME NEW n \in Seq(Nat)
  PROVE  SubSeq(n, 1, 0) = <<>>
<1>1. SubSeq(n, 1, 0) \in Seq(Nat) /\ Len(SubSeq(n, 1, 0)) = 0
  OBVIOUS
<1> QED BY <1>1, EmptySeq

LEMMA WholePrefix ==
  ASSUME NEW n \in Seq(Nat)
  PROVE  SubSeq(n, 1, Len(n)) = n
OBVIOUS

\* The pages of a task's program are pages of user programs.
LEMMA ImagePages ==
  ASSUME ImageTyped, NEW t \in Tasks
  PROVE  /\ program[t] \in Programs \cup {NoProgram}
         /\ \A s \in DOMAIN program[t] :
              /\ program[t] \in Programs
              /\ \A a \in Bytes(program[t][s]) : a \in Nat /\ PageOf(a) \in LoadPages
              /\ \A a \in Kept(program[t], s) : a \in Bytes(program[t][s])
<1>1. program[t] \in Programs \cup {NoProgram}
  BY DEF ImageTyped
<1>2. ASSUME NEW s \in DOMAIN program[t] PROVE program[t] \in Programs
  BY <1>1, <1>2 DEF NoProgram
<1>3. \A s \in DOMAIN program[t] : \A a \in Kept(program[t], s) : a \in Bytes(program[t][s])
  BY DEF Kept
<1> QED BY <1>1, <1>2, <1>3, ProgramFacts

LEMMA InitImage == Init => Image
<1> SUFFICES ASSUME Init PROVE Image
  OBVIOUS
<1> USE AddressAssumption
<1>1. PICK pml4 \in Frames, pdp \in Frames :
        space = <<[n \in {<<>>, <<0>>} |-> IF n = <<>> THEN pml4 ELSE pdp]>>
  BY DEF Init
<1>2. /\ current = 1 /\ job = Idle /\ clone = Empty /\ tlb = Empty /\ program = <<NoProgram>>
      /\ content = [f \in Frames |-> Zero]
  BY DEF Init
<1>3. Tasks = {1} /\ DOMAIN space[1] = {<<>>, <<0>>}
  BY <1>1 DEF Tasks
<1>4. job.kind = "idle" /\ DOMAIN tlb = {} /\ DOMAIN clone = {}
  BY <1>2 DEF Idle, Empty
<1>5. ImageTyped
  BY <1>2, <1>3 DEF ImageTyped
<1>6. Tabled
  <2>1. SubSeq(<<>>, 1, 0) = <<>> /\ SubSeq(<<0>>, 1, 0) = <<>>
    BY EmptyPrefix
  <2>2. <<0>> \in Seq(Nat) /\ Len(<<0>>) = 1 /\ Len(<<>>) = 0
    OBVIOUS
  <2>3. SubSeq(<<0>>, 1, 1) = <<0>>
    <3>1. SubSeq(<<0>>, 1, Len(<<0>>)) = <<0>>
      BY <2>2, WholePrefix
    <3> QED BY <2>2, <3>1
  <2>4. Rooted(space[1])
    <3>1. \A k \in 0 .. Len(<<>>) : SubSeq(<<>>, 1, k) \in DOMAIN space[1]
      BY <1>3, <2>1, <2>2
    <3>2. \A k \in 0 .. 1 : SubSeq(<<0>>, 1, k) \in DOMAIN space[1]
      <4> TAKE k \in 0 .. 1
      <4>1. k = 0 \/ k = 1
        OBVIOUS
      <4> QED BY <1>3, <2>1, <2>3, <4>1
    <3> QED BY <1>3, <2>2, <3>1, <3>2 DEF Rooted
  <2> QED BY <1>3, <2>4 DEF Tabled
<1>7. Coherent /\ Copied /\ PartLoaded
  BY <1>4, Zenon DEF Coherent, Copied, PartLoaded
<1>8. Loaded
  BY <1>2, <1>3 DEF Loaded, NoProgram
<1> QED BY <1>5, <1>6, <1>7, <1>8 DEF Image

LEMMA SameImage ==
  ASSUME Image, UNCHANGED <<space, content, program>>
  PROVE  Tasks' = Tasks /\ ImageTyped' /\ Tabled' /\ Loaded'
<1>1. Tasks' = Tasks
  BY DEF Tasks
<1> QED BY <1>1 DEF Image, ImageTyped, Tabled, Loaded

\* Steps that change neither tables nor contents.
LEMMA InertImage ==
  ASSUME SpaceInv, Image,
         \/ ForkKernel \/ AllocFrame \/ CloneStart \/ CloneSkip
         \/ (\E n \in Range(Layout) : Touch(n)) \/ Forget
         \/ \E t \in Tasks : SwitchTask(t)
  PROVE  Image'
<1>1. UNCHANGED <<space, content, program, loading, clone>>
  BY DEF ForkKernel, AllocFrame, CloneStart, CloneSkip, Touch, Forget, SwitchTask
<1>2. Tasks' = Tasks /\ ImageTyped' /\ Tabled' /\ Loaded'
  BY <1>1, SameImage
<1>3. CASE AllocFrame
  <2>1. UNCHANGED <<current, tlb, job>>
    BY <1>3 DEF AllocFrame
  <2>2. Coherent' /\ Copied' /\ PartLoaded'
    BY <1>1, <2>1 DEF Image, Coherent, Copied, PartLoaded, UpTo
  <2> QED BY <1>2, <2>2 DEF Image
<1>4. CASE ForkKernel \/ CloneStart \/ CloneSkip
  <2>1. UNCHANGED <<current, tlb>> /\ job'.kind # "load" /\ job.kind # "load"
    <3>1. CASE ForkKernel
      BY <3>1 DEF ForkKernel, Idle
    <3>2. CASE CloneStart
      BY <3>2 DEF CloneStart, Idle
    <3>3. CASE CloneSkip
      <4>1. job.todo # <<>> /\ job' = [job EXCEPT !.todo = Tail(@)] /\ job.kind = "clone"
        BY <3>3 DEF CloneSkip
      <4>2. job'.kind = job.kind
        BY <4>1, RestOfJob DEF SpaceInv
      <4> QED BY <3>3, <4>1, <4>2 DEF CloneSkip
    <3> QED BY <1>4, <3>1, <3>2, <3>3
  <2>2. Coherent' /\ Copied' /\ PartLoaded'
    BY <1>1, <2>1 DEF Image, Coherent, Copied, PartLoaded
  <2> QED BY <1>2, <2>2 DEF Image
<1>5. CASE \E n \in Range(Layout) : Touch(n)
  <2>1. PICK n \in Range(Layout) : Touch(n)
    BY <1>5
  <2>2. UNCHANGED <<current, job>> /\ job = Idle /\ tlb' = With(tlb, n, space[current][n])
    BY <2>1 DEF Touch
  <2>3. job.kind = "idle"
    BY <2>2 DEF Idle
  <2>4. DOMAIN tlb' = DOMAIN tlb \cup {n} /\ \A m \in DOMAIN tlb' : tlb'[m] = IF m = n THEN space[current][n] ELSE tlb[m]
    BY <2>2 DEF With
  <2>5. Coherent'
    BY <1>1, <2>2, <2>3, <2>4 DEF Image, Coherent
  <2>6. Copied' /\ PartLoaded'
    BY <1>1, <2>2, <2>3 DEF Image, Copied, PartLoaded
  <2> QED BY <1>2, <2>5, <2>6 DEF Image
<1>6. CASE Forget
  <2>1. UNCHANGED <<current, job>> /\ DOMAIN tlb' = {}
    BY <1>6 DEF Forget, Empty
  <2>2. Coherent' /\ Copied' /\ PartLoaded'
    BY <1>1, <2>1 DEF Image, Coherent, Copied, PartLoaded, UpTo
  <2> QED BY <1>2, <2>2 DEF Image
<1>7. CASE \E t \in Tasks : SwitchTask(t)
  <2>1. job' = job /\ job.kind = "idle" /\ DOMAIN tlb' = {}
    BY <1>7 DEF SwitchTask, Empty, Idle
  <2>2. DOMAIN clone' = {}
    BY <1>1, <2>1 DEF SpaceInv, Jobs
  <2>3. Coherent' /\ Copied' /\ PartLoaded'
    BY <2>1, <2>2 DEF Coherent, Copied, PartLoaded
  <2> QED BY <1>2, <2>3 DEF Image
<1> QED BY <1>3, <1>4, <1>5, <1>6, <1>7

LEMMA MakeTableImage ==
  ASSUME SpaceInv, Image, MakeTable
  PROVE  Image'
<1> USE DEF SpaceInv, Image
<1> DEFINE h == Head(job.todo)
           j == Min(Missing(h))
           n == SubSeq(h, 1, j)
<1>1. UNCHANGED <<current, tlb, content, program, job, loading, clone>> /\ Mapping
  BY DEF MakeTable
<1>2. h \in Range(Nodes) /\ IsPage(h) /\ job.kind \in {"stack", "load"} /\ Missing(h) # {}
  BY <1>1, MappedPage DEF Mapping, MakeTable
<1>3. /\ n \in Range(Nodes) /\ n \notin DOMAIN space[current] /\ ~IsPage(n) /\ j \in 1 .. 3
      /\ \A k \in 1 .. j - 1 : SubSeq(h, 1, k) \in DOMAIN space[current]
  BY <1>2, MissingFacts
<1>4. DOMAIN clone = {}
  BY <1>2 DEF Jobs
<1>5. CASE free = {}
  <2>1. UNCHANGED space
    BY <1>5 DEF MakeTable
  <2>2. ImageTyped' /\ Tabled' /\ Loaded'
    BY <1>1, <2>1, SameImage
  <2>3. Coherent' /\ Copied' /\ PartLoaded'
    BY <1>1, <2>1 DEF Coherent, Copied, PartLoaded, UpTo
  <2> QED BY <2>2, <2>3
<1>6. CASE free # {}
  <2> DEFINE f == Min(free)
  <2>1. space' = [space EXCEPT ![current] = With(@, n, f)]
    BY <1>6 DEF MakeTable
  <2>2. f \in Frames
    <3>1. free \in SUBSET Nat
      BY AddressAssumption DEF Typed
    <3> QED BY <1>6, <3>1, MinIsIn DEF Typed
  <2>3. h \in Seq(Nat) /\ Len(h) = 4 /\ n \in Seq(Nat) /\ Len(n) = j
        /\ \A k \in 0 .. j : SubSeq(n, 1, k) = SubSeq(h, 1, k)
    <3> HIDE DEF h, j
    <3>1. h \in Seq(Nat) /\ Len(h) = 4
      BY <1>2, NodeFacts DEF IsPage
    <3>2. j \in 0 .. Len(h) /\ 0 \in 0 .. j
      BY <1>3, <3>1
    <3>3. n \in Seq(Nat) /\ Len(n) = j
      BY <3>1, <3>2, PrefixOfPrefix
    <3>4. \A k \in 0 .. j : SubSeq(n, 1, k) = SubSeq(h, 1, k)
      BY <3>1, <3>2, PrefixOfPrefix
    <3> QED BY <3>1, <3>3, <3>4
  <2>4. n \notin LoadPages
    BY <1>3 DEF LoadPages
  <2> HIDE DEF f, n, j, h
  <2>5. /\ Tasks' = Tasks /\ current \in Tasks
        /\ \A t \in Tasks : t # current => space'[t] = space[t]
        /\ DOMAIN space'[current] = DOMAIN space[current] \cup {n}
        /\ \A m \in DOMAIN space[current] : m # n => space'[current][m] = space[current][m]
    BY <1>3, <2>1, <2>2, Inserted DEF Typed
  <2>6. ASSUME NEW t \in Tasks PROVE /\ DOMAIN space[t] \subseteq DOMAIN space'[t]
                                     /\ \A m \in DOMAIN space[t] : space'[t][m] = space[t][m]
    BY <1>3, <2>5
  <2>7. ImageTyped'
    BY <1>1, <2>5 DEF ImageTyped
  <2>8. Tabled'
    <3>1. Rooted(space[current]) /\ <<>> \in DOMAIN space[current]
      BY <2>5 DEF Tabled
    <3>2. ASSUME NEW k \in 0 .. Len(n) PROVE SubSeq(n, 1, k) \in DOMAIN space'[current]
      <4>1. CASE k = 0
        BY <2>3, <2>5, <3>1, <4>1, EmptyPrefix
      <4>2. CASE k = j
        <5>1. SubSeq(n, 1, Len(n)) = n
          BY <2>3
        <5> QED BY <2>3, <2>5, <4>2, <5>1
      <4>3. CASE k \in 1 .. j - 1
        BY <1>3, <2>3, <2>5, <4>3
      <4> QED BY <1>3, <2>3, <4>1, <4>2, <4>3
    <3>3. Rooted(space'[current])
      BY <2>5, <3>1, <3>2 DEF Rooted
    <3> QED BY <2>5, <2>6, <3>1, <3>3 DEF Tabled
  <2>9. Coherent'
    <3> SUFFICES ASSUME NEW s \in DOMAIN program[current], NEW a \in Kept(program[current], s),
                        PageOf(a) \in DOMAIN tlb
                 PROVE  tlb[PageOf(a)] = space'[current][PageOf(a)]
      BY <1>1 DEF Coherent
    <3>1. a \in Bytes(program[current][s])
      BY <2>5, ImagePages
    <3>2. PageOf(a) \in DOMAIN space[current]
      BY <2>5, <3>1 DEF Loaded
    <3> QED BY <2>5, <2>6, <3>2 DEF Coherent
  <2>10. Copied'
    BY <1>1, <1>4 DEF Copied
  <2>11. PartLoaded'
    <3> SUFFICES ASSUME job.kind = "load" PROVE PartLoaded'
      BY <1>1 DEF PartLoaded
    <3>0. PICK file, k : file = loading.file /\ k = loading.segment
      OBVIOUS
    <3>1. program[current] = NoProgram /\ UpTo(file, k)
      BY <3>0 DEF PartLoaded
    <3>2. loading'.file = file /\ loading'.segment = k
      BY <1>1, <3>0
    <3>3. ASSUME NEW s \in 1 .. k - 1, NEW a \in Bytes(file[s])
          PROVE  /\ PageOf(a) \in DOMAIN space'[current]
                 /\ space'[current][PageOf(a)] = space[current][PageOf(a)]
      BY <2>5, <2>6, <3>1 DEF UpTo
    <3>4. UpTo(file, k)'
      BY <1>1, <3>1, <3>3 DEF UpTo
    <3> QED BY <1>1, <3>1, <3>2, <3>4 DEF PartLoaded
  <2>12. Loaded'
    BY <1>1, <2>5, <2>6 DEF Loaded
  <2> QED BY <2>7, <2>8, <2>9, <2>10, <2>11, <2>12
<1> QED BY <1>5, <1>6

LEMMA SetPageImage ==
  ASSUME SpaceInv, Image, SetPage
  PROVE  Image'
<1> USE DEF SpaceInv, Image
<1> DEFINE n == Head(job.todo)
<1>1. /\ UNCHANGED <<current, tlb, content, program, loading, clone>> /\ Mapping /\ Missing(n) = {}
      /\ held \in Frames /\ job' = [job EXCEPT !.todo = Tail(@)]
      /\ space' = [space EXCEPT ![current] = With(@, n, held)]
  BY DEF SetPage, MayMap, Typed
<1>2. /\ n \in Range(Nodes) /\ IsPage(n) /\ job.kind \in {"stack", "load"} /\ job.todo # <<>>
      /\ job.kind = "load" => n \in LoadPages /\ n \in Range(MappedPages(loading.file[loading.segment]))
  BY <1>1, MappedPage DEF Mapping
<1>3. job'.kind = job.kind /\ Range(job.todo) = {n} \cup Range(job'.todo) /\ n \in Range(job.todo)
  BY <1>1, <1>2, RestOfJob
<1>4. job.kind = "stack" => n \notin LoadPages
  BY <1>3 DEF Jobs, LoadPages
<1> HIDE DEF n
<1>5. DOMAIN clone = {}
  BY <1>2 DEF Jobs
<1>6. /\ Tasks' = Tasks /\ current \in Tasks
      /\ \A t \in Tasks : t # current => space'[t] = space[t]
      /\ DOMAIN space'[current] = DOMAIN space[current] \cup {n}
      /\ \A m \in DOMAIN space[current] : m # n => space'[current][m] = space[current][m]
  BY <1>1, <1>2, Inserted DEF Typed
<1>7. ImageTyped'
  BY <1>1, <1>6 DEF ImageTyped
<1>8. Tabled'
  <2>1. Rooted(space[current]) /\ <<>> \in DOMAIN space[current]
    BY <1>6 DEF Tabled
  <2>2. n \in Seq(Nat) /\ Len(n) = 4
    BY <1>2, NodeFacts DEF IsPage
  <2>3. ASSUME NEW k \in 0 .. Len(n) PROVE SubSeq(n, 1, k) \in DOMAIN space'[current]
    <3>1. CASE k = 0
      BY <1>6, <2>1, <2>2, <3>1, EmptyPrefix
    <3>2. CASE k = 4
      BY <1>6, <2>2, <3>2, WholePrefix
    <3>3. CASE k \in 1 .. 3
      BY <1>1, <1>6, <3>3 DEF Missing
    <3> QED BY <2>2, <3>1, <3>2, <3>3
  <2>4. Rooted(space'[current])
    BY <1>6, <2>1, <2>3 DEF Rooted
  <2> QED BY <1>6, <2>1, <2>4 DEF Tabled
\* The program's pages are not mapped again while it is there.
<1>9. ASSUME NEW t \in Tasks, NEW s \in DOMAIN program[t], NEW a \in Bytes(program[t][s])
      PROVE  /\ PageOf(a) \in DOMAIN space[t] /\ PageOf(a) \in DOMAIN space'[t]
             /\ space'[t][PageOf(a)] = space[t][PageOf(a)]
  <2>1. PageOf(a) \in DOMAIN space[t]
    BY DEF Loaded
  <2>2. PageOf(a) \in LoadPages
    BY ImagePages
  <2>3. ~(t = current /\ PageOf(a) = n)
    <3>1. CASE job.kind = "stack"
      BY <1>4, <2>2, <3>1
    <3>2. CASE job.kind = "load"
      <4>1. program[current] = NoProgram
        BY <3>2 DEF PartLoaded
      <4> QED BY <4>1 DEF NoProgram
    <3> QED BY <1>2, <3>1, <3>2
  <2> QED BY <1>6, <2>1, <2>3
<1>10. Coherent' /\ Copied'
  <2>1. ASSUME NEW s \in DOMAIN program[current], NEW a \in Kept(program[current], s),
               PageOf(a) \in DOMAIN tlb
        PROVE  tlb[PageOf(a)] = space'[current][PageOf(a)]
    <3>1. a \in Bytes(program[current][s])
      BY <1>6, ImagePages
    <3> QED BY <1>6, <1>9, <2>1, <3>1 DEF Coherent
  <2>2. Coherent'
    BY <1>1, <2>1 DEF Coherent
  <2> QED BY <1>1, <1>5, <2>2 DEF Copied
<1>11. PartLoaded'
  <2> SUFFICES ASSUME job.kind = "load" PROVE PartLoaded'
    BY <1>3 DEF PartLoaded
  <2>0. PICK file, k : file = loading.file /\ k = loading.segment
    OBVIOUS
  <2>1. program[current] = NoProgram /\ UpTo(file, k)
    BY <2>0 DEF PartLoaded
  <2>2. file \in Programs /\ k \in DOMAIN file /\ n \in Range(MappedPages(file[k]))
    BY <1>2, <2>0 DEF Jobs
  <2>3. k \in Nat
    BY <2>2, ProgramFacts
  <2>4. loading'.file = file /\ loading'.segment = k
    BY <1>1, <2>0
  <2>5. ASSUME NEW s \in 1 .. k - 1, NEW a \in Bytes(file[s])
        PROVE  /\ PageOf(a) \in DOMAIN space'[current]
               /\ a \in Staying(file, s, k) => space'[current][PageOf(a)] = space[current][PageOf(a)]
    <3>1. PageOf(a) \in DOMAIN space[current]
      BY <2>1 DEF UpTo
    <3>2. k \in s + 1 .. k
      BY <2>3
    <3>3. a \in Staying(file, s, k) => PageOf(a) # n
      BY <2>2, <3>2 DEF Staying
    <3> QED BY <1>6, <3>1, <3>3
  <2>6. UpTo(file, k)'
    BY <1>1, <2>1, <2>5 DEF UpTo
  <2> QED BY <1>1, <2>1, <2>4, <2>6 DEF PartLoaded
<1>12. Loaded'
  <2>1. ASSUME NEW t \in Tasks, NEW s \in DOMAIN program[t], NEW a \in Bytes(program[t][s])
        PROVE  /\ PageOf(a) \in DOMAIN space'[t]
               /\ a \in Kept(program[t], s) =>
                    content[space'[t][PageOf(a)]][a % Unit] = <<program[t], s>>
    BY <1>9 DEF Loaded
  <2>2. content' = content /\ program' = program /\ Tasks' = Tasks
    BY <1>1, <1>6
  <2> QED BY <2>1, <2>2 DEF Loaded
<1> QED BY <1>7, <1>8, <1>10, <1>11, <1>12

LEMMA CloneNextImage ==
  ASSUME SpaceInv, Image, CloneNext
  PROVE  Image'
<1> USE DEF SpaceInv, Image
<1> DEFINE n == Head(job.todo)
           pool == IF spare # {} THEN spare ELSE free
           f == Min(pool)
<1>1. /\ UNCHANGED <<space, current, tlb, program, loading>>
      /\ job.kind = "clone" /\ job.todo # <<>> /\ n \in DOMAIN space[current]
  BY DEF CloneNext
<1>2. Tasks' = Tasks /\ current \in Tasks
  BY <1>1 DEF Tasks, Typed
<1>3. CASE pool = {}
  <2>1. UNCHANGED <<clone, content, job>>
    BY <1>3 DEF CloneNext
  <2>2. ImageTyped' /\ Tabled' /\ Loaded'
    BY <1>1, <2>1, SameImage
  <2>3. Coherent' /\ Copied' /\ PartLoaded'
    BY <1>1, <2>1 DEF Coherent, Copied, PartLoaded
  <2> QED BY <2>2, <2>3
<1>4. CASE pool # {}
  <2>1. /\ clone' = With(clone, n, f) /\ content' = [content EXCEPT ![f] = NewBlock(n)]
        /\ job' = [job EXCEPT !.todo = Tail(@)]
    BY <1>4 DEF CloneNext
  <2>2. f \in Frames /\ f \in Loose
    <3>1. pool \in SUBSET Nat
      BY AddressAssumption DEF Typed
    <3>2. f \in pool
      BY <1>4, <3>1, MinIsIn
    <3> QED BY <3>2 DEF Typed, Loose
  <2>3. job'.kind = "clone" /\ n \in Range(job.todo) /\ n \notin DOMAIN clone
    BY <1>1, <2>1, RestOfJob DEF Jobs
  <2> HIDE DEF n, f, pool
  <2>4. DOMAIN clone' = DOMAIN clone \cup {n} /\ clone'[n] = f /\ \A m \in DOMAIN clone : clone'[m] = clone[m]
    BY <2>1, <2>3 DEF With
  <2>5. DOMAIN content' = Frames /\ content'[f] = NewBlock(n) /\ \A g \in Frames : g # f => content'[g] = content[g]
    BY <2>1, <2>2 DEF ImageTyped
  <2>6. /\ \A t \in Tasks : \A m \in DOMAIN space[t] : space[t][m] \in Frames /\ space[t][m] # f
        /\ \A m \in DOMAIN clone : clone[m] \in Frames /\ clone[m] # f
    BY <2>2 DEF Exclusive, Typed, IsSpace
  <2>7. \A t \in Tasks : \A m \in DOMAIN space[t] : content'[space[t][m]] = content[space[t][m]]
    BY <2>5, <2>6
  <2>8. ImageTyped' /\ Tabled'
    BY <1>1, <1>2, <2>5 DEF ImageTyped, Tabled
  <2>9. Coherent' /\ PartLoaded'
    BY <1>1, <2>3 DEF Coherent, PartLoaded
  <2>10. Copied'
    <3> SUFFICES ASSUME NEW s \in DOMAIN program[current], NEW a \in Kept(program[current], s),
                        PageOf(a) \in DOMAIN clone'
                 PROVE  content'[clone'[PageOf(a)]] = content'[space[current][PageOf(a)]]
      BY <1>1 DEF Copied
    <3>0. PageOf(a) \in LoadPages
      BY <1>2, ImagePages
    <3>1. CASE PageOf(a) = n
      <4>1. IsPage(n)
        BY <3>0, <3>1 DEF LoadPages
      <4>2. content'[f] = content[Translate(n)]
        BY <2>5, <4>1 DEF NewBlock
      <4>3. Translate(n) = space[current][n]
        BY <3>1 DEF Translate, Coherent
      <4> QED BY <1>1, <1>2, <2>4, <2>7, <3>1, <4>2, <4>3
    <3>2. CASE PageOf(a) # n
      <4> DEFINE m == PageOf(a)
      <4>1. m \in DOMAIN clone /\ clone'[m] = clone[m] /\ m \in DOMAIN space[current]
        BY <1>1, <2>4, <3>2 DEF Jobs
      <4>2. content[clone[m]] = content[space[current][m]]
        BY <4>1 DEF Copied
      <4> QED BY <1>2, <2>5, <2>6, <2>7, <4>1, <4>2
    <3> QED BY <3>1, <3>2
  <2>11. Loaded'
    <3>1. ASSUME NEW t \in Tasks, NEW s \in DOMAIN program[t], NEW a \in Bytes(program[t][s])
          PROVE  /\ PageOf(a) \in DOMAIN space[t]
                 /\ a \in Kept(program[t], s) =>
                      content'[space[t][PageOf(a)]][a % Unit] = <<program[t], s>>
      BY <2>7 DEF Loaded
    <3> QED BY <1>1, <1>2, <3>1, ZenonT(40) DEF Loaded
  <2> QED BY <2>8, <2>9, <2>10, <2>11
<1> QED BY <1>3, <1>4

LEMMA SameRange ==
  ASSUME NEW a \in Nat, NEW b \in Nat, 1 .. a = 1 .. b
  PROVE  a = b
<1>1. CASE a < b
  <2>1. b \in 1 .. b /\ b \notin 1 .. a
    BY <1>1
  <2> QED BY <2>1
<1>2. CASE b < a
  <2>1. a \in 1 .. a /\ a \notin 1 .. b
    BY <1>2
  <2> QED BY <2>1
<1> QED BY <1>1, <1>2

LEMMA CloneDoneImage ==
  ASSUME SpaceInv, Image, CloneDone
  PROVE  Image'
<1> USE DEF SpaceInv, Image
<1>1. /\ UNCHANGED <<current, tlb, content, loading>>
      /\ job = [kind |-> "clone", todo |-> <<>>] /\ job' = Idle
      /\ space' = Append(space, clone) /\ clone' = Empty
      /\ program' = Append(program, program[current])
  BY DEF CloneDone
<1>2. DOMAIN clone = DOMAIN space[current] /\ current \in Tasks
  BY CloneDoneSpace DEF Typed
<1> DEFINE u == Len(space) + 1
<1>3. /\ Len(space) \in Nat /\ Tasks = 1 .. Len(space) /\ Tasks' = Tasks \cup {u} /\ u \notin Tasks
      /\ \A t \in Tasks : space'[t] = space[t]
      /\ space'[u] = clone
  BY <1>1, Appended
<1>4. /\ program' \in Seq(Programs \cup {NoProgram}) /\ DOMAIN program' = Tasks'
      /\ \A t \in Tasks : program'[t] = program[t]
      /\ program'[u] = program[current]
  <2> DEFINE P == Programs \cup {NoProgram}
             e == program[current]
  <2>1. program \in Seq(P) /\ e \in P /\ DOMAIN program = 1 .. Len(space)
    BY <1>2, <1>3, ImagePages DEF ImageTyped
  <2> HIDE DEF P, e
  <2>2. Len(program) \in Nat /\ DOMAIN program = 1 .. Len(program)
    BY <2>1
  <2>3. Len(program) = Len(space)
    BY <1>3, <2>1, <2>2, SameRange
  <2>4. /\ Append(program, e) \in Seq(P) /\ Len(Append(program, e)) = Len(program) + 1
        /\ \A i \in 1 .. Len(program) : Append(program, e)[i] = program[i]
        /\ Append(program, e)[Len(program) + 1] = e
    BY <2>1, <2>2
  <2>5. DOMAIN Append(program, e) = 1 .. Len(program) + 1
    BY <2>4
  <2>6. program' = Append(program, e)
    BY <1>1 DEF e
  <2>7. 1 .. Len(space) + 1 = Tasks \cup {u}
    BY <1>3
  <2> QED BY <1>3, <2>3, <2>4, <2>5, <2>6, <2>7 DEF P, e
<1>5. job'.kind = "idle" /\ job.kind = "clone" /\ DOMAIN clone' = {}
  BY <1>1 DEF Idle, Empty
<1>6. ImageTyped'
  BY <1>1, <1>4 DEF ImageTyped
<1> HIDE DEF u
<1>7. Tabled'
  <2>1. Rooted(clone) /\ <<>> \in DOMAIN clone
    BY <1>2 DEF Tabled, Rooted
  <2> QED BY <1>3, <2>1 DEF Tabled
<1>8. Coherent'
  BY <1>1, <1>2, <1>3, <1>4 DEF Coherent
<1>9. Copied' /\ PartLoaded'
  BY <1>5 DEF Copied, PartLoaded
<1>10. Loaded'
  <2>1. ASSUME NEW t \in Tasks', NEW s \in DOMAIN program'[t], NEW a \in Bytes(program'[t][s])
        PROVE  /\ PageOf(a) \in DOMAIN space'[t]
               /\ a \in Kept(program'[t], s) =>
                    content[space'[t][PageOf(a)]][a % Unit] = <<program'[t], s>>
    <3>1. CASE t \in Tasks
      <4>1. space'[t] = space[t] /\ program'[t] = program[t]
        BY <1>3, <1>4, <3>1
      <4>2. s \in DOMAIN program[t] /\ a \in Bytes(program[t][s])
        BY <2>1, <4>1
      <4> QED BY <3>1, <4>1, <4>2 DEF Loaded
    <3>2. CASE t = u
      <4>1. s \in DOMAIN program[current] /\ a \in Bytes(program[current][s])
        BY <1>4, <3>2
      <4>2. /\ PageOf(a) \in DOMAIN space[current]
            /\ a \in Kept(program[current], s) =>
                 content[space[current][PageOf(a)]][a % Unit] = <<program[current], s>>
        BY <1>2, <4>1 DEF Loaded
      <4>3. a \in Kept(program[current], s) => content[clone[PageOf(a)]] = content[space[current][PageOf(a)]]
        BY <1>2, <4>1, <4>2 DEF Copied
      <4> QED BY <1>2, <1>3, <1>4, <3>2, <4>2, <4>3
    <3> QED BY <1>3, <3>1, <3>2
  <2> QED BY <1>1, <2>1 DEF Loaded
<1> QED BY <1>6, <1>7, <1>8, <1>9, <1>10

LEMMA ShortPrefix ==
  ASSUME NEW n \in Seq(Nat), Len(n) \in 0 .. 4, NEW k \in 0 .. Len(n), k # Len(n)
  PROVE  Len(SubSeq(n, 1, k)) = k /\ k # 4
<1>1. k \in Nat /\ k < Len(n) /\ Len(n) \in Nat
  OBVIOUS
<1>2. k # 4
  <2>1. PICK l : l = Len(n)
    OBVIOUS
  <2>2. l \in 0 .. 4
    BY <2>1, Zenon
  <2>3. k \in Nat /\ k < l
    BY <1>1, <2>1
  <2> QED BY <2>2, <2>3
<1>3. 0 \in 0 .. k
  BY <1>1
<1> QED BY <1>2, <1>3, PrefixOfPrefix

LEMMA ExecImage ==
  ASSUME SpaceInv, Image, NEW file \in Programs, NEW elf \in BOOLEAN, Exec(file, elf)
  PROVE  Image'
<1> USE DEF SpaceInv, Image
<1>1. /\ UNCHANGED <<current, tlb, content, clone>>
      /\ job = Idle
      /\ space' = [space EXCEPT ![current] = CleanEntries(@)]
      /\ program' = [program EXCEPT ![current] = NoProgram]
      /\ loading' = [file |-> file, segment |-> 1]
      /\ job' = [kind |-> "load", todo |-> MappedPages(file[1])]
  BY DEF Exec
<1>2. /\ Tasks' = Tasks /\ current \in Tasks
      /\ \A t \in Tasks : t # current => space'[t] = space[t]
      /\ DOMAIN space'[current] = {n \in DOMAIN space[current] : ~Cleaned(n)}
      /\ \A n \in DOMAIN space'[current] : space'[current][n] = space[current][n]
  BY <1>1, CleanedSpace DEF Typed
<1>3. job.kind = "idle" /\ DOMAIN clone = {} /\ job'.kind = "load"
      /\ loading'.file = file /\ loading'.segment = 1
  BY <1>1 DEF Idle, Jobs
<1>4. /\ program' \in Seq(Programs \cup {NoProgram}) /\ DOMAIN program' = Tasks
      /\ program'[current] = NoProgram /\ \A t \in Tasks : t # current => program'[t] = program[t]
  BY <1>1, <1>2 DEF ImageTyped
<1>5. ImageTyped'
  BY <1>1, <1>2, <1>4 DEF ImageTyped
<1>6. Tabled'
  <2>1. Rooted(space[current]) /\ <<>> \in DOMAIN space[current] /\ IsSpace(space[current])
    BY <1>2 DEF Tabled, Typed
  <2>2. ~Cleaned(<<>>)
    BY DEF Cleaned, IsPage
  <2>3. ASSUME NEW n \in DOMAIN space'[current], NEW k \in 0 .. Len(n)
        PROVE  SubSeq(n, 1, k) \in DOMAIN space'[current]
    <3>1. n \in DOMAIN space[current] /\ ~Cleaned(n) /\ n \in Seq(Nat) /\ Len(n) \in 0 .. 4
      BY <1>2, <2>1, NodeFacts DEF IsSpace
    <3>2. SubSeq(n, 1, k) \in DOMAIN space[current]
      BY <2>1, <3>1 DEF Rooted
    <3>3. ~Cleaned(SubSeq(n, 1, k))
      <4>1. CASE k = Len(n)
        BY <3>1, <4>1, WholePrefix
      <4>2. CASE k # Len(n)
        <5>1. Len(SubSeq(n, 1, k)) = k /\ k # 4
          <6>1. n \in Seq(Nat)
            BY <3>1
          <6>2. Len(n) \in 0 .. 4
            BY <3>1
          <6>3. k \in 0 .. Len(n)
            OBVIOUS
          <6> QED BY <4>2, <6>1, <6>2, <6>3, ShortPrefix
        <5> QED BY <5>1 DEF Cleaned, IsPage
      <4> QED BY <4>1, <4>2
    <3> QED BY <1>2, <3>2, <3>3
  <2> QED BY <1>2, <2>1, <2>2, <2>3 DEF Tabled, Rooted
<1>7. DOMAIN program'[current] = {}
  BY <1>4 DEF NoProgram
<1>8. Coherent' /\ Copied'
  BY <1>1, <1>7 DEF Coherent, Copied
<1>9. PartLoaded'
  <2>1. 1 .. 1 - 1 = {}
    OBVIOUS
  <2>2. UpTo(file, 1)'
    BY <2>1, Zenon DEF UpTo
  <2> QED BY <1>1, <1>3, <1>4, <2>2 DEF PartLoaded
<1>10. Loaded'
  <2>1. ASSUME NEW t \in Tasks, NEW s \in DOMAIN program'[t], NEW a \in Bytes(program'[t][s])
        PROVE  /\ PageOf(a) \in DOMAIN space'[t]
               /\ a \in Kept(program'[t], s) =>
                    content[space'[t][PageOf(a)]][a % Unit] = <<program'[t], s>>
    <3>1. t # current
      BY <1>7
    <3>2. space'[t] = space[t] /\ program'[t] = program[t]
      BY <1>2, <1>4, <3>1
    <3>3. s \in DOMAIN program[t] /\ a \in Bytes(program[t][s])
      BY <2>1, <3>2
    <3> QED BY <3>2, <3>3 DEF Loaded
  <2>2. content' = content /\ Tasks' = Tasks
    BY <1>1, <1>2
  <2> QED BY <2>1, <2>2 DEF Loaded
<1> QED BY <1>5, <1>6, <1>8, <1>9, <1>10

\* The loader writes the bytes of a segment, and no other byte changes.
LEMMA CopySegmentImage ==
  ASSUME SpaceInv, Image, CopySegment, halt' # "stale"
  PROVE  Image'
<1> USE DEF SpaceInv, Image
<1>0. PICK file, k : file = loading.file /\ k = loading.segment
  OBVIOUS
<1> DEFINE bytes == Bytes(file[k])
           done == Reached(bytes)
           pages == {PageOf(a) : a \in done}
<1>1. UNCHANGED <<space, current, clone>> /\ job = [kind |-> "load", todo |-> <<>>]
  BY DEF CopySegment
<1>2. job.kind = "load" /\ DOMAIN clone = {} /\ current \in Tasks /\ Tasks' = Tasks
  BY <1>1 DEF Jobs, Typed, Tasks
<1>3. /\ file \in Programs /\ k \in DOMAIN file /\ Len(file) \in Nat \ {0} /\ DOMAIN file = 1 .. Len(file)
      /\ k \in 1 .. Len(file)
      /\ \A s \in DOMAIN file : \A a \in Bytes(file[s]) : a \in Nat
  BY <1>0, <1>2, ProgramFacts DEF Jobs
<1>4. program[current] = NoProgram /\ UpTo(file, k) /\ DOMAIN program[current] = {}
  BY <1>0, <1>2 DEF PartLoaded, NoProgram
<1>5. done \subseteq bytes
  BY DEF Reached
<1>6. \A n \in pages : n \in DOMAIN space[current] /\ Translate(n) = space[current][n]
  BY <1>0 DEF CopySegment
<1>7. /\ DOMAIN tlb' = DOMAIN tlb \cup pages
      /\ \A n \in DOMAIN tlb' : tlb'[n] = Translate(n)
  BY <1>0 DEF CopySegment
<1>8. /\ DOMAIN content' = Frames
      /\ \A g \in Frames : \A o \in 0 .. Unit - 1 :
           content'[g][o] = IF \E a \in done : Translate(PageOf(a)) = g /\ a % Unit = o
                            THEN <<file, k>> ELSE content[g][o]
  BY <1>0 DEF CopySegment
<1>9. \/ done # bytes /\ UNCHANGED <<program, job, loading>>
      \/ /\ done = bytes /\ k < Len(file)
         /\ loading' = [loading EXCEPT !.segment = @ + 1] /\ UNCHANGED program
         /\ job' = [kind |-> "load", todo |-> MappedPages(file[k + 1])]
      \/ /\ done = bytes /\ k = Len(file)
         /\ program' = [program EXCEPT ![current] = file] /\ job' = Idle
  BY <1>0 DEF CopySegment
<1>10. \A a \in done : PageOf(a) \in pages
  OBVIOUS
<1> HIDE DEF pages, done
<1>11. \A t \in Tasks : \A n \in DOMAIN space[t] : space[t][n] \in Frames
  BY DEF Typed, IsSpace
\* What is written, and what is not.
<1>12. ASSUME NEW a \in done
       PROVE  /\ PageOf(a) \in DOMAIN space[current]
              /\ PageOf(a) \in DOMAIN tlb' => tlb'[PageOf(a)] = space[current][PageOf(a)]
              /\ content'[space[current][PageOf(a)]][a % Unit] = <<file, k>>
  <2>1. /\ PageOf(a) \in DOMAIN space[current] /\ Translate(PageOf(a)) = space[current][PageOf(a)]
        /\ space[current][PageOf(a)] \in Frames
    BY <1>2, <1>6, <1>10, <1>11
  <2>2. a % Unit \in 0 .. Unit - 1
    BY <1>3, <1>5, PathFacts
  <2> QED BY <1>7, <1>8, <2>1, <2>2
<1>13. ASSUME NEW t \in Tasks, NEW a \in Nat, PageOf(a) \in DOMAIN space[t], ~(t = current /\ a \in bytes)
       PROVE  content'[space[t][PageOf(a)]][a % Unit] = content[space[t][PageOf(a)]][a % Unit]
  <2>1. a % Unit \in 0 .. Unit - 1 /\ space[t][PageOf(a)] \in Frames
    BY <1>11, <1>13, PathFacts
  <2>2. ASSUME NEW b \in done, Translate(PageOf(b)) = space[t][PageOf(a)], b % Unit = a % Unit
        PROVE  FALSE
    <3>1. PageOf(b) \in DOMAIN space[current] /\ space[current][PageOf(b)] = space[t][PageOf(a)]
      BY <1>6, <1>10, <2>2
    <3>2. t = current /\ PageOf(b) = PageOf(a)
      BY <1>2, <1>13, <3>1 DEF Exclusive
    <3>3. b \in bytes /\ b \in Nat
      BY <1>3, <1>5
    <3>4. b = a
      BY <2>2, <3>2, <3>3, SameByte
    <3> QED BY <1>13, <3>2, <3>3, <3>4
  <2> QED BY <1>8, <2>1, <2>2
\* The bytes of the segments before stay.
<1>14. ASSUME NEW s \in 1 .. k - 1, NEW a \in Bytes(file[s])
       PROVE  /\ PageOf(a) \in DOMAIN space[current]
              /\ a \in Staying(file, s, k) =>
                   /\ PageOf(a) \in DOMAIN tlb' => tlb'[PageOf(a)] = space[current][PageOf(a)]
                   /\ content'[space[current][PageOf(a)]][a % Unit] = <<file, s>>
  <2>1. s \in DOMAIN file /\ k \in s + 1 .. k /\ a \in Nat
    BY <1>3
  <2>2. PageOf(a) \in DOMAIN space[current]
    BY <1>4 DEF UpTo
  <2>3. ASSUME a \in Staying(file, s, k)
        PROVE  /\ PageOf(a) \in DOMAIN tlb' => tlb'[PageOf(a)] = space[current][PageOf(a)]
               /\ content'[space[current][PageOf(a)]][a % Unit] = <<file, s>>
    <3>1. a \notin bytes
      BY <2>1, <2>3 DEF Staying
    <3>2. /\ PageOf(a) \in DOMAIN tlb => tlb[PageOf(a)] = space[current][PageOf(a)]
          /\ content[space[current][PageOf(a)]][a % Unit] = <<file, s>>
      BY <1>4, <2>3 DEF UpTo
    <3>3. Translate(PageOf(a)) = space[current][PageOf(a)]
      BY <3>2 DEF Translate
    <3> QED BY <1>2, <1>7, <1>13, <2>1, <2>2, <3>1, <3>2, <3>3
  <2> QED BY <2>2, <2>3
<1>15. ASSUME NEW t \in Tasks, t # current, NEW s \in DOMAIN program[t], NEW a \in Bytes(program[t][s])
       PROVE  /\ PageOf(a) \in DOMAIN space[t]
              /\ a \in Kept(program[t], s) =>
                   content'[space[t][PageOf(a)]][a % Unit] = <<program[t], s>>
  <2>1. a \in Nat
    BY <1>15, ImagePages
  <2> QED BY <1>13, <1>15, <2>1 DEF Loaded
<1>16. Tabled' /\ Copied'
  BY <1>1, <1>2 DEF Tabled, Copied
<1>17. CASE UNCHANGED program
  <2>1. ImageTyped'
    BY <1>2, <1>8, <1>17 DEF ImageTyped
  <2>2. Coherent'
    BY <1>1, <1>4, <1>17 DEF Coherent
  <2>3. Loaded'
    <3>1. ASSUME NEW t \in Tasks, NEW s \in DOMAIN program[t], NEW a \in Bytes(program[t][s])
          PROVE  /\ PageOf(a) \in DOMAIN space[t]
                 /\ a \in Kept(program[t], s) =>
                      content'[space[t][PageOf(a)]][a % Unit] = <<program[t], s>>
      BY <1>4, <1>15
    <3> QED BY <1>1, <1>2, <1>17, <3>1 DEF Loaded
  <2>4. CASE done # bytes
    <3>1. UNCHANGED <<job, loading>>
      BY <1>9, <2>4
    <3>2. UpTo(file, k)'
      BY <1>1, <1>14 DEF UpTo
    <3>3. PartLoaded'
      BY <1>0, <1>1, <1>4, <1>17, <3>1, <3>2 DEF PartLoaded
    <3> QED BY <1>16, <2>1, <2>2, <2>3, <3>3
  <2>5. CASE done = bytes /\ k < Len(file)
    <3>1. /\ loading' = [loading EXCEPT !.segment = @ + 1]
          /\ job' = [kind |-> "load", todo |-> MappedPages(file[k + 1])]
      BY <1>9, <2>5
    <3>2. loading'.file = file /\ loading'.segment = k + 1 /\ job'.kind = "load"
      BY <1>0, <3>1 DEF Typed
    <3>3. ASSUME NEW s \in 1 .. (k + 1) - 1, NEW a \in Bytes(file[s])
          PROVE  /\ PageOf(a) \in DOMAIN space[current]
                 /\ a \in Staying(file, s, k + 1) =>
                      /\ PageOf(a) \in DOMAIN tlb' => tlb'[PageOf(a)] = space[current][PageOf(a)]
                      /\ content'[space[current][PageOf(a)]][a % Unit] = <<file, s>>
      <4>1. CASE s = k
        BY <1>12, <2>5, <4>1
      <4>2. CASE s # k
        <5>1. s \in 1 .. k - 1 /\ \A r \in s + 1 .. k : r \in s + 1 .. k + 1
          BY <1>3, <4>2
        <5>2. a \in Staying(file, s, k + 1) => a \in Staying(file, s, k)
          BY <5>1 DEF Staying
        <5> QED BY <1>14, <5>1, <5>2
      <4> QED BY <4>1, <4>2
    <3>4. UpTo(file, k + 1)'
      BY <1>1, <3>3 DEF UpTo
    <3>5. PartLoaded'
      BY <1>1, <1>4, <1>17, <3>2, <3>4 DEF PartLoaded
    <3> QED BY <1>16, <2>1, <2>2, <2>3, <3>5
  <2>6. CASE done = bytes /\ k = Len(file)
    <3>1. job' = Idle /\ program'[current] = file
      BY <1>2, <1>9, <2>6 DEF ImageTyped
    <3>2. FALSE
      BY <1>3, <1>4, <1>17, <3>1
    <3> QED BY <3>2
  <2> QED BY <1>3, <1>9, <2>4, <2>5, <2>6
<1>18. CASE done = bytes /\ k = Len(file)
  <2>1. program' = [program EXCEPT ![current] = file] /\ job' = Idle
    BY <1>9, <1>18
  <2>2. /\ program' \in Seq(Programs \cup {NoProgram}) /\ DOMAIN program' = Tasks
        /\ program'[current] = file /\ \A t \in Tasks : t # current => program'[t] = program[t]
    BY <1>2, <1>3, <2>1 DEF ImageTyped
  <2>3. ImageTyped'
    BY <1>2, <1>8, <2>2 DEF ImageTyped
  <2>4. PartLoaded' /\ Copied'
    BY <1>1, <1>2, <2>1 DEF PartLoaded, Idle, Copied
  <2>5. ASSUME NEW s \in DOMAIN file, NEW a \in Bytes(file[s])
        PROVE  /\ PageOf(a) \in DOMAIN space[current]
               /\ a \in Kept(file, s) =>
                    /\ PageOf(a) \in DOMAIN tlb' => tlb'[PageOf(a)] = space[current][PageOf(a)]
                    /\ content'[space[current][PageOf(a)]][a % Unit] = <<file, s>>
    <3>1. CASE s = k
      BY <1>12, <1>18, <3>1
    <3>2. CASE s # k
      <4>1. s \in 1 .. k - 1
        BY <1>3, <1>18, <3>2
      <4>2. a \in Kept(file, s) => a \in Staying(file, s, k)
        BY <1>18 DEF Kept, Staying
      <4> QED BY <1>14, <4>1, <4>2
    <3> QED BY <3>1, <3>2
  <2>6. Coherent'
    <3>1. \A s \in DOMAIN file : \A a \in Kept(file, s) : a \in Bytes(file[s])
      BY DEF Kept
    <3> QED BY <1>1, <2>2, <2>5, <3>1 DEF Coherent
  <2>7. Loaded'
    <3>1. ASSUME NEW t \in Tasks, NEW s \in DOMAIN program'[t], NEW a \in Bytes(program'[t][s])
          PROVE  /\ PageOf(a) \in DOMAIN space[t]
                 /\ a \in Kept(program'[t], s) =>
                      content'[space[t][PageOf(a)]][a % Unit] = <<program'[t], s>>
      <4>1. CASE t = current
        <5>1. program'[t] = file /\ s \in DOMAIN file /\ a \in Bytes(file[s])
          BY <2>2, <3>1, <4>1
        <5> QED BY <2>5, <4>1, <5>1
      <4>2. CASE t # current
        <5>1. program'[t] = program[t] /\ s \in DOMAIN program[t] /\ a \in Bytes(program[t][s])
          BY <2>2, <3>1, <4>2
        <5> QED BY <1>15, <4>2, <5>1
      <4> QED BY <4>1, <4>2
    <3> QED BY <1>1, <1>2, <3>1 DEF Loaded
  <2> QED BY <1>16, <2>3, <2>4, <2>6, <2>7
<1> QED BY <1>9, <1>17, <1>18

\* The second invariant follows from itself and the first.
LEMMA NextImage == SpaceInv /\ ImageInv /\ [Next]_vars => ImageInv'
<1> SUFFICES ASSUME SpaceInv, ImageInv, [Next]_vars PROVE ImageInv'
  OBVIOUS
<1>1. CASE UNCHANGED vars
  <2>1. UNCHANGED <<space, current, tlb, content, program, job, loading, clone, halt>>
    BY <1>1 DEF vars
  <2>2. Image => Image'
    <3> SUFFICES ASSUME Image PROVE Image'
      OBVIOUS
    <3>1. ImageTyped' /\ Tabled' /\ Loaded'
      BY <2>1, SameImage
    <3>2. Coherent' /\ Copied' /\ PartLoaded'
      BY <2>1 DEF Image, Coherent, Copied, PartLoaded, UpTo
    <3> QED BY <3>1, <3>2 DEF Image
  <2> QED BY <2>1, <2>2 DEF ImageInv
<1>2. CASE Next /\ halt' # "stale"
  <2>1. Image
    BY <1>2 DEF Next, ImageInv
  <2>2. CASE \/ ForkKernel \/ AllocFrame \/ CloneStart \/ CloneSkip
             \/ (\E n \in Range(Layout) : Touch(n)) \/ Forget
             \/ \E t \in Tasks : SwitchTask(t)
    BY <2>1, <2>2, InertImage DEF ImageInv
  <2>3. CASE MakeTable
    BY <2>1, <2>3, MakeTableImage DEF ImageInv
  <2>4. CASE SetPage
    BY <2>1, <2>4, SetPageImage DEF ImageInv
  <2>5. CASE CloneNext
    BY <2>1, <2>5, CloneNextImage DEF ImageInv
  <2>6. CASE CloneDone
    BY <2>1, <2>6, CloneDoneImage DEF ImageInv
  <2>7. CASE \E file \in Programs, elf \in BOOLEAN : Exec(file, elf)
    BY <2>1, <2>7, ExecImage DEF ImageInv
  <2>8. CASE CopySegment
    BY <1>2, <2>1, <2>8, CopySegmentImage DEF ImageInv
  <2> QED BY <1>2, <2>2, <2>3, <2>4, <2>5, <2>6, <2>7, <2>8 DEF Next
<1> QED BY <1>1, <1>2 DEF ImageInv

\* Every task has its program: the page of each byte that load_executable() copied is
\* present, with the tables above it, and holds that byte if no later segment wrote
\* there or asked for the page again, unless the loader wrote through a translation
\* that nobody had flushed.
THEOREM ProgramsStayLoaded == Spec => []LoadedImage
<1>1. Init => ImageInv
  BY InitImage DEF ImageInv
<1>2. SpaceInv /\ ImageInv /\ [Next]_vars => ImageInv'
  BY NextImage
<1>3. ImageInv => LoadedImage
  <2> SUFFICES ASSUME Image PROVE LoadedImage
    BY DEF ImageInv, LoadedImage
  <2> SUFFICES ASSUME NEW t \in Tasks, NEW s \in DOMAIN program[t], NEW a \in Bytes(program[t][s])
               PROVE  /\ \A k \in 0 .. 4 : SubSeq(PageOf(a), 1, k) \in DOMAIN space[t]
                      /\ a \in Kept(program[t], s) =>
                           content[space[t][PageOf(a)]][a % Unit] = <<program[t], s>>
    BY DEF LoadedImage
  <2>1. /\ PageOf(a) \in DOMAIN space[t]
        /\ a \in Kept(program[t], s) =>
             content[space[t][PageOf(a)]][a % Unit] = <<program[t], s>>
    BY DEF Image, Loaded
  <2>2. Rooted(space[t])
    BY DEF Image, Tabled
  <2>3. Len(PageOf(a)) = 4
    <3>1. a \in Nat
      BY ImagePages DEF Image
    <3> QED BY <3>1, PathFacts
  <2> QED BY <2>1, <2>2, <2>3 DEF Rooted
<1> QED BY <1>1, <1>2, <1>3, SpaceInvariant, PTL DEF Spec
=============================================================================
