-------------------------------- MODULE KHeap --------------------------------
(***************************************************************************)
(* The kernel heap of kernel/kheap.c with the ordered array of holes of    *)
(* kernel/ordered_array.c.                                                 *)
(*                                                                         *)
(* Addresses count bytes, and mem[a] is the header_t or footer_t that is   *)
(* read at address a: both are Rec bytes long, header_t.size and          *)
(* footer_t.header share their bytes, and writing a footer leaves the byte *)
(* of is_hole alone.  What is written at one address tears what could be   *)
(* read at the addresses around it; the code reads no torn record before   *)
(* one of the conditions below, except behind the end of the heap.  What   *)
(* callers store in their blocks never looks like HEAP_MAGIC.              *)
(*                                                                         *)
(* alloc() is a request, any number of expansions and a placement.  free() *)
(* is one step unless the hole ends at end_address: then contract() first  *)
(* prints, and each character allocates and frees a queue entry of the     *)
(* monitor lock (b_locking.c:38 and 122) before the contraction goes on.   *)
(*                                                                         *)
(* Where the code damages the heap, `defect' takes the name of the         *)
(* condition and the behaviour ends: what it does to damaged memory is not *)
(* interesting, that nothing else damages it is.                           *)
(***************************************************************************)
EXTENDS Integers, Sequences, FiniteSets, SequencesExt

CONSTANTS
  Rec,          \* sizeof(header_t) and sizeof(footer_t) (16)
  Page,          \* MEM_BLOCK_SIZE (4096)
  InitialSize,   \* bytes of the first hole
  MinSize,       \* HEAP_MIN_SIZE
  Sizes,         \* sizes callers ask for, in bytes
  Marks,         \* characters of "contracting\n" (12)
  MaxEnd,        \* bound on end_address
  MaxCalls,      \* bound on calls of kmalloc()
  MaxDepth       \* bound on frees suspended in contract()

\* create_heap() rounds the start up to a page after the index.
Start == Page

ASSUME HeapAssumption ==
  /\ Rec \in Nat \ {0} /\ Page \in Nat /\ Page >= 3 * Rec /\ Sizes \subseteq Nat \ {0} /\ Marks \in Nat
  /\ MinSize \in Nat /\ InitialSize \in Nat \ {0} /\ MaxEnd \in Nat
  /\ InitialSize % Page = 0 /\ MinSize % Page = 0 /\ MaxEnd % Page = 0
  /\ MinSize <= InitialSize /\ Start + InitialSize <= MaxEnd

\* From the end of the index to the end of the heap.
Cells == Start - Rec .. MaxEnd

None == [size |-> 0, align |-> FALSE, owner |-> "none"]
Junk == [magic |-> FALSE, is_hole |-> FALSE, val |-> 0]
Data == [magic |-> FALSE, is_hole |-> FALSE, val |-> -1]

VARIABLES
  mem,           \* what is read at each address
  index,         \* kheap->index: addresses of holes, sorted when inserted
  end_address,   \* kheap->end_address
  slack,         \* pages after end_address are still mapped
  monitor,       \* monitor_init() has registered the lock of the monitor
  request,       \* the alloc() in progress
  entry,         \* locks[monitor_lock].head of the report in progress, 0 if none
  frames,        \* frees suspended in contract(), the innermost last
  live,          \* headers of the blocks callers have
  calls,         \* calls of kmalloc() so far, up to MaxCalls
  defect         \* the first damage done

vars == <<mem, index, end_address, slack, monitor, request, entry, frames, live, calls, defect>>

Holes == Range(index)
Busy == request # None \/ frames # <<>>
Top == frames[Len(frames)]
Pop == SubSeq(frames, 1, Len(frames) - 1)

RoundUp(n) == ((n + Page - 1) \div Page) * Page

\* A record is written at address a, over what overlaps it.
WriteAt(m, a, record) ==
  [c \in Cells |-> IF c = a THEN record
                   ELSE IF c \in a - Rec + 1 .. a + Rec - 1 THEN Junk ELSE m[c]]

WriteHeader(m, a, hole, size) == WriteAt(m, a, [magic |-> TRUE, is_hole |-> hole, val |-> size])

WriteFooter(m, a, header) == WriteAt(m, a, [m[a] EXCEPT !.magic = TRUE, !.val = header])

\* Mutant: is_hole keeps what the hole left there.
WriteBlockMarked(m, b, size) ==
  WriteFooter([m EXCEPT ![b].magic = TRUE, ![b].val = size], b + size - Rec, b)

\* Overwrite the header and the footer of a block that is handed out.
WriteBlock(m, b, size) == WriteFooter(WriteHeader(m, b, FALSE, size), b + size - Rec, b)

\* Mutant: one record short of the end.
ShrinkShort(m, h, size) == WriteFooter([m EXCEPT ![h].val = size], h + size - 2 * Rec, h)

\* A hole that still exists after contract() gets a new size and a new footer.
Shrink(m, h, size) == WriteFooter([m EXCEPT ![h].val = size], h + size - Rec, h)

\* insert_ordered_array(): before the first item that is not smaller.
Insert(s, item, m) ==
  LET at == CHOOSE i \in 1 .. Len(s) + 1 :
              /\ i = Len(s) + 1 \/ m[s[i]].val >= m[item].val
              /\ \A j \in 1 .. i - 1 : m[s[j]].val < m[item].val
  IN  InsertAt(s, at, item)

\* Mutant: removes without having looked for the item.
RemoveLast(s, item) == SubSeq(s, 1, Len(s) - 1)

\* remove_ordered_array() of an item that may not be there: then the last goes.
RemoveItem(s, item) ==
  IF \E i \in DOMAIN s : s[i] = item
  THEN RemoveAt(s, CHOOSE i \in DOMAIN s : s[i] = item /\ \A j \in 1 .. i - 1 : s[j] # item)
  ELSE SubSeq(s, 1, Len(s) - 1)

Init ==
  /\ mem = WriteHeader([a \in Cells |-> Junk], Start, TRUE, InitialSize)
  /\ index = <<Start>>
  /\ end_address = Start + InitialSize
  /\ slack = FALSE
  /\ monitor = FALSE
  /\ request = None
  /\ entry = 0
  /\ frames = <<>>
  /\ live = {}
  /\ calls = 0
  /\ defect = "none"

MonitorInit ==
  /\ ~Busy /\ ~monitor
  /\ monitor' = TRUE
  /\ UNCHANGED <<mem, index, end_address, slack, request, entry, frames, live, calls, defect>>

-----------------------------------------------------------------------------
\* alloc()

\* How far find_smallest_hole() takes header h to be from the place that makes its
\* data page-aligned, ...
Offset(h) == IF (h + Rec) % Page # 0 THEN Page - ((h + Rec) % Page) ELSE 0

\* ... and how far alloc() puts the block: before h, if h is in the last Rec - 1
\* bytes of a page.
FrontSize(h) == IF (h + Rec) % Page # 0 THEN Page - (h % Page) - Rec ELSE 0

Fits(i, r) ==
  LET size == mem[index[i]].val
      offset == IF r.align THEN Offset(index[i]) ELSE 0
  IN  size > offset /\ size - offset >= r.size + 2 * Rec

Fitting(r) == {i \in DOMAIN index : Fits(i, r)}

find_smallest_hole(r) == CHOOSE i \in Fitting(r) : \A j \in Fitting(r) : i <= j

Kmalloc(size, align) ==
  /\ ~Busy /\ calls < MaxCalls
  /\ calls' = calls + 1
  /\ request' = [size |-> size, align |-> align, owner |-> "caller"]
  /\ UNCHANGED <<mem, index, end_address, slack, monitor, entry, frames, live, defect>>

\* The length that expand() makes for request r.
ExpandedLength(r) == RoundUp(end_address - Start + r.size + 2 * Rec)

\* Not endmost in size, but in location.
EndmostHole == CHOOSE h \in Holes : \A g \in Holes : g <= h

\* No hole fits: expand(), then the endmost hole grows, or a new one is made.
Expand ==
  /\ request # None /\ Fitting(request) = {}
  /\ LET grown == ExpandedLength(request) + Start - end_address
         size == IF Holes = {} THEN grown ELSE mem[EndmostHole].val + grown
         header == IF Holes = {} THEN end_address ELSE EndmostHole
         resized == IF Holes = {} THEN WriteHeader(mem, header, TRUE, size)
                                  ELSE [mem EXCEPT ![header].val = size]
     IN  /\ end_address + grown <= MaxEnd
         /\ end_address' = end_address + grown
         /\ mem' = WriteFooter(resized, header + size - Rec, header)
         /\ index' = IF Holes = {} THEN <<header>> ELSE index
         /\ defect' = IF header + size # end_address' THEN "gap" ELSE defect
  /\ UNCHANGED <<slack, monitor, request, entry, frames, live, calls>>

\* A hole was found: a hole in front for alignment, the block, and the rest.
Place(stored) ==
  LET at == find_smallest_hole(request)
      h == index[at]
      total == mem[h].val
      front == IF request.align THEN FrontSize(h) ELSE 0
      size == IF total - (request.size + 2 * Rec) < 2 * Rec THEN total
              ELSE request.size + 2 * Rec
      b == h + front
      rest == total - front - size
      withFront == IF front = 0 THEN mem
                   ELSE WriteFooter(WriteHeader(mem, h, TRUE, front), b - Rec, h)
      withBlock == WriteBlock(withFront, b, size)
      withRest == IF rest = 0 THEN withBlock
                  ELSE WriteFooter(WriteHeader(withBlock, b + size, TRUE, rest),
                                   b + size + rest - Rec, b + size)
      kept == IF front = 0 THEN RemoveAt(index, at) ELSE index
  IN  /\ request # None /\ Fitting(request) # {}
      /\ IF front < 0 \/ front \in 1 .. 2 * Rec - 1 \/ rest \in 1 .. 2 * Rec - 1
         THEN \* the block is put before the hole, over what is there, or the footer
              \* of a hole overwrites its header
              /\ defect' = IF front < 0 THEN "before" ELSE "tiny"
              /\ UNCHANGED <<mem, index, live, entry, request>>
         ELSE /\ mem' = [a \in Cells |-> IF stored /\ a \in b + 1 .. b + request.size + Rec - 1
                                         THEN Data ELSE withRest[a]]
              /\ index' = IF rest = 0 THEN kept ELSE Insert(kept, b + size, withRest)
              /\ live' = live \cup {b}
              /\ entry' = IF request.owner = "lock" THEN b ELSE entry
              /\ request' = None
              /\ UNCHANGED defect
      /\ UNCHANGED <<end_address, slack, monitor, frames, calls>>

-----------------------------------------------------------------------------
\* free()

\* Unify left: the header that the footer before block b names, if a hole.
LeftOf(b) ==
  IF mem[b - Rec].magic /\ mem[mem[b - Rec].val].is_hole THEN mem[b - Rec].val ELSE b

\* free() of block b up to the call of contract(), on top of the suspended ones.
\* Behind the end of the heap, where pages are still mapped, there may be what looks
\* like the header of a hole, `seen', or anything else.
Free(b, suspended, seen) ==
  LET footer == b + mem[b].val - Rec
      h == LeftOf(b)
      hole == [mem EXCEPT ![b].is_hole = TRUE]
      left == IF h = b THEN hole
              ELSE [hole EXCEPT ![footer].val = h, ![h].val = @ + mem[b].val]
      test_header == footer + Rec
      right == IF test_header = end_address THEN seen
               ELSE left[test_header].magic /\ left[test_header].is_hole
      both == IF right THEN [left EXCEPT ![h].val = @ + left[test_header].val] ELSE left
      last == IF right THEN footer + left[test_header].val ELSE footer
      without == IF right THEN RemoveItem(index, test_header) ELSE index
      frame == [header |-> h, test_header |-> test_header, do_add |-> h = b,
                old_length |-> end_address - Start, marks |-> IF monitor THEN Marks ELSE 0,
                block |-> b, kept |-> mem[b + 2 * Rec]]
  IN  /\ live' = live \ {b}
      /\ mem' = both
      /\ IF last + Rec = end_address
         THEN index' = without /\ frames' = Append(suspended, frame)
         ELSE /\ index' = IF h = b THEN Insert(without, h, both) ELSE without
              /\ frames' = suspended
      /\ defect' = IF h # b /\ h \notin Holes \cup {f.header : f \in Range(frames)} THEN "stale"
                   ELSE IF test_header = end_address /\ ~slack THEN "fault"
                   ELSE IF right /\ test_header \notin Holes THEN "lost"
                   ELSE IF Len(frames') > MaxDepth THEN "recursion" ELSE defect
      /\ UNCHANGED <<end_address, slack, monitor, request, calls>>

Kfree(b, seen) == ~Busy /\ Free(b, frames, seen) /\ UNCHANGED entry

\* One character of the report: lock() allocates its queue entry, which is as long
\* as a header, ...
ReportLock ==
  /\ frames # <<>> /\ request = None /\ entry = 0 /\ Top.marks > 0
  /\ request' = [size |-> Rec, align |-> FALSE, owner |-> "lock"]
  /\ UNCHANGED <<mem, index, end_address, slack, monitor, entry, frames, live, calls, defect>>

\* ... and unlock() frees it.
ReportUnlock(seen) ==
  /\ entry # 0
  /\ entry' = 0
  /\ Free(entry, [frames EXCEPT ![Len(frames)].marks = @ - 1], seen)

\* The length that contract() leaves when the last hole starts at h.
ContractedLength(h) ==
  IF RoundUp(h - Start) < MinSize THEN MinSize ELSE RoundUp(h - Start)

\* The rest of contract() and of free().
Contract ==
  /\ frames # <<>> /\ request = None /\ entry = 0 /\ Top.marks = 0
  /\ LET h == Top.header
         new_length == ContractedLength(h)
         size == mem[h].val - (Top.old_length - new_length)
         found == IF size = 0 /\ Top.test_header \in Holes
                  THEN RemoveItem(index, Top.test_header) ELSE index
     IN  /\ mem' = IF size > 0 THEN Shrink(mem, h, size) ELSE mem
         /\ index' = IF Top.do_add THEN Insert(found, h, mem') ELSE found
         /\ slack' = (slack \/ Start + new_length < end_address)
         /\ end_address' = Start + new_length
         /\ defect' = IF Top.old_length # end_address - Start THEN "twice"
                      ELSE IF size = 0 THEN "vanished"
                      ELSE IF size < 2 * Rec THEN "tiny" ELSE defect
  /\ frames' = Pop
  /\ UNCHANGED <<monitor, request, entry, live, calls>>

Next ==
  /\ defect = "none"
  /\ \/ MonitorInit
     \/ \E size \in Sizes, align \in BOOLEAN : Kmalloc(size, align)
     \/ Expand
     \/ \E stored \in BOOLEAN : Place(stored)
     \/ \E b \in live, seen \in BOOLEAN : Kfree(b, seen)
     \/ ReportLock
     \/ \E seen \in BOOLEAN : ReportUnlock(seen)
     \/ Contract

Spec == Init /\ [][Next]_vars

-----------------------------------------------------------------------------
\* Properties

Pieces == live \cup Holes \cup {f.header : f \in Range(frames)}
Extent(s) == s .. s + mem[s].val - 1

\* Blocks in use, holes of the index and the holes of unfinished calls of free()
\* cover the heap, which is never smaller than HEAP_MIN_SIZE: no two overlap, nothing
\* is lost, no hole is listed twice.
\* This holds through splitting, unifying, expanding, contracting and the
\* allocations that contract() makes in the middle of free(), until one of the
\* named conditions is met.
Tiling ==
  defect = "none" =>
    /\ end_address >= Start + MinSize
    /\ Len(index) = Cardinality(Holes)
    /\ \A s, t \in Pieces : s = t \/ Extent(s) \cap Extent(t) = {}
    /\ UNION {Extent(s) : s \in Pieces} = Start .. end_address - 1

\* Whatever happens around a block, free() will find its header and its footer as
\* alloc() wrote them, and every entry of the index is the header of a hole.
BlocksIntact ==
  defect = "none" =>
    /\ \A b \in live : /\ mem[b].magic /\ ~mem[b].is_hole
                       /\ mem[b + mem[b].val - Rec].magic /\ mem[b + mem[b].val - Rec].val = b
    /\ \A h \in Holes : mem[h].magic /\ mem[h].is_hole

\* load_executable() reads the entry point, bytes 24 to 31 of the buffer and so in the
\* second Rec bytes of it, after kfree() of the buffer.  When free() contracts the
\* heap, reporting or not, they are as they were, except where the new end of the heap
\* is close behind them: then the footer of the hole is written over the entry point.
\* It can also be lost when a free() of the report contracted the heap already (the
\* condition `twice').
EntrySurvives ==
  [][/\ Len(frames) = 1 /\ frames' = <<>> /\ Top.test_header - Top.block >= 4 * Rec
     /\ defect' # "twice"
     => \/ mem'[Top.block + 2 * Rec] = Top.kept
        \/ end_address' \in Top.block + 2 * Rec + 1 .. Top.block + 4 * Rec - 1]_vars

\* kheap.c:405 "Rewrite it's footer to point to our header.": between calls, the
\* footer of every hole, where there is one, names the header of that hole.
HoleFooterPointsBack ==
  ~Busy => \A h \in Holes : LET f == h + mem[h].val - Rec IN mem[f].magic => mem[f].val = h
=============================================================================
