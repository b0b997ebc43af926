------------------------------- MODULE FrameScan -------------------------------
(***************************************************************************)
(* The loops of kernel/memman.c over the bit map, as they are written, and *)
(* the descriptions of their results that module FrameMap works with.      *)
(*                                                                         *)
(* The loops run over words i and bits j; b = i * WordSize + j here, and   *)
(* the test of the outer loop is made where j is 0.                        *)
(***************************************************************************)
EXTENDS FrameMap

WordFull(b) == b .. b + WordSize - 1 \subseteq set_bits

\* The outer loop is at its end, or goes past a word without a clear bit.
OuterEnd(b) == b % WordSize = 0 /\ b \div WordSize >= Words
OuterSkip(b) == b % WordSize = 0 /\ WordFull(b)

\* mmap_first_free()
FirstFreeLoop ==
  LET from[b \in 0 .. (Words + 1) * WordSize] ==
        CASE OuterEnd(b)  -> 0
          [] ~OuterEnd(b) /\ OuterSkip(b) -> from[b + WordSize]
          [] OTHER -> IF IsFree(b) THEN b ELSE from[b + 1]
  IN  from[0]

\* The loop over count: the first set bit at or after b.
SetBitAfter(b) == CHOOSE c \in set_bits : b <= c /\ \A d \in b .. c - 1 : IsFree(d)

\* Mutant: after a zone that is too small the search goes on in the next word.
ZoneLoopNextWord(size) ==
  LET from[b \in 0 .. (Words + 2) * WordSize] ==
        CASE OuterEnd(b)  -> 0
          [] ~OuterEnd(b) /\ OuterSkip(b) -> from[b + WordSize]
          [] ~OuterEnd(b) /\ ~OuterSkip(b) /\ ~IsFree(b) -> from[b + 1]
          [] OTHER -> IF SetBitAfter(b) - b >= size THEN b
                      ELSE from[(SetBitAfter(b) \div WordSize + 1) * WordSize]
  IN  IF size <= 1 THEN (IF size = 0 THEN 0 ELSE FirstFreeLoop) ELSE from[0]

\* mmap_first_free_zone(size): from a zone that is too small the search jumps
\* to the bit that ends it, in whatever word that is, without the test of the
\* outer loop.
ZoneLoop(size) ==
  LET from[b \in 0 .. (Words + 1) * WordSize] ==
        CASE OuterEnd(b)  -> 0
          [] ~OuterEnd(b) /\ OuterSkip(b) -> from[b + WordSize]
          [] ~OuterEnd(b) /\ ~OuterSkip(b) /\ ~IsFree(b) -> from[b + 1]
          [] OTHER -> IF SetBitAfter(b) - b >= size THEN b ELSE from[SetBitAfter(b) + 1]
  IN  IF size <= 1 THEN (IF size = 0 THEN 0 ELSE FirstFreeLoop) ELSE from[0]

\* mem_init_region(start, blocks): where align stands when no blocks are left.
RegionLoop(start, blocks) ==
  LET align[n \in 0 .. blocks] ==
        IF n = 0 THEN start
        ELSE IF align[n - 1] \in set_bits THEN align[n - 1] + 1 ELSE align[n - 1]
  IN  align[blocks]

-----------------------------------------------------------------------------

\* The two searches return exactly the block FrameMap describes, for every map that
\* calls can make and every size: the jump over a zone that is too small loses no
\* zone, and where it leaves the full words it may still find one after them.
\* mem_init_region() stops exactly where FrameMap says.
LoopsMatch ==
  /\ \A b \in MapBits : FirstFree(b) <=> b = FirstFreeLoop
  /\ \A size \in 0 .. max_blocks, b \in MapBits :
       FirstFreeZone(size, b) <=> b = ZoneLoop(size)
  /\ \A start \in Blocks : \A blocks \in 0 .. max_blocks - start :
       \A stop \in start .. start + blocks :
         RegionStop(start, blocks, stop) <=> stop = RegionLoop(start, blocks)

=============================================================================
