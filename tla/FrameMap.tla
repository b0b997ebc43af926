------------------------------- MODULE FrameMap -------------------------------
(***************************************************************************)
(* The physical memory allocator of kernel/memman.c: a bit map with one    *)
(* bit per 4 KB block, set for blocks in use, and a counter of them.       *)
(*                                                                         *)
(* memman_init() sets every bit, clears those of the regions the BIOS      *)
(* reports as available, and sets those of the first megabyte and of the   *)
(* kernel again.  From then on blocks are handed out and given back; a     *)
(* caller gives back what it was handed.  Calls run one after the other:   *)
(* before the first fork, or with interrupts disabled.                     *)
(*                                                                         *)
(* Regions start at a block boundary, as in the maps of a BIOS, and sizes  *)
(* are in blocks; the code drops the rest of a region too.                 *)
(***************************************************************************)
EXTENDS Integers, Sequences, FiniteSets

CONSTANTS
  WordSize,       \* bits of a word of the map (64)
  MemoryMaps,     \* the memory maps the BIOS may report
  LowBlocks,      \* blocks of the first megabyte (256)
  KernelStart,    \* first block of the kernel (0x200)
  KernelBlocks    \* blocks_used_by_kernel, the map included

Region == [start : Nat, blocks : Nat, available : BOOLEAN]

ASSUME WordSizeAssumption == WordSize \in Nat /\ WordSize >= 1
ASSUME MemoryMapsAssumption == MemoryMaps \subseteq Seq(Region)
ASSUME ReservedAssumption ==
  LowBlocks \in Nat /\ LowBlocks >= 1 /\ KernelStart \in Nat /\ KernelBlocks \in Nat

VARIABLES
  memory_map,     \* bootinfo's memory map
  region,         \* how many of its regions memman_init has gone through
  ready,          \* memman_init has set up the map
  max_blocks,     \* _mem_max_blocks
  used_blocks,    \* _mem_used_blocks
  set_bits,       \* the bits of _mem_memory_map that are 1
  owned           \* blocks that were handed out and not given back

vars == <<memory_map, region, ready, max_blocks, used_blocks, set_bits, owned>>

-----------------------------------------------------------------------------

RegionBlocks(r) == r.start .. r.start + r.blocks - 1

\* The blocks of the regions of type 1.
Available ==
  UNION {RegionBlocks(memory_map[i]) : i \in {j \in DOMAIN memory_map : memory_map[j].available}}

\* limit / MEM_BLOCK_SIZE: the end of the last region of type 1.
IsLimit(mm, limit) ==
  /\ \A i \in DOMAIN mm : mm[i].available => mm[i].start + mm[i].blocks <= limit
  /\ limit = 0 \/ \E i \in DOMAIN mm :
                     mm[i].available /\ mm[i].start + mm[i].blocks = limit

Blocks == 0 .. max_blocks - 1
Words == max_blocks \div WordSize

\* The map has one word more than there are full ones.
MapBits == 0 .. (Words + 1) * WordSize - 1

Reserved == (0 .. LowBlocks - 1) \union (KernelStart .. KernelStart + KernelBlocks - 1)

\* memman_init() after its loop that sets all bits.  The BIOS reports the
\* memory the kernel was loaded to.
Init ==
  /\ memory_map \in MemoryMaps
  /\ max_blocks \in {0} \union {memory_map[i].start + memory_map[i].blocks :
                                  i \in DOMAIN memory_map}
  /\ IsLimit(memory_map, max_blocks)
  /\ Reserved \subseteq Blocks
  /\ region = 0
  /\ ready = FALSE
  /\ used_blocks = max_blocks
  /\ set_bits = MapBits
  /\ owned = {}

-----------------------------------------------------------------------------
(* memman_init() *)

\* Mutant: the bit is not tested before it is counted.
MemInitRegionUntested(start, blocks) ==
  /\ set_bits' = set_bits \ (start .. start + blocks - 1)
  /\ used_blocks' = used_blocks - blocks

\* Mutant: one block too few.
MemInitRegionShort(start, blocks) ==
  /\ set_bits' = set_bits \ (start .. start + blocks - 2)
  /\ used_blocks' = used_blocks - Cardinality(set_bits \intersect (start .. start + blocks - 2))

\* mem_init_region() stops at block stop: only a bit that it clears moves its
\* loop on to the next block, so it gets no further than the first clear bit.
RegionStop(start, blocks, stop) ==
  /\ start .. stop - 1 \subseteq set_bits
  /\ stop = start + blocks \/ stop \notin set_bits

MemInitRegion(start, blocks) ==
  \E stop \in start .. start + blocks :
    /\ RegionStop(start, blocks, stop)
    /\ set_bits' = set_bits \ (start .. stop - 1)
    /\ used_blocks' = used_blocks - (stop - start)

InitRegion ==
  /\ region < Len(memory_map)
  /\ region' = region + 1
  /\ LET r == memory_map[region + 1]
     IN  \/ r.available /\ MemInitRegion(r.start, r.blocks)
         \/ ~r.available /\ UNCHANGED <<set_bits, used_blocks>>
  /\ UNCHANGED <<memory_map, ready, max_blocks, owned>>

\* Mutant: the kernel's own blocks are not taken back.
ReserveLow ==
  /\ ~ready /\ region = Len(memory_map)
  /\ ready' = TRUE
  /\ set_bits' = set_bits \union (0 .. LowBlocks - 1)
  /\ used_blocks' = used_blocks + Cardinality((0 .. LowBlocks - 1) \ set_bits)
  /\ UNCHANGED <<memory_map, region, max_blocks, owned>>

\* The first megabyte and the kernel are in use, if they were not before.
Reserve ==
  /\ ~ready /\ region = Len(memory_map)
  /\ ready' = TRUE
  /\ set_bits' = set_bits \union Reserved
  /\ used_blocks' = used_blocks + Cardinality(Reserved \ set_bits)
  /\ UNCHANGED <<memory_map, region, max_blocks, owned>>

-----------------------------------------------------------------------------
(* Handing blocks out and taking them back *)

mem_free_block_count == max_blocks - used_blocks

IsFree(b) == b \notin set_bits

\* mmap_first_free() returns b; it looks at the full words only, and 0 says
\* that it found none.
FirstFree(b) ==
  \/ /\ b \in 0 .. Words * WordSize - 1 /\ IsFree(b)
     /\ \A c \in 0 .. b - 1 : ~IsFree(c)
  \/ /\ b = 0
     /\ \A c \in 0 .. Words * WordSize - 1 : ~IsFree(c)

\* Where mmap_first_free_zone() looks for the start of a zone: in the full
\* words and, when its loop runs out of the last of them inside a zone that
\* is too small, in the word after them.
ZoneStarts ==
  IF Words > 0 /\ IsFree(Words * WordSize - 1)
  THEN MapBits
  ELSE 0 .. Words * WordSize - 1

ZoneAt(b, size) == \A c \in b .. b + size - 1 : c \in MapBits /\ IsFree(c)

\* mmap_first_free_zone(size) returns b.
FirstFreeZone(size, b) ==
  \/ size = 0 /\ b = 0
  \/ size = 1 /\ FirstFree(b)
  \/ /\ size > 1 /\ b \in ZoneStarts /\ ZoneAt(b, size)
     /\ \A c \in 0 .. b - 1 : ~ZoneAt(c, size)
  \/ /\ size > 1 /\ b = 0
     /\ \A c \in ZoneStarts : ~ZoneAt(c, size)

\* mem_alloc_block().  Where it returns 0 nothing changes.
MemAllocBlock ==
  /\ ready
  /\ mem_free_block_count # 0
  /\ \E b \in Blocks :
       /\ FirstFree(b) /\ b # 0
       /\ set_bits' = set_bits \union {b}
       /\ owned' = owned \union {b}
  /\ used_blocks' = used_blocks + 1
  /\ UNCHANGED <<memory_map, region, ready, max_blocks>>

\* mem_alloc_blocks(size)
MemAllocBlocks(size) ==
  /\ ready
  /\ mem_free_block_count >= size
  /\ \E b \in Blocks :
       /\ FirstFreeZone(size, b) /\ b # 0
       /\ set_bits' = set_bits \union (b .. b + size - 1)
       /\ owned' = owned \union (b .. b + size - 1)
  /\ used_blocks' = used_blocks + size
  /\ UNCHANGED <<memory_map, region, ready, max_blocks>>

\* mem_free_block(addr), of a block the caller was handed.
MemFreeBlock(b) ==
  /\ b \in owned
  /\ set_bits' = set_bits \ {b}
  /\ owned' = owned \ {b}
  /\ used_blocks' = used_blocks - 1
  /\ UNCHANGED <<memory_map, region, ready, max_blocks>>

\* Mutant: one block too many.
MemFreeBlocksPast(b, size) ==
  /\ b .. b + size - 1 \subseteq owned
  /\ set_bits' = set_bits \ (b .. b + size)
  /\ owned' = owned \ (b .. b + size - 1)
  /\ used_blocks' = used_blocks - size
  /\ UNCHANGED <<memory_map, region, ready, max_blocks>>

\* mem_free_blocks(addr, size)
MemFreeBlocks(b, size) ==
  /\ b .. b + size - 1 \subseteq owned
  /\ set_bits' = set_bits \ (b .. b + size - 1)
  /\ owned' = owned \ (b .. b + size - 1)
  /\ used_blocks' = used_blocks - size
  /\ UNCHANGED <<memory_map, region, ready, max_blocks>>

Next ==
  \/ InitRegion \/ Reserve
  \/ MemAllocBlock
  \/ \E size \in 1 .. max_blocks : MemAllocBlocks(size)
  \/ \E b \in Blocks : MemFreeBlock(b)
  \/ \E b \in Blocks, size \in 1 .. max_blocks : MemFreeBlocks(b, size)

Spec == Init /\ [][Next]_vars

-----------------------------------------------------------------------------
(* Properties *)

\* The map has a bit for every block and the blocks that are handed out are
\* blocks of memory.
TypeOK ==
  /\ memory_map \in MemoryMaps
  /\ region \in 0 .. Len(memory_map)
  /\ ready \in BOOLEAN
  /\ max_blocks \in Nat
  /\ used_blocks \in 0 .. max_blocks
  /\ set_bits \subseteq MapBits
  /\ owned \subseteq Blocks

\* The counter agrees with the map after every call, however the regions of
\* the memory map overlap: mem_alloc_block() trusts it to say that memory is
\* exhausted.
CountMatchesMap == used_blocks = Cardinality(set_bits \intersect Blocks)

\* A block somebody was handed is marked, so it is not handed out again; it
\* lies in available memory, not in the first megabyte and not in the kernel.
OwnedBlocksSafe ==
  /\ owned \subseteq set_bits
  /\ owned \subseteq Available
  /\ owned \intersect Reserved = {}

Disjoint ==
  \A i, j \in DOMAIN memory_map : i # j =>
    RegionBlocks(memory_map[i]) \intersect RegionBlocks(memory_map[j]) = {}

\* No block is lost: with regions that do not overlap, available memory that
\* nobody has and nobody reserved is free.
NothingLost ==
  ready /\ Disjoint => Available \ (Reserved \union owned) = Blocks \ set_bits

\* The available blocks of the regions memman_init has gone through.
Cleared ==
  UNION {RegionBlocks(memory_map[i]) : i \in {j \in 1 .. region : memory_map[j].available}}

\* Why: what can be handed out is available memory that is not reserved, and
\* while the regions are gone through, the bits of those so far are clear.
FrameInv ==
  /\ TypeOK
  /\ CountMatchesMap
  /\ OwnedBlocksSafe
  /\ Reserved \union Available \subseteq Blocks
  /\ MapBits \ set_bits \subseteq Available
  /\ ready => Reserved \subseteq set_bits /\ region = Len(memory_map)
  /\ ~ready => owned = {}
  /\ ~ready /\ Disjoint => MapBits \ set_bits = Cleared
  /\ NothingLost

=============================================================================
