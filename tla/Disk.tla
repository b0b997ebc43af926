--------------------------------- MODULE Disk ---------------------------------
(***************************************************************************)
(* A disk with one FAT32 volume, as the boot loader and the kernel find it.*)
(* A volume is a record: lba, reserved, fats, spf (sectors of one FAT), spc*)
(* (sectors per cluster), root (cluster of the root directory), fat (the   *)
(* entries that are not 0), dir (the entries of the sectors that hold some,*)
(* by cluster and sector in it) and elf (first clusters of executables).   *)
(* An entry is a record: name, high, low, size.  What a sector of a file   *)
(* holds is told by its place.                                             *)
(***************************************************************************)
EXTENDS Integers, Sequences, SequencesExt

CONSTANTS
  NameSize,      \* characters of a name in an entry (11)
  Characters,    \* what names are made of
  Volumes        \* the disks the machine is started with

ASSUME NameAssumption == NameSize \in Nat \ {0} /\ "0" \in Characters

VARIABLE disk

BytesPerSector == 512
WordsPerSector == BytesPerSector \div 4
EntriesPerSector == BytesPerSector \div 32

\* The top four bits of an entry of the FAT are reserved.
ClusterMask == 2^28
EndOfChain == ClusterMask - 8

FatBegin(v) == v.lba + v.reserved
ClusterBegin(v) == FatBegin(v) + v.fats * v.spf

\* What the sector at that address is: part says which sector of its kind.
SectorAt(v, lba) ==
  LET fat == lba - FatBegin(v)
      data == lba - ClusterBegin(v)
  IN  CASE lba = 0 -> [kind |-> "mbr", cluster |-> 0, part |-> 0]
        [] lba = v.lba -> [kind |-> "volume", cluster |-> 0, part |-> 0]
        [] fat \in 0 .. v.fats * v.spf - 1 -> [kind |-> "fat", cluster |-> 0, part |-> fat % v.spf]
        [] data >= 0 -> [kind |-> "data", cluster |-> 2 + data \div v.spc, part |-> data % v.spc]
        [] OTHER -> [kind |-> "other", cluster |-> 0, part |-> 0]

FatEntry(v, c) == IF c \in DOMAIN v.fat THEN v.fat[c] ELSE 0

\* The word of that number in a sector that was read.
WordOf(v, sector, i) ==
  IF sector.kind = "fat" THEN FatEntry(v, sector.part * WordsPerSector + i) ELSE 0

NoEntry == [name |-> [i \in 1 .. NameSize |-> "0"], high |-> 0, low |-> 0, size |-> 0]

\* The entries of a sector that was read.
EntriesOf(v, sector) ==
  LET at == <<sector.cluster, sector.part>>
      some == IF sector.kind = "data" /\ at \in DOMAIN v.dir THEN v.dir[at] ELSE <<>>
  IN  [i \in 1 .. EntriesPerSector |-> IF i <= Len(some) THEN some[i] ELSE NoEntry]

-----------------------------------------------------------------------------
\* What is on the volume: the reference for its readers.

FirstCluster(entry) == entry.high * 2^16 + entry.low

NextCluster(v, c) == FatEntry(v, c) % ClusterMask

\* The clusters of a chain, in order.
Chain(v, c) ==
  LET upto[k \in 0 .. Cardinality(DOMAIN v.fat)] ==
        IF k = 0 THEN <<c>>
        ELSE LET before == upto[k - 1]
                 next == NextCluster(v, Last(before))
             IN  IF next >= EndOfChain THEN before ELSE Append(before, next)
  IN  upto[Cardinality(DOMAIN v.fat)]

\* The sectors of a chain, in order.
ChainSectors(v, c) ==
  LET chain == Chain(v, c)
  IN  [k \in 1 .. v.spc * Len(chain) |->
         [kind |-> "data", cluster |-> chain[(k - 1) \div v.spc + 1], part |-> (k - 1) % v.spc]]

\* The entries of the root directory, in order.
RootEntries(v) ==
  LET sectors == ChainSectors(v, v.root)
  IN  FlattenSeq([k \in DOMAIN sectors |-> EntriesOf(v, sectors[k])])

-----------------------------------------------------------------------------
\* Volumes as bin/Makefile makes them: mkdosfs -F 32 -s 1.

Entries == [name : [1 .. NameSize -> Characters], high : Nat, low : Nat, size : Nat]

\* A chain that ends and stays within the clusters of the FAT.
Sound(v, c) ==
  LET chain == Chain(v, c)
  IN  /\ \A k \in DOMAIN chain : chain[k] \in 2 .. v.spf * WordsPerSector - 1
      /\ NextCluster(v, Last(chain)) >= EndOfChain

WellFormed(v) ==
  /\ {v.lba, v.reserved, v.fats, v.spf} \subseteq Nat \ {0} /\ v.spc = 1
  /\ (v.lba % 2^16) + v.reserved < 2^16
  /\ IsFiniteSet(DOMAIN v.fat) /\ (\A c \in DOMAIN v.fat : v.fat[c] \in Nat)
  /\ FatEntry(v, 0) >= EndOfChain
  /\ \A at \in DOMAIN v.dir : v.dir[at] \in Seq(Entries)
  /\ v.root \in Nat /\ Sound(v, v.root)
=============================================================================
