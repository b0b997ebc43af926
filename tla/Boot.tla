--------------------------------- MODULE Boot ---------------------------------
(***************************************************************************)
(* The boot loader: stage 1 (stage1.asm, diskio.asm) finds and loads       *)
(* STAGE2 through the BIOS, stage 2 (stage2.asm, diskio64.asm) finds and   *)
(* loads KERNEL with its own driver, and loadelf.asm copies the segments of*)
(* the kernel.  Disk reads are answered: the drive that fails is Fat32's.  *)
(***************************************************************************)
EXTENDS Disk, FiniteSetsExt

CONSTANTS
  Stage2Name, KernelName,
  Kernels,       \* program headers of the kernel, a sequence of seven words each
  Stage2Room,    \* sectors from stage2, 0x9000, to the end of the segment (56)
  KernelRoom,    \* sectors from kernel, 0x20000, to the end of the memory there (1024)
  BufferEntries  \* what 32 bytes of the search buffer of stage 2 may be before

VARIABLES
  headers,
  stage,         \* where the boot loader is
  fat_begin_lba, cluster_begin_lba,
  current_cluster,   \* rax in stage 2
  list,          \* the entries in the search buffer
  loaded,        \* the sectors at stage2 or kernel
  copied         \* what loadelf copied

begins == <<fat_begin_lba, cluster_begin_lba>>
boot_vars == <<headers, stage, begins, current_cluster, list, loaded, copied>>

BootInit ==
  /\ headers \in Kernels
  /\ stage = "start"
  /\ fat_begin_lba = 0 /\ cluster_begin_lba = 0
  /\ current_cluster = 0 /\ list = <<>> /\ loaded = <<>> /\ copied = {}

-----------------------------------------------------------------------------
clusterLBA(c) == cluster_begin_lba + (c - 2) * disk.spc

\* Mutant: counts the words from 1.
FatPlaceNext(c) == [lba |-> fat_begin_lba + c \div WordsPerSector, word |-> (c + 1) % WordsPerSector]

\* The entry of a cluster in the FAT: a sector, and a word of it.
FatPlace(c) == [lba |-> fat_begin_lba + c \div WordsPerSector, word |-> c % WordsPerSector]

\* Mutant: the reserved bits are part of the number.
NextRaw(c) == WordOf(disk, SectorAt(disk, FatPlace(c).lba), FatPlace(c).word)

\* getNextCluster: the number of the next cluster, or what is at least EndOfChain.
\* The test for a cluster that is the end already never holds.
getNextCluster(c) ==
  WordOf(disk, SectorAt(disk, FatPlace(c).lba), FatPlace(c).word) % ClusterMask

\* cmp rax, bytes_per_cluster, which is a word.
EntriesSearched == ((disk.spc * BytesPerSector) % 2^16) \div 32

\* nextEntry: the first entry with that name, all characters of it.
Matching(name) == {i \in DOMAIN list : i <= EntriesSearched /\ list[i].name = name}

ClusterOf(e) == e.high * 2^16 + e.low

-----------------------------------------------------------------------------
\* Stage 1.  The BIOS reads all sectors it is asked for.

BiosRead(lba) == [k \in 1 .. disk.spc |-> SectorAt(disk, lba + k - 1)]
BiosList(lba) == FlattenSeq([k \in 1 .. disk.spc |-> EntriesOf(disk, BiosRead(lba)[k])])

\* The first addition is one of 16 bits.
Stage1 ==
  /\ stage = "start"
  /\ fat_begin_lba' = (disk.lba \div 2^16) * 2^16 + ((disk.lba + disk.reserved) % 2^16)
  /\ cluster_begin_lba' = fat_begin_lba' + disk.fats * disk.spf
  /\ current_cluster' = disk.root
  /\ list' = BiosList(cluster_begin_lba' + (disk.root - 2) * disk.spc)
  /\ stage' = "search 1"
  /\ UNCHANGED <<disk, headers, loaded, copied>>

Search1 ==
  /\ stage = "search 1" /\ Matching(Stage2Name) # {}
  /\ LET first == ClusterOf(list[Min(Matching(Stage2Name))])
     IN  current_cluster' = first /\ loaded' = BiosRead(clusterLBA(first))
  /\ stage' = "load 1"
  /\ UNCHANGED <<disk, headers, begins, list, copied>>

\* Mutant: current_cluster stays.
NotFound1Same ==
  /\ stage = "search 1" /\ Matching(Stage2Name) = {}
  /\ LET next == getNextCluster(current_cluster)
     IN  \/ /\ next < EndOfChain
            /\ list' = BiosList(clusterLBA(next))
            /\ UNCHANGED <<stage, current_cluster>>
         \/ /\ next >= EndOfChain
            /\ stage' = "halted 1"
            /\ UNCHANGED <<current_cluster, list>>
  /\ UNCHANGED <<disk, headers, begins, loaded, copied>>

\* The root directory goes on in its next cluster.
NotFound1 ==
  /\ stage = "search 1" /\ Matching(Stage2Name) = {}
  /\ LET next == getNextCluster(current_cluster)
     IN  \/ /\ next < EndOfChain
            /\ current_cluster' = next /\ list' = BiosList(clusterLBA(next))
            /\ UNCHANGED stage
         \/ /\ next >= EndOfChain
            /\ stage' = "halted 1"
            /\ UNCHANGED <<current_cluster, list>>
  /\ UNCHANGED <<disk, headers, begins, loaded, copied>>

\* The sector of the FAT is read to where the next cluster goes.
oneMoreCluster1 ==
  /\ stage = "load 1" /\ Len(loaded) < Stage2Room
  /\ LET next == getNextCluster(current_cluster)
     IN  \/ /\ next < EndOfChain
            /\ current_cluster' = next /\ loaded' = loaded \o BiosRead(clusterLBA(next))
            /\ UNCHANGED stage
         \/ /\ next >= EndOfChain
            /\ stage' = "stage 2"
            /\ UNCHANGED <<current_cluster, loaded>>
  /\ UNCHANGED <<disk, headers, begins, list, copied>>

\* The buffer's offset is a word and its segment the word behind it, both added to at
\* once: at 64K the sector of the FAT goes to low memory instead, and [esi] is beyond
\* the limit of the segment.
Overrun1 ==
  /\ stage = "load 1" /\ Len(loaded) >= Stage2Room
  /\ stage' = "overrun"
  /\ UNCHANGED <<disk, headers, begins, current_cluster, list, loaded, copied>>

\* hlt with interrupts enabled: the next one goes on with the data behind it.
done ==
  /\ stage = "halted 1"
  /\ stage' = "wild 1"
  /\ UNCHANGED <<disk, headers, begins, current_cluster, list, loaded, copied>>

-----------------------------------------------------------------------------
\* Stage 2.  Its read copies one sector, whatever the count.

readCluster ==
  /\ stage = "stage 2"
  /\ current_cluster' = disk.root
  /\ \E e \in BufferEntries :
       list' = EntriesOf(disk, SectorAt(disk, clusterLBA(disk.root)))
               \o [i \in 1 .. (disk.spc - 1) * EntriesPerSector |-> e]
  /\ stage' = "search 2"
  /\ UNCHANGED <<disk, headers, begins, loaded, copied>>

\* loadFile goes on with the first cluster.
searchFile ==
  /\ stage = "search 2" /\ Matching(KernelName) # {}
  /\ LET first == ClusterOf(list[Min(Matching(KernelName))])
     IN  current_cluster' = first /\ loaded' = <<SectorAt(disk, clusterLBA(first))>>
  /\ stage' = "load 2"
  /\ UNCHANGED <<disk, headers, begins, list, copied>>

\* je notFound: nextRoot is never reached, and ret takes the cluster that readCluster
\* pushed for the address to go back to.
notFound ==
  /\ stage = "search 2" /\ Matching(KernelName) = {}
  /\ stage' = "wild"
  /\ UNCHANGED <<disk, headers, begins, current_cluster, list, loaded, copied>>

\* rdi goes on by what was copied, also into what is not memory.
LoadNext(sectors, sector) == Append(sectors, sector)

oneMoreCluster2 ==
  /\ stage = "load 2"
  /\ LET next == getNextCluster(current_cluster)
     IN  \/ /\ next < EndOfChain /\ Len(loaded) < KernelRoom
            /\ current_cluster' = next /\ loaded' = LoadNext(loaded, SectorAt(disk, clusterLBA(next)))
            /\ UNCHANGED stage
         \/ /\ next < EndOfChain /\ Len(loaded) >= KernelRoom
            /\ stage' = "overrun"
            /\ UNCHANGED <<current_cluster, loaded>>
         \/ /\ next >= EndOfChain
            /\ stage' = "elf"
            /\ UNCHANGED <<current_cluster, loaded>>
  /\ UNCHANGED <<disk, headers, begins, list, copied>>

\* A word of the table of program headers: seven words each.
HeaderWord(w) == headers[(w \div 7) + 1][(w % 7) + 1]

\* "0x30 is probably the program header entry size :D"
Stride == 48 \div 8

Segment(i) ==
  [type |-> HeaderWord(Stride * i), offset |-> HeaderWord(Stride * i + 1),
   vaddr |-> HeaderWord(Stride * i + 2), size |-> HeaderWord(Stride * i + 4)]

loadelf ==
  /\ stage = "elf"
  /\ copied' = {s \in {Segment(i) : i \in 0 .. Len(headers) - 1} : s.type = 1}
  /\ stage' = "kernel"
  /\ UNCHANGED <<disk, headers, begins, current_cluster, list, loaded>>

BootNext ==
  \/ Stage1 \/ Search1 \/ NotFound1 \/ oneMoreCluster1 \/ Overrun1 \/ done
  \/ readCluster \/ searchFile \/ notFound \/ oneMoreCluster2 \/ loadelf

-----------------------------------------------------------------------------
\* Properties

Named(name) == {i \in DOMAIN RootEntries(disk) : RootEntries(disk)[i].name = name}

\* stage1.asm:97 "travel through root directory and look for our file": stage 1 stops
\* with its message only if the root directory, in whichever of its clusters, does not
\* have STAGE2; stage 2 gives up only if the first cluster does not have KERNEL.
HaltsWithoutFile ==
  /\ stage \in {"halted 1", "wild 1"} => Named(Stage2Name) = {}
  /\ stage = "wild" =>
       \A i \in Named(KernelName) : i > disk.spc * EntriesPerSector

FirstNamed(name) == FirstCluster(RootEntries(disk)[Min(Named(name))])

\* stage1.asm:154 and diskio64.asm:4 "load complete file": each stage hands over with
\* all sectors of the file in memory, in order, wherever on the volume they are.  A
\* file that is too long for the memory it is loaded to ends in "overrun" instead.
LoadsWhole ==
  /\ stage = "stage 2" => loaded = ChainSectors(disk, FirstNamed(Stage2Name))
  /\ stage = "elf" => loaded = ChainSectors(disk, FirstNamed(KernelName))

\* No search or load goes on for ever: the machine comes to the kernel, to the message
\* of stage 1, to the end of the search of stage 2, or past the memory for a file.
BootEnds == <>(stage \in {"kernel", "halted 1", "wild", "overrun"})

=============================================================================
