--------------------------------- MODULE Fat32 ---------------------------------
(***************************************************************************)
(* kernel/fat32.c with the drive below it (diskio.c, read_sectors.asm) and *)
(* exec() and load_executable() above: from the name of a program to its   *)
(* file in a buffer of the kernel.  One step takes the program from one    *)
(* sector read to the command for the next.  What the program does with    *)
(* the buffer is AddressSpace.                                             *)
(***************************************************************************)
EXTENDS Disk, CLib

CONSTANTS
  Arguments,     \* what exec() is called with
  HeapWords,     \* what a word of memory behind a heap block may be
  HeapEntries,   \* what 32 bytes of a new heap block may be
  MaxSectors,    \* bound: sectors of the buffer that are told apart
  MayFail        \* the drive may fail to answer

VARIABLES
  drive,                      \* state, and the registers lba and count
  pc,
  fat_begin, cluster_begin,   \* _fat_begin_lba, _cluster_begin_lba
  argument,                   \* of exec()
  name,                       \* of find_file()
  caller,                     \* of find_file(): "exec" or "load"
  cluster,                    \* of find_file() and read_file()
  file,                       \* the entry that exec() found
  entry,                      \* the one that load_executable() found
  space, buffer,              \* size of load_executable()'s buffer, and its sectors
  result                      \* of the last exec()

memory == <<fat_begin, cluster_begin>>
search == <<argument, name, caller, file, entry, space>>
fat_vars == <<drive, pc, memory, search, cluster, buffer, result>>

None == [name |-> <<>>, high |-> 0, low |-> 0, size |-> 0]

FatInit ==
  /\ drive = [state |-> "idle", lba |-> 0, count |-> 0]
  /\ pc = "boot"
  /\ fat_begin = 0 /\ cluster_begin = 0
  /\ name = Stored(<<>>, 1) /\ argument = name /\ caller = "exec"
  /\ cluster = 0 /\ file = None /\ entry = None
  /\ space = 0 /\ buffer = <<>> /\ result = "none"

-----------------------------------------------------------------------------
\* The drive

\* read_sectors() sends the command, and polls until there is data.
Command(lba, count) == drive' = [state |-> "busy", lba |-> lba, count |-> count]

Answer ==
  /\ drive.state = "busy"
  /\ drive' = [drive EXCEPT !.state = "ready"]
  /\ UNCHANGED <<disk, pc, memory, search, cluster, buffer, result>>

\* No data comes.
Fail ==
  /\ MayFail /\ drive.state = "busy"
  /\ drive' = [drive EXCEPT !.state = "failed"]
  /\ UNCHANGED <<disk, pc, memory, search, cluster, buffer, result>>

\* Then it copies one sector, whatever the count, and returns 1.
Copied == SectorAt(disk, drive.lba)
At(label) == pc = label /\ drive.state = "ready"

-----------------------------------------------------------------------------
\* fat32_init()

read_sector(lba) == Command(lba, 1)

ReadTable ==
  /\ pc = "boot"
  /\ read_sector(0) /\ pc' = "table"
  /\ UNCHANGED <<disk, memory, search, cluster, buffer, result>>

ReadVolume ==
  /\ At("table")
  /\ read_sector(disk.lba) /\ pc' = "volume"
  /\ UNCHANGED <<disk, memory, search, cluster, buffer, result>>

SetVolume ==
  /\ At("volume")
  /\ fat_begin' = disk.lba + disk.reserved
  /\ cluster_begin' = disk.lba + disk.reserved + disk.fats * disk.spf
  /\ drive' = [drive EXCEPT !.state = "idle"] /\ pc' = "idle"
  /\ UNCHANGED <<disk, search, cluster, buffer, result>>

-----------------------------------------------------------------------------
cluster2lba(c) == cluster_begin + (c - 2) * disk.spc

read_cluster(c) == Command(cluster2lba(c), disk.spc)

\* The sector of the FAT that find_next_cluster() reads, and the word it takes.
\* Its first test never holds: the callers have made it.
FatSector(c) == (c \div BytesPerSector) \div 4
FatIndex(c) == c % BytesPerSector

read_fat(c) == read_sector(fat_begin + FatSector(c))

\* What find_next_cluster() returns once the sector is there: 512 bytes of it.
NextWords(c) ==
  IF FatIndex(c) < WordsPerSector THEN {WordOf(disk, Copied, FatIndex(c))} ELSE HeapWords

\* The test of both loops.
IsEnd(next) == next >= EndOfChain

\* What exec() returns or jumps to.
Return(res) ==
  /\ result' = res /\ pc' = "idle"
  /\ drive' = [drive EXCEPT !.state = "idle"]

-----------------------------------------------------------------------------
\* find_file()

find_file(n, from) ==
  /\ name' = n /\ caller' = from
  /\ cluster' = disk.root
  /\ read_cluster(disk.root) /\ pc' = "find"

exec(text) ==
  /\ pc = "idle"
  /\ argument' = Stored(text, Len(text) + 1)
  /\ find_file(argument', "exec")
  /\ file' = None /\ entry' = None /\ result' = "none"
  /\ space' = 0 /\ buffer' = <<>>
  /\ UNCHANGED <<disk, memory>>

\* The name of an entry, with its last character cut off.
filename(e) == [i \in 0 .. NameSize - 1 |-> IF i = NameSize - 1 THEN NUL ELSE e.name[i + 1]]

\* Mutant: as the shell compares, with the terminator.
MatchesWhole(e) == strncmp(filename(e), name, strlen(name)) = 1

Matches(e) == strncmp(filename(e), name, strlen(name) - 1) = 1

\* The entries of a cluster: those of the sector that was copied, and what was in
\* the memory where the others should be.
Lists ==
  {EntriesOf(disk, Copied) \o [i \in 1 .. (disk.spc - 1) * EntriesPerSector |-> e] : e \in HeapEntries}

FirstClusterOf(e) == e.high * 256 + e.low

\* Mutant: no room for the rest of the last cluster.
BufferExact(e) == e.size

BufferSize(e) == e.size + disk.spc * BytesPerSector

\* The program that exec() found is searched for again by load_executable(), with
\* the name in the entry.
Found(e) ==
  \/ /\ caller = "exec"
     /\ file' = e
     /\ find_file(filename(e), "load")
     /\ UNCHANGED <<argument, entry, space, buffer>>
  \/ /\ caller = "load"
     /\ entry' = e
     /\ cluster' = FirstClusterOf(e)
     /\ read_cluster(FirstClusterOf(e)) /\ pc' = "read"
     /\ space' = BufferSize(e) /\ buffer' = <<>>
     /\ UNCHANGED <<argument, name, caller, file>>

Find ==
  /\ At("find")
  /\ \E list \in Lists :
       LET found == {i \in DOMAIN list : Matches(list[i])}
       IN  IF found # {} THEN Found(list[Min(found)])
           ELSE /\ read_fat(cluster) /\ pc' = "find next"
                /\ UNCHANGED <<search, cluster, buffer>>
  /\ UNCHANGED <<disk, memory, result>>

\* Mutant: looks the same cluster up again.
FindNextSame ==
  /\ At("find next")
  /\ \E next \in NextWords(cluster) :
       \/ /\ ~IsEnd(next)
          /\ read_cluster(next) /\ pc' = "find"
          /\ UNCHANGED <<cluster, result>>
       \/ /\ IsEnd(next)
          /\ Return(IF caller = "exec" THEN "not found" ELSE "entry 0")
          /\ UNCHANGED cluster
  /\ UNCHANGED <<disk, memory, search, buffer>>

FindNext ==
  /\ At("find next")
  /\ \E next \in NextWords(cluster) :
       \/ /\ ~IsEnd(next)
          /\ cluster' = next
          /\ read_cluster(next) /\ pc' = "find"
          /\ UNCHANGED result
       \/ /\ IsEnd(next)
          /\ Return(IF caller = "exec" THEN "not found" ELSE "entry 0")
          /\ UNCHANGED cluster
  /\ UNCHANGED <<disk, memory, search, buffer>>

-----------------------------------------------------------------------------
\* read_file()

Unread == [kind |-> "other", cluster |-> 0, part |-> 0]

\* Mutant: address stays.
CopySame(b) == [k \in 1 .. disk.spc |-> IF k = 1 THEN Copied ELSE Unread]

\* read_cluster() at address, which goes on by a cluster for the next.
CopyNext(b) == b \o [k \in 1 .. disk.spc |-> IF k = 1 THEN Copied ELSE Unread]

Read ==
  /\ At("read")
  /\ buffer' = IF Len(buffer) < MaxSectors THEN CopyNext(buffer) ELSE buffer
  /\ read_fat(cluster) /\ pc' = "read next"
  /\ UNCHANGED <<disk, memory, search, cluster, result>>

elf_check(b) == b[1].cluster \in disk.elf

\* elf_check() follows the last cluster.
ReadNext ==
  /\ At("read next")
  /\ \E next \in NextWords(cluster) :
       \/ /\ ~IsEnd(next)
          /\ cluster' = next
          /\ read_cluster(next) /\ pc' = "read"
          /\ UNCHANGED result
       \/ /\ IsEnd(next)
          /\ Return(IF elf_check(buffer) THEN "loaded" ELSE "entry 0")
          /\ UNCHANGED cluster
  /\ UNCHANGED <<disk, memory, search, buffer>>

Step == ReadTable \/ ReadVolume \/ SetVolume \/ Find \/ FindNext \/ Read \/ ReadNext

FatNext == Step \/ (\E text \in Arguments : exec(text)) \/ Answer \/ Fail

-----------------------------------------------------------------------------
\* Properties

\* find_next_cluster() finds the entry of that cluster: it is in the first sector of the
\* FAT, and none of its reserved bits is set.
Plain(v, c) == c < WordsPerSector /\ FatEntry(v, c) < ClusterMask

Near(v, c) == \A k \in DOMAIN Chain(v, c) : Plain(v, Chain(v, c)[k])

\* The sectors of the chain from c, up to the one after its first clusters that
\* find_next_cluster() is right for, and no more if it is right for all.
ReadRight(v, c, sectors) ==
  LET chain == Chain(v, c)
  IN  /\ \A k \in DOMAIN chain :
           (\A j \in 1 .. k - 1 : Plain(v, chain[j])) =>
             k <= Len(sectors) /\ sectors[k] = ChainSectors(v, c)[k]
      /\ Near(v, c) => Len(sectors) = Len(chain)

\* elf.c:25 "read to buffer": when read_file() is done the buffer holds the sectors of
\* the file that was found, in the order of its chain: all of them if its clusters are
\* below 128, and otherwise those up to the first that is not.  Left out are a file
\* without clusters, for which what is read is not looked at, and one whose first
\* cluster needs the high word, which elf.c:26 shifts by 8 bits.
ReadsWholeFile ==
  pc = "idle" /\ entry # None /\ entry.high = 0 /\ entry.low # 0 /\ result \in {"loaded", "entry 0"} =>
    ReadRight(disk, entry.low, buffer)

\* The clusters that read_file() reads are those of the file.
Followed(e) == FirstCluster(e) = 0 \/ (e.high = 0 /\ Near(disk, e.low))

\* The first of these entries whose name, but for its last character, starts with
\* that, or None.
FirstMatch(entries, text) ==
  LET matching == {i \in DOMAIN entries :
                     IsPrefix(text, SubSeq(entries[i].name, 1, NameSize - 1))}
  IN  IF matching = {} THEN None ELSE entries[Min(matching)]

\* exec() finds the first entry of the whole root directory that starts with its
\* argument, says so if there is none, and load_executable(), which is given the name
\* in that entry and not the entry, finds the same one.
FindsFirst ==
  LET first == FirstMatch(RootEntries(disk), Text(argument))
  IN  /\ result = "not found" => first = None
      /\ result \in {"loaded", "entry 0"} => entry = file /\ file = first

\* read_file(), which is not told a size, writes no more than the buffer of
\* load_executable() holds, also for an empty file, whose first cluster is 0.  This is
\* so for the files that find_next_cluster() is right for; others may go on for ever.
BufferFits == Followed(entry) => Len(buffer) * BytesPerSector <= space

\* exec() comes to an end on a volume whose chains do, unless the drive fails or the
\* file is one that find_next_cluster() is not right for.
Terminates ==
  (pc \notin {"boot", "idle"}) ~> (pc = "idle" \/ drive.state = "failed" \/ ~Followed(entry))
=============================================================================
