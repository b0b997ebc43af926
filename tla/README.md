# TLA+ models of the JAOS64 kernel

JAOS64 is a small 64-bit kernel for one x86-64 CPU: a preemptive round-robin
scheduler, blocking locks, a text monitor, a keyboard, ten system calls through
`int $0x80`, a physical block allocator, paging, a heap, a FAT32 reader, an ELF
loader, a shell, and a boot loader of two stages. This directory models the parts
in which steps of several actors meet, or in which bookkeeping must survive long
sequences of calls, checks the models with TLC and proves theorems about them
with TLAPS.

## 1. Inventory

| component | state | operations | hard part |
|---|---|---|---|
| scheduler (`scheduler.c`) | `task_list`, `current_task`, `next_pid`, a status per task | `switch_task` (timer or `int $0x20`), `add_task`, `change_task_status` | runs inside interrupts; sets IF before the resumed task's `iretq` |
| blocking locks (`b_locking.c`, `spin_lock.asm`) | a queue of pids per lock, `master_lock` | `lock`, `unlock`, `get_lock_owner` | wait loop against wakeup; not counted; `kfree` under the spin lock |
| interrupts and system calls (`interrupt.asm`, `isr.c`, `syscall.c`) | handler and call tables, IF | entry, dispatch, return | who can be interrupted where |
| processes (`fork.c`, `exec.c`, `exit.c`, `main.c`) | tasks, address spaces | `fork_kernel`, `fork`, `exec`, `exit`, `sleep` | a child is listed before it can run |
| keyboard (`keyboard.c`) | `occupant`, `new_press`, `press_code`, a lock | `keyboard_handler`, `get_char`, `readline` | variables shared with an interrupt handler |
| monitor (`monitor.c`) | cursor, video memory, a lock | `putchar`, `puts`, `putint`, `puthex`, `scroll` | nested use of a lock that is not counted |
| physical memory (`memman.c`) | bit map, `_mem_used_blocks`, `_mem_max_blocks` | `memman_init`, `mem_alloc_block(s)`, `mem_free_block(s)` | partial words, overlapping regions |
| paging (`memman.c`) | page tables, `_kernel_next_block` | `alloc_page`, `alloc_kernel_page`, `clone_pml4t`, `clean_user_space` | who owns a frame after fork and exec |
| heap (`kheap.c`, `ordered_array.c`) | headers, footers, index of holes | `alloc`, `free`, `expand`, `contract` | unifying; prints in the middle of `free` |
| FAT32 and ELF (`fat32.c`, `elf.c`, `diskio.c`, `read_sectors.asm`) | partition, FAT, the drive | `fat32_init`, `find_file`, `read_file`, `load_executable` | chains, prefixes of names, buffers without a size, a drive that does not answer |
| boot loader (`boot/`) | where the FAT and the clusters begin, the search buffer | stage 1, stage 2, `searchFile`, `loadFile`, `loadelf` | numbers of 16, 28 and 32 bits; two copies of the same search |
| C library (`lib/`) | - | `strlen`, `strncmp`, `strncpy`, `memset`, ... | other conventions than in C elsewhere |
| shell (`user/shell.c`) | buffers for a line and two words | `readline`, `token`, EXIT, EXEC | buffers that are used again for every line |
| device setup (APIC, IO-APIC, ACPI, GDT, IDT, MSR) | - | - | runs once; see section 13 |

How they interact: programs enter the kernel by system calls; the timer and the
keyboard enter it whenever IF is set. The keyboard handler changes task statuses
and switches tasks. `readline` holds the keyboard lock and prints, so it uses the
monitor lock inside it. Both locks use the scheduler to block and wake tasks and
the heap for their queue entries, and the heap prints. The heap and paging take
blocks from the physical allocator. `exec` searches the disk, cleans the address
space and loads; the shell calls it. The boot loader reads the same disk with code
of its own. `PROJECT.json` lists every component and every hazard with
the line where it bites.

What makes each correct: one reader and one printer at a time; nobody who can run
is forgotten (no lost wakeup, no starvation, no exited task revived); the kernel
is not preempted where it holds the spin lock or has half made a task; the block
allocator never hands out what is in use or not memory; heap blocks and holes tile
the heap; a frame has one holder, and a task has the program it loaded; the file
that is named is found, read whole and fits its buffer.

## 2. Modules

| module | models | role |
|---|---|---|
| `Scheduler` | `scheduler.c` and IF | component |
| `BLocking` | `b_locking.c`, `spin_lock.asm` | component, extends `Scheduler` |
| `Kernel` | system calls, keyboard, monitor locking, processes, interrupts | composition of all of them |
| `KernelProps` | - | properties and the two inductive invariants |
| `FifoLock` | - | abstract specification of a lock |
| `KernelProofs` | - | theorems about `Kernel`, with the two invariants of `KernelProps` |
| `FrameMap` | the bit map of `memman.c` | component, with its properties |
| `FrameScan` | the loops over the bit map as written | extends `FrameMap` and is compared with it |
| `FrameMapProofs` | - | theorems about `FrameMap` and `FrameScan` |
| `Screen` | cursor, video memory, `putchar`, `scroll`, `clear_screen` of `monitor.c` | component, with its properties |
| `Paper` | - | abstract specification of the screen |
| `ScreenProofs` | - | theorems about `Screen` |
| `Itoa` | `itoa`, `itoa_s` of `monitor.c` as `putint` and `puthex` call them | algorithm, with its property |
| `ItoaProofs` | - | theorem about `Itoa` |
| `KHeap` | `kheap.c`, `ordered_array.c` | component, with its properties |
| `KHeapProofs` | - | theorems about `KHeap`, with the inductive invariant |
| `AddressSpace` | page tables of `memman.c` as `fork.c`, `exec.c` and `elf.c` use them, the TLB | component, with its properties |
| `AddressSpaceProofs` | - | theorems about `AddressSpace`, with the two inductive invariants |
| `CLib` | `lib/string.c`, `lib/stdlib.c` | operators, for `Fat32` and `Shell` |
| `Shell` | `user/shell.c`, the buffer of `readline` | component, with its properties |
| `ShellProofs` | - | theorems about `Shell` and the functions of `CLib` it calls |
| `Disk` | a FAT32 volume | what the two readers read, and the reference for them |
| `Fat32` | `fat32.c`, `diskio.c`, `read_sectors.asm`, `exec` and `load_executable` up to the buffer | component, with its properties |
| `Boot` | `stage1.asm`, `stage2.asm`, `diskio.asm`, `diskio64.asm`, `loadelf.asm` | component, with its properties |
| `Startup` | power-on to programs | composition of `Boot` and `Fat32` on one `Disk` |
| `StartupProofs` | - | theorems about `Boot` and `Fat32` on any volume that `Startup` admits |
| `Images` | - | volumes for TLC |
| `MCKernel`, `MCFrameMap`, `MCAddressSpace`, `MCShell`, `MCStartup` | - | instances for TLC |

A definition that starts with the comment "Mutant:" is a wrong variant of the one
after it; nothing uses it. `PROJECT.json` names, for every checked property, a
variant under which TLC finds the property violated.

## 3. The kernel: state and actions

There is one CPU, so only `current_task` executes, at its label `pc[current_task]`.

* `next_pid`, `status`, `current_task` are the variables of `scheduler.c`.
  `add_task` appends and nothing unlinks, so the list is `0 .. next_pid - 1`.
* `iflag` is RFLAGS.IF; `if_saved[t]` the flag that the `iretq` of a task that
  gave up the CPU will restore; `returning` says that the current task was just
  switched to and has not executed that `iretq`. In between IF is set
  (`scheduler.c:101`), so another tick can come. The tail of `isr_common` sets
  IF only in the shadow of `iretq`.
* `locks`, `master_lock` are those of `b_locking.c`; `lockid[t]` and `ret[t]` are
  argument and return label of the `lock()` or `unlock()` task t is in,
  `puts_ret[t]` the return label of its `puts()`.
* `occupant`, `new_press`, `press_code` are those of `keyboard.c`; `pos[t]` counts
  characters printed by `puts` or read by `readline`.

Behaviours start at the call of `fork_kernel` in `kernel_entry`. One action is
one stretch of code between two accesses to shared state that an interrupt may
separate: `SpinLock`, `Acquire`, `Check`, `Block`, `Release` for the locks,
`Puts`, `Putchar`, `Putint` for the monitor, `Readline`, `GetChar`, `GotChar`,
`ReadlineEnd` for the keyboard, `Fork`, `ForkAdd`, `ForkParent`, `Exec`,
`ExecDone`, `Exit`, `SleepCli`, `SysRet`, and `Yield` for `int $0x20` in kernel
code. `Tick`, `KeyPress` and `KeyBreak` are the interrupts, `Resume` the `iretq`
of a task that was switched to. A user program may make any system call at any
time (`UserStep`).

Data that no property tells apart is left out: text, register contents, the
scancode table (`Keys` has Enter and one other key). Several `puts` calls in a
row of one handler (a fault report, the message for an unknown vector) are one
`puts`: they run with IF clear.

Two constants switch parts of the environment on:

* `HeapPrints`: the `kfree` in `unlock()` may print while `master_lock` is held.
  It does when the freed queue entry is the last block of the heap, which depends
  on the heap's layout. A report made without `master_lock` takes and returns the
  monitor lock with no other task in between and has no step of its own.
* `UserFaults`: programs may fault; the handlers loop for ever with IF clear.

## 4. The block allocator: state and actions

`set_bits` is the set of bits of `_mem_memory_map` that are 1, `used_blocks` and
`max_blocks` are the counters, `owned` records what callers hold. `InitRegion` is
one turn of memman_init's loop over the memory map, `Reserve` its two loops that
take back the first megabyte and the kernel. `MemAllocBlock`, `MemAllocBlocks`,
`MemFreeBlock` and `MemFreeBlocks` are the four calls; one that returns 0 changes
nothing and is a stuttering step.

`FrameMap` describes the result of each loop (`FirstFree`, `FirstFreeZone`,
`RegionStop`), because that is what can be proved about. `FrameScan` has the loops
as they are written, with the jumps of `i` and `j`, as recursive functions, and
`LoopsMatch` says that both agree on every map that calls can make.

Assumed: regions of the BIOS map start at block boundaries, the kernel lies in
memory the map covers, and callers give back only what they hold. Of the last,
`clean_user_space` in a forked child is the hard case: its frames came from the
heap. `AddressSpace` shows that they are given back once and used by nobody else.

## 5. The screen and numbers: state and actions

`Screen` has the flat `video_memory` (characters only), `cursor_x` and `cursor_y`.
One `putchar` is one step: it runs under the monitor lock. `Backspace`, `Tab`,
`CarriageReturn`, `Newline` and `Printable` are its branches; each ends with `Finish`,
the wrap at the end of a row and `scroll`. A character none of the branches takes
is a stuttering step. `gone` records the rows that left the top, which the program
forgets, so that `Paper` can be stated: a roll of paper on which the same
characters are printed and which is fed, never scrolled. A backspace only moves
the cursor, in both.

`Itoa` has one action per loop or early return of `itoa`. Its initial states are the
calls `putint(arg)` and `puthex(arg)` for every `arg` a word can hold, -`Half` to
`Half` - 1 for one and 0 to 2 `Half` - 1 for the other (`Half` is 2^63 in the code);
`i *= -1` wraps. The `0x` of `puthex` is left out.

## 6. The heap: state and actions

`KHeap` has the memory of the heap byte by byte: `mem[a]` is the header or footer that is
read at address `a`, in the fields the two overlay. Both are `Rec` bytes long (16), and
writing one tears those that begin in the `Rec - 1` bytes before and behind it
(`WriteAt`). Requests are of any number of bytes, as `fork.c:14` (49) and `elf.c:23` (the size
of a file) make them. The array `index` is sorted on insertion only; `end_address` is the
end of the heap. `Kmalloc` is a request, `Expand` one expansion for it (there may be
several) and `Place` the rest of `alloc`: a hole in front of an aligned block, the block,
the hole behind it. `Offset` and `FrontSize` are the two computations of that hole in
front, by `find_smallest_hole` and by `alloc`, which are not the same. `Free` is `free` up to
the call of `contract`; what it finds behind the end of the heap, where pages may still be
mapped, is anything (`seen`). Where the freed block ends the heap, the call is suspended in
`frames`: `contract` prints, and every character it prints allocates and frees a queue entry
of the monitor lock (`ReportLock`, `ReportUnlock`), possibly from the holes beside the block
and possibly contracting again, before `Contract` does the rest.

The code damages its own heap under nine conditions, and a behaviour ends where the
first is met; `defect` has its name:

* `gap`: expansion with the last block in use;
* `tiny`: a piece shorter than a header and a footer, which then overlap;
* `before`: an aligned request for a hole whose header is in the last 15 bytes of a page.
  `kheap.c:178-179` take the next page, `kheap.c:312-316` the one the header is in, so that the
  block is put before the hole, over the footer of its neighbour;
* `stale`: unify left follows a footer that was not rewritten;
* `fault`: looking for a header behind the last mapped page;
* `lost`: unify right with a header that is not in the index;
* `recursion`: deeper than `MaxDepth`, the model's own bound;
* `twice`: `old_length` stale after a report;
* `vanished`: a hole contracted to nothing.

The properties say that up to there, and by any other way, nothing is damaged. They do
not say that the nine conditions are not met: they are, and section 14 lists them.

Assumed: what callers store never looks like `HEAP_MAGIC`, blocks are freed once, and
there is memory for the pages the heap asks for.

## 7. Address spaces: state and actions

A node of a space is named by its path of table indices; `space[t]` gives the
frame of each that is present. `AllocFrame`, `MakeTable`, `SetPage` are `alloc_page` with
`create_page_for_current`; `ForkKernel`, `CloneStart`, `CloneSkip`, `CloneNext`, `CloneDone` are
`fork_kernel`, `fork` and `clone_pml4t`, whose loops go through all entries in order
(`Nodes`) and pass over those that are not present; `Exec` and `CopySegment` are `exec` with
`clean_user_space` and the loop of `load_executable`; `SwitchTask` loads CR3. `Touch` and
`Forget` are the CPU: it may keep the translation of a page that was used until CR3
is loaded, and may drop it at any time. The loader and `mem_copy_block` read and
write through it.

Frames are free, spare pages of the heap, in a node, or in the hands of a call;
`lost` has those whose entry `alloc_page` overwrote, which the code forgets. `content`
tells for each byte of a frame what was last written to it. Each call runs to its end before the next:
system calls run with IF clear, and the kernel's own at boot are alone.

A program is a sequence of segments with `p_vaddr`, `p_filesz` and `p_memsz`, anywhere in
their pages. `MappedPages` are the pages that `elf.c:38` asks for, `p_memsz / 4096 + 1` of
them from the one of `p_vaddr` on. That is one too few where a segment begins late in its
page and crosses into one more, and one too many where it fills its last page exactly. A
page that was present gets a new frame all the same (`lost` keeps the old one), so a page
of two segments loses the bytes of the first. Where `memcpy` comes to a page without a
translation it faults (`Reached`). What lies between `p_filesz` and `p_memsz` is not
cleared, and not always mapped; `LoadedImage` is about the bytes that were copied.

A behaviour ends at the first `halt`: `fault` (memory ran out under `fork`, or the loader
came to a page that it had not asked for), `table`
(memory ran out for a table and frame 0 became one), `garbage` (a frame with old
contents became a table), `entry` (`exec` entered user mode at 0), `stale` (the loader
copied through a translation of the program before). Each is reached in run
`paging_safety`.

Assumed: `Layout` has each node once and the tables above it; the pages a program asks
for or copies to are pages of it and not the stacks' (`LoadPages`): `user/Makefile` links programs at the
default address, far below the stacks, and `load_executable` does not check.

Left out: kernel space, which every address space links to; access bits; headers of
other types than PT_LOAD, which `load_executable` passes over. `alloc_kernel_page` is the growth of the heap.

## 8. Strings and the shell

`CLib` describes the library's functions by their results: `strlen` counts the
terminator, `strncmp` returns 1 for equal. `Shell` is `main_loop`: `Readline` writes a line
into a buffer that holds earlier ones, `Parse` takes the first two words by `token`
(`Turn` is one turn of its loop), and `Act` is EXIT, EXEC or nothing. The buffers
start with anything in them, all three with the same. A key without a character (scancode
90 and above, such as the menu key) puts a NUL into the line (`keyboard.c:44-49, 73`), at which
`strlen` and `token` stop: the shell sees the line up to there (`Seen`), and what is typed
behind it is lost. The properties are about what is seen. One line is one step: `readline` as a process is in `Kernel`.

## 9. Disk, boot loader and FAT32

A volume (`Disk`) is a record of the geometry, the FAT and the entries of
directories; what a sector of a file holds is told by its place, so a file was read
right exactly if the sectors are those of its chain, in order.

`Boot` has one action per search or cluster loaded of each stage. The BIOS reads all
sectors that stage 1 asks for; the driver of stage 2 copies one. The disk answers.
Each stage has room for so many sectors behind its buffer: `Stage2Room` (56) to where the
offset of 16 bits of stage 1 wraps and the carry goes into the segment
(`stage1.asm:146-149`), `KernelRoom` to the end of low memory. A longer file ends in `stage
= "overrun"`. The `hlt` behind the message of stage 1 is left at the next interrupt, and
what follows it is data (`done`, `stage = "wild 1"`).

`Fat32` goes from one sector read to the command for the next, so that the drive
(`Answer`, `Fail`) is a process of its own: polling lasts until it answers. `exec` searches
(`Find`, `FindNext`), `load_executable` searches again with the name in the entry that
was found, and reads (`Read`, `ReadNext`). Memory that was not written has any of
`HeapEntries` or `HeapWords`. The disk is not shared: `exec` runs with IF clear, or
during boot before the second task exists.

`Startup` puts the two on one disk: the kernel's steps begin when the boot loader
has jumped to it.

Which volumes (`StartupAssumption`). The theorems are about all of these, TLC goes
through those of `Images`:

* `WellFormed`: clusters of one sector, as `bin/Makefile` makes the image
  (`mkdosfs -F 32 -s 1`); a root directory whose chain ends and stays within the FAT
  (`Sound`); the mark of the first entry of the FAT, which ends the chain of an empty
  file; addresses for which the 16-bit sum of `stage1.asm:73` has no carry.
* `Bootable`: what is named STAGE2 or KERNEL has such a chain too.
* `Near`: the root directory is in clusters that `find_next_cluster` is right for, those of
  the first sector of the FAT (below 128). `mkdosfs` puts it into cluster 2 of an image with
  nothing else in it; one that grows late may leave this range, and what `find_file` then
  reads is left out.
* `Readable`: a file that `exec` is asked for has a chain that ends and is no longer than the
  size in the entry says. It may lie anywhere, like the files of the boot loader, with
  reserved bits in its entries.

Behind cluster 127 `find_next_cluster` looks into another entry, or behind its buffer, and
what `read_file` reads from there on is anything (`HeapWords`). `ReadsWholeFile` says what the
buffer holds nevertheless: the sectors up to and including the first such cluster, and the
whole file if it has none. `BufferFits` and `Terminates` are about files without one
(`Followed`): others may be read for ever, over whatever is behind the buffer.

Section 14 says what the code does on other volumes.

## 10. Runs

| run | instance | shows |
|---|---|---|
| `kernel_safety` | 3 programs and the kernel task, lines of 1 character | all kernel invariants of section 11, `ExitIsFinal`, no deadlock |
| `kernel_faults` | the same, lines of 2, with faults and reports under `master_lock` | both lock queues implement `FifoLock` |
| `kernel_liveness` | 2 programs and the kernel task | `RunnableRuns`, `HeadBecomesReader`, `KeyConsumed` under `FairSpec` |
| `self_deadlock` | violation | `unlock()` can spin on its own `master_lock` |
| `frame_safety` | 144 memory maps of two regions, words of 3 bits | counter, ownership and loss of blocks; loops and descriptions agree |
| `screen` | 2 rows of 3 columns, tab stops of 2, until 2 rows have scrolled off | cursor on the screen, refinement of `Paper` |
| `itoa` | all integers of 8 bits | what is printed reads back as the argument |
| `heap_safety` | headers of 2 bytes, pages of 8, heap of 2 to 5 pages, four calls of `kmalloc` of 3 or 9 bytes, reports of one character, two nested | `Tiling`, `BlocksIntact`, `EntrySurvives` |
| `heap_footer` | violation | the footer of a hole unified on the right is not rewritten |
| `paging_safety` | 28 frames of 4 bytes, 3 address spaces, 4 programs, 4 calls of `exec` | `OneHolder`, `LoadedImage`, `StacksKept` |
| `shell` | lines of up to 3 keys: two letters, the space and a key without a character | `LineTerminated`, `WordsOfThisLine`, `ActsOnCommand` |
| `startup` | 34 volumes, names of 3 characters, 8 arguments of `exec`, in any order, room for 3 sectors | both boot stages and every `exec` after them |

Bounds. `MaxTasks` bounds forks: with three programs one can read, a second wait
for the keyboard and a third arrive, fork or exit, which is what the queues need;
the proofs cover any number. `LineMax` bounds a line (79 in `readline`) and the
characters of one `puts`: 1 gives an empty and a full line, 2 also one in between.
The safety run has no deadlock by itself; the faults run may stop, as the code
does. For the allocator, words of 3 bits and up to 10 blocks give full words, a
partial last word, zones across words, and regions that are apart, adjacent,
overlapping or nested; the kernel (block 2) and low memory (block 0) leave blocks
between them. On the screen a tab can stay in its row or leave it, and after
two rows have scrolled off nothing of the first screen is left; the theorems cover
every size. Integers of 8 bits have the same smallest number, zero and digits 0 to
15 as those of 64. No symmetry is used: pids are ordered.

In the heap a page of 8 bytes has room for a block with its header and footer of 2 bytes
each and for a hole. Requests are odd, so that headers come to lie at every place of a
page, the last byte included, and records overlap by a byte; they are smaller than a page
and larger, aligned or not. Four calls meet all nine conditions. Of the programs of
`paging_safety`, in pages of 4 bytes, one asks for a page that it does not copy to, one has
two segments that share a page, one begins so late in its page that it gets a page too
few, and one uses two page tables, asks for a page twice and has a page that
`clean_user_space` keeps; four calls let each of two tasks load programs of different size
in turn, and memory runs out in every call that takes it. Lines of three keys have two
words, words that are the command or go on after it, and a key without a character before,
in and behind each. The 24 layouts among the volumes are all orders of four clusters, so
that chains go back and forth; in others the root directory has two clusters, files are
empty, missing, or a directory, a program goes on behind cluster 127, and STAGE2 or KERNEL
fills its room or is longer. Where a run says
CHECK_DEADLOCK FALSE the system stops: bounds of calls are used up, the shell has
exited, the number is printed, the loader has halted or the drive has failed.

Fairness (`Kernel!Fairness`). `SF` of `Tick`: the APIC timer is periodic and its
interrupt stays pending while IF is clear. `SF` of `KernelStep(t)` and `Resume(t)`:
a time slice is far longer than any stretch of kernel code, so a task that gets
the CPU again and again gets on. Nothing is assumed of programs and keys: a
program may never leave the keyboard, so `HeadBecomesReader` starts when the task
is the head of the queue, and `KeyConsumed` when a key was pressed.

Fairness (`Startup!Fairness`). `WF` of the steps of the boot loader and of the kernel:
there is one thread and nothing else to run. `WF` of `Answer`: a drive that has not
failed answers; `Terminates` allows for one that fails. That somebody calls `exec` is not
assumed.

## 11. Properties

* `ReaderOwnsKeyboard`: the task in `readline` heads the keyboard queue, and
  `occupant` names it.
* `ReaderAwakeIffKey`: the reader that slept in `get_char` is runnable exactly
  when a key is there; it does not look again.
* `HeadNotAsleep`: no lost wakeup between the check and the block in `lock()`.
* `IdleRunnable`: `switch_task`'s loop always ends.
* `SpinNeverContended`: `spin_lock` is never met taken; violated with
  `HeapPrints`, see `self_deadlock`.
* `NoLockLeak`, `NoHalfMadeTask`, `OnePrinter`, `ExitIsFinal`: as named; each
  comment in `KernelProps` says of which code.
* `WakeupInv`: the inductive invariant of section 12, with all its parts.
* `KeyboardFifo`, `MonitorFifo`: refinement of `FifoLock`, the queue being the
  abstract queue: entries join at the end, and only the running task at the head
  leaves.
* `CountMatchesMap`, `OwnedBlocksSafe`, `NothingLost`, `LoopsMatch` for the
  allocator, and `FrameInv`, from which the first three follow.
* `CursorOnScreen`: `putchar` computes the cell it writes without a check.
* `ScreenIsPaper`: refinement of `Paper`, with the rows that scrolled off put back
  above the screen.
* `PrintsArgument`: the smallest number included.
* `Tiling`: blocks in use, holes of the index and holes of unfinished calls of `free`
  cover the heap, which keeps its smallest size, without overlap.
* `BlocksIntact`: `free` will find header and footer as `alloc` wrote them.
* `EntrySurvives`: the entry point that `load_executable` reads from a freed buffer is
  still there, unless the heap now ends so close behind it that the footer of the hole
  covers it, or a nested `free` has contracted the heap before (`twice`).
* `HoleFooterPointsBack`: violated, see `heap_footer`.
* `OneHolder`: a frame is free, spare, mapped once or lost, and only one of these.
* `LoadedImage`: every task has the bytes of its program that were copied, behind complete
  tables, whatever the others fork and load. Two things are taken out, and named in it:
  bytes that a later segment of the same file took away (`Kept`), and programs loaded
  through a stale translation.
* `StacksKept`: `exec` runs on a stack of the space it cleans.
* `LineTerminated`, `WordsOfThisLine`, `ActsOnCommand`: no line runs out of its buffer,
  nothing of an earlier line shows, and only whole commands act, in what the shell sees
  of a line.
* `HaltsWithoutFile`, `LoadsWhole`, `BootEnds`: the boot loader finds its files wherever
  they are, hands over only to files that it has loaded whole, and comes to an end.
* `FindsFirst`: both searches of an `exec` end at the first entry that starts with the
  argument. `ReadsWholeFile`, `BufferFits`: what is read for it. `Terminates`: `exec` ends
  unless the drive fails or the file goes on behind cluster 127.

## 12. Proofs

All theorems hold for every value of the constants under the named assumptions, which
stand in the modules that declare the constants: `MaxTasks >= 2`, `LineMax >= 1` and
booleans for the kernel; `WordSize >= 1`, `LowBlocks >= 1`, memory maps that are lists of
regions; `Cols, Rows, TabStop >= 1`; `Half >= 1`; letters that are none of the separators
and not NUL, which keys may give nevertheless, and command words of letters that fit a
line; the others below.

**Kernel.** The properties are not inductive, because nothing in `lock()` or
`puts()` keeps an interrupt out: that they are not preempted follows from how
their callers got there. `KernelInv` says so:

* `Masked` and `Parked`: once there are three tasks, code that runs with IF set is
  at a label of `Open`, where it holds nothing; a task that does not execute is at
  such a label, or waits in `lock()` or `get_char()` and will continue with IF
  clear. Until then pid 1 alone uses locks, with IF set during `kernel_entry`'s
  `exec`; `KernelTask` keeps the kernel task out.
* `ForkMasked`, `Unborn`: between `add_task` and the parent's `sti` the parent
  executes with IF clear, and the new task is the only one without an entry point.
* `MasterHeld`: `master_lock` is 1 only while a task is inside its critical
  section; such a task executes, so who executes elsewhere finds it 0.
* `Frames`: what `lockid`, `ret` and `puts_ret` can be at each label.
* `MonitorQueue`: the queue of the monitor lock has at most one entry, of a task
  that prints, and nobody waits there. This is why giving the lock up early in
  the first `putchar` does no harm.
* `KeyboardQueue`: the task in `readline`, also on its way through the last
  `unlock()`, heads the keyboard queue.

`KernelProofs` has four parts: type correctness action by action; frames, preemption
and the monitor queue; the keyboard queue and with it the invariant; and who sleeps.
From the invariant follow `ReaderExclusive`, `PrinterExclusive`, `ChildIsComplete` and
`SpinLockFree` (the last for `HeapPrints = FALSE`).

In the last part, whether a wakeup is lost depends on statuses, which
`KernelInv` does not mention; `WakeupInv` adds `Wakeups`:

* `KeyboardMembers`, `OccupantReads`: everyone in the keyboard's queue reads or waits to
  read and is in it once, and `occupant` is in `readline`. So a key press and an
  `unlock()` can only wake one of these, never a zombie or a task that sleeps elsewhere.
* `ZombiesExit`, `RunningFree`: who has a status other than runnable is at a label where
  it gave up the CPU or is about to, and zombies are past `exit()`.
* `SleepsWithoutKey`: what the task in `get_char()` decided with IF clear still holds when
  it is switched away from.
* `BlocksInTurn`: between its check and its block in `lock()` a task does not become the
  head, because it is not preempted there (`Masked`).
* `WokenOrHung`: `unlock()` wakes the next owner in the same critical section, unless
  `kfree` hangs it. `HeadWoken` is therefore for `HeapPrints = FALSE`; the others hold
  with and without.

From it follow `ReaderWoken`, `HeadWoken`, `IdleNeverBlocked`, `LocksReturned` (the queues
only have tasks at labels inside `lock()`, `readline` or `puts`), and the action property
`ZombiesStayDead`. `KeyboardServesInOrder` and `MonitorServesInOrder` are the refinements
of `FifoLock`: `QueueStep` says what `Acquire` and `Release` do to the queue of one lock, and
a release is a step of the abstract lock because the invariant puts the task that
releases at the head; every other action leaves the queue alone.

**Allocator.** `FrameInv` adds to the properties that every clear bit is available
memory and that reserved blocks are set once `memman_init` is done; so whatever the
searches find may be handed out. `CountClears` and `CountSets` carry the counter
through every change of the map with the library's theorems on cardinality.
`MemoryKept` needs more of `memman_init`: with disjoint regions, the bits that are clear
are exactly the available blocks of the regions gone through (`Cleared`), so that at the
end none is missing. `ScanLoopsMatch` says that the loops of `memman.c`, which leave a full
word at once and jump behind a set bit, return what `FrameMap` describes: what a loop
returns from bit b on is the least free bit, or start of a free zone, from b on
(`FreeTurns`, `ZoneTurns`), and between b and the place it jumps to there is none.

**Screen.** `CursorOnScreen` with the type invariant is inductive
(`Cols, Rows, TabStop >= 1`). All branches of `putchar` end in `Finish`, so one lemma
(`FinishMoves`) carries both theorems: what `scroll` leaves is the text it was given,
with a blank line appended if the cursor had left the screen (`ScrollFeeds`, from
the arithmetic of cells in `CellIndex`), and writing a cell changes one character of
one line (`WriteLine`, from `CellUnique`). `ScreenImplementsPaper` is the refinement.

**Numbers.** `itoa` divides until nothing is left and turns the digits round. `ItoaInv`
keeps the trail of what was left after each digit (`Trail`): from its end it is the
sequence of partial values that reading the printed digits back goes through.
Its start is the magnitude of the argument, also for the smallest number, whose
negation wraps to itself but is passed on as unsigned.

**Heap** (`KHeapProofs`, from `HeapAssumption`: records of any length `Rec`,
whole pages of at least three records; requests of any number of bytes, any length of the report, any depth). `Tiling` is not
inductive: `free` trusts what it reads beside a block, and a suspended
`free` trusts what it had read before. `HeapInv` says that until the first defect the
heap is `Sound`:

* `Tiles`: the pieces cover the heap in order and none is shorter than two records.
  `Retile` replaces some neighbouring pieces by others, at the end of the heap also of
  another length; every operation is an instance of it.
* `Marked`: a block has the header and the footer that `alloc` wrote. The footer of a hole
  may be stale, because unifying to the right does not rewrite it, but it names a place
  inside the same hole that is marked as a hole. So unify left either finds the hole
  before the block or is the defect `stale`; it never misses it (`LeftIs`). The first
  hole of the heap has no footer and cannot have a neighbour (`Fresh`). That records tear
  what overlaps them does no harm: none is written less than `Rec` bytes from one that
  is still needed (`Beside`, `Written`).
* `Apart`: two holes are never side by side, so that after unifying with at most one on
  each side none is left.
* `Suspended`: the calls of `free` that wait in `contract` are all about one hole, and one
  at most will insert it. That hole ends the heap (`Resting`); or it does not only
  because the queue entry of the monitor's lock was just taken from it (`Inside`), or
  there was no other hole, the heap grew behind it (`Grown`) and the entry was taken
  there (`Behind`). In the last cases the entry's release restores `Resting` with one
  more call suspended (`Meets`).

The lemmas `ContractSound`, `ExpandNew`, `ExpandOld`, `PlacedSound`, `FreedSound` have one
operation each; `PlaceFacts` and `FreeFacts` first describe what the writes to memory
amount to. `BlocksAndHolesTile` and `BlocksStayIntact` follow.

`EntryPointSurvives` needs a second invariant, `EntryInv`, about the outermost `free`, the one
of `load_executable`. The entry point could be lost to a queue entry placed over it or to
the footer that a contraction writes.

* `Spare`: a queue entry fits into a hole before the one being freed. Then every
  character of the report finds it again, and neither expands the heap nor writes
  into the buffer. Without it the first entry is taken from the freed hole or behind it,
  its release suspends one more call, which reports too; such calls only nest deeper
  and none comes to its end (last conjunct of `Reports`).
* `There`: what the buffer holds there is as it was and the heap no shorter than `free` noted; or `Shorter`: an
  inner call has contracted it, and then the outermost ends with the condition `twice`.
* `Unified`: the buffer is the freed hole or lies behind the header of one before it, so
  that no header is written over the entry point.

The exception for `twice` is what is left: an inner contraction may have written its
footer over the entry point.

**Address spaces** (`AddressSpaceProofs`, from `AddressAssumption`, any number of frames,
tasks, programs and calls). `SpaceInv` has `OneHolder` in two halves, no frame in two places
(`LooseApart`, `Exclusive`) and every frame in some place (`Total`). To be inductive it needs
what each call in progress still has to do (`Jobs`: a clone in progress has a prefix of
the nodes of the current space, a load is of a program and of one of its segments)
and that every task but the first has its stacks (`StacksMapped`), without which
`alloc_page` could overwrite them. From it `FramesHaveOneHolder` and the action property
`StacksNeverMove`. `ImageInv` adds, until `halt = "stale"`, what pages hold: tables above
every node (`Tabled`), no wrong translation in the TLB of a page with bytes of the program
(`Coherent`), a clone equal to its original so far (`Copied`), and for the current load the
bytes of the segments copied so far, but for those that a segment after them has taken
away (`Staying`, `PartLoaded`, `Loaded`). From it `ProgramsStayLoaded`. The page of every byte
that was copied is present, because `memcpy` would have faulted.

**Shell.** `ShellInv` says that the buffer holds the keys of the line, its newline and a
terminator, and behind them anything; what the scans below see ends at the first NUL
(`Seen`). `ScanHeld` carries through the turns of `token` where it is:
between words, inside the word it was asked for, or behind it (`Between`, `Inside`, `Open`,
`Closed`), in terms of how many words of the line have begun (`Count`). `TokenHeld` makes
of this that the word returned is that of the line and what it leaves in the buffer is
terminated, and `CompareStored` that `strncmp` with the length of the command accepts
nothing but the command.

**Startup.** `StartupInv` has two halves on one disk that nobody writes.

* `BootInv`: a stage has gone through the first clusters of the root directory and the
  file was in none of them (`Searching`), or has loaded the first sectors of the chain of
  the first entry with that name (`Loading`).
* `FatInv`: the same for `exec` (`Finding`, `Reading`), with the drive between the command and
  the copy. The second search, with the name from the entry of the first, ends at the
  same entry: what fits that name also fits the argument, and the entry was the first
  that does (`NameAgain`). Reading is on the chain of the file (`ReadingChain`), of an empty
  file (`ReadingNone`), or past the first cluster whose entry was looked for in the wrong
  place, with the sectors up to it in the buffer (`Astray`).

Underneath are facts about the reference: `ChainLinked` (each cluster of a chain is the
successor of the one before), `FlattenBlocks` (the root directory is its sectors one after
the other), and `FatWord`, `NextWordsAre` (the arithmetic of either reader finds the FAT entry of a
cluster).

Chains, scans and loops are recursive functions. What they compute for every argument is
proved without an induction rule: take the least argument at which the claim fails
(`LeastIn`) and look at one unfolding.

All inductive invariants were model-checked on the instances of the runs before they were
proved; the runs check what follows from them.

Only model-checked are the liveness properties `RunnableRuns`, `HeadBecomesReader`, `KeyConsumed`,
`BootEnds` and `Terminates`: fairness and ENABLED are beyond the prover. Every other property
of a passing run follows from a theorem.

## 13. Not modelled

GDT, IDT, APIC, IO-APIC, ACPI, MSR and port I/O are hardware setup that runs once,
before `Kernel` starts, and has no state afterwards; `start_ap` is never called, so
there is one CPU. Of the boot loader, the switch to long mode, its page tables and
the memory map of the BIOS are straight-line code without alternatives; what the
BIOS or the drive of stage 2 does when a read fails has no path in the code (nobody
looks at the carry). Attribute bytes of the monitor, which character a scancode stands for, registers
and the printing functions (`put_dir`, `debug_elf_header`, `print_index`) hold nothing a
property is about. `brute_create_page` maps the device registers during boot, in kernel space;
`create_ordered_array`, `strcmp` and `invalidate` are never called. The programs `hello`, `loop`, `ping` and `fork` are sequences of system
calls and covered by `UserStep`.

## 14. Where the code and its comments differ

Two have a run (`self_deadlock`, `heap_footer`). The others were met while modelling;
the models follow the code, or leave the case out where this list says so.

Tasks and memory
* `keyboard.c:48` keys without a character give 0, which `readline` takes for a character:
  programs see the line up to there.
* `exit.c:9` "it will be removed during maintenance": nothing unlinks a task.
* `memman.c:348` the test "helps when trying to initiate same region (or overlapping
  region)", but `align++` is inside it: the part of a region after an overlap stays
  marked as used. `NothingLost` is about disjoint regions.
* `memman.c:274` counts blocks of the last, partial word as usable; the searches go
  through full words only (line 59).
* `memman.c:517` entries are cleared without flushing the TLB (`halt = "stale"`).
* `memman.c:513` "preserves last 2 blocks for stacks": keeps the last two pages of every
  table, the last table of every directory and the third gigabyte; `alloc_page` then
  forgets their frames (`lost`).
* `elf.c:38` asks for `p_memsz / 4096 + 1` pages from an unaligned `p_vaddr`: maybe one too few
  (a page fault in the loader), maybe one too many, and a page that two segments share
  loses what the first has put there (`Kept`).
* `memman.c:428` a block becomes a table without being cleared (`halt = "garbage"`).
* `exec.c:16` and `main.c:65`: after a failed load `exec` does not return but enters user
  mode at 0 (`halt = "entry"`).

Heap
* `kheap.c:310` "If we need to page-align the data, do it now": for a header in the last 15
  bytes of a page the block goes to where it would have been a page earlier, before the
  hole, and the size of the hole in front wraps (`before`); `kheap.c:178` had computed the
  right place. Requests of 49 bytes (`fork.c:14`) bring headers there.
* `kheap.c:342` "only if the new hole would have positive size": a rest, or a hole in front,
  shorter than a header and a footer is written all the same (`tiny`).
* `kheap.c:287` "The last header needs adjusting": the endmost hole grows although blocks
  lie behind it (`gap`).
* `kheap.c:437` "Remove us from the index" looks for another header, and the hole is
  inserted afterwards (`vanished`).
* `kheap.c:425` "Check how big we will be after resizing": `old_length` was noted before the
  report, and a `free` inside the report may have contracted the heap since (`twice`).
* `kheap.c:167` "Find the smallest hole": the index is not sorted again when holes change.

Files
* `include/stdlib.h:28` `strlen` is to count the significant characters; it counts the
  terminator. Its callers know.
* `fat32.c:139` sector and word of a FAT entry are computed from different units: wrong
  from cluster 128 on. What is read of a file that goes on there is in `Fat32`; the root
  directory of the volumes does not. `elf.c:26` multiplies the high word by 0x100, so that a
  file whose first cluster is above 65535 is read from elsewhere; the model does so, and
  `ReadsWholeFile` is about the others.
* `read_sectors.asm:76` and stage 2 copy one sector whatever the count; volumes have
  clusters of one sector.
* `elf.c:23` a directory is found like a file, has size 0 and may be longer than the
  buffer; the directory on the volumes has one cluster.
* `read_sectors.asm:63` "do a Software Reset": polling has no end and no error.

Boot loader
* `diskio64.asm:66` the search of stage 2 never goes on to the second cluster of the root
  directory, and its `ret` takes a pushed cluster for the return address (`stage =
  "wild"`). `HaltsWithoutFile` says which kernels are not found.
* `config.asm:4` "64k is biggest possible cluster"; the size is kept in 16 bits, where 64k
  is 0 (`stage1.asm:60`).
* `loadelf.asm:33` "0x30 is probably the program header entry size": it is 0x38, and only
  the first header is read right. The kernel of the model has one.
* `diskio64.asm:26` `mul` clears the sector count in `dl` for all clusters but the first.
* `stage1.asm:154` "we loaded our file completely": from 56 sectors on the buffer's offset
  has wrapped and the carry is in its segment (`stage = "overrun"`).
* `stage1.asm:189` `hlt` with interrupts enabled is left at the next one, and what follows
  it is data (`stage = "wild 1"`).
* `stage1.asm:73` a 16-bit addition loses its carry near multiples of 65536.

## 15. Plan

What is left:

* liveness proofs, for a prover that handles fairness;
* `exec` after a failed load (`halt = "entry"`) is described in section 14 and has no
  property: what runs at address 0 is outside the models;
* volumes with larger clusters, once `read_sectors.asm` copies more than one sector;
* attributes and flags of ELF headers, which `elf.c` does not look at today.
