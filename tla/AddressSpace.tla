----------------------------- MODULE AddressSpace -----------------------------
(***************************************************************************)
(* Page tables and frames: alloc_page(), clone_pml4t() and                 *)
(* clean_user_space() of kernel/memman.c as fork_kernel(), fork(), exec()  *)
(* and load_executable() use them.                                         *)
(*                                                                         *)
(* A node of an address space is named by its path: <<>> is the pml4, <<0>>*)
(* the pdp, <<0, i>> a page directory, <<0, i, z>> a page table and        *)
(* <<0, i, z, y>> a page.  space[t] gives the frame of every node that is  *)
(* present; only user space, i < 3, is looked at, since pdp[3] is linked.  *)
(* A frame's content tells for each byte who wrote it last.                *)
(*                                                                         *)
(* clone_pml4t() takes frames from the heap.  The heap never touches these *)
(* pages again, and exec() in the child gives them to the block allocator: *)
(* from then on they are the allocator's.                                  *)
(*                                                                         *)
(* The calls run one after the other.  Where the machine stops or runs on  *)
(* tables that are not tables, `halt' says why and the behaviour ends.     *)
(***************************************************************************)
EXTENDS Integers, Sequences, FiniteSets, FiniteSetsExt, SequencesExt, Functions

CONSTANTS
  Frames,        \* the frames that are free when the kernel has booted
  SparePages,    \* those of them the heap has mapped already
  Layout,        \* the paths of user space, each after its prefixes
  Unit,          \* bytes of a page and of a frame (4096)
  Programs,      \* files, each the sequence of its segments to load
  MaxTasks,      \* bound on address spaces
  MaxExecs       \* bound on calls of exec()

\* The pages of the stacks: 0xbffff000, and 0xbfffe000 for system calls.
Stacks == <<<<0, 2, 511, 511>>, <<0, 2, 511, 510>>>>

IsPage(n) == Len(n) = 4
Zero == [o \in 0 .. Unit - 1 |-> <<>>]
NoProgram == <<>>
Idle == [kind |-> "idle", todo |-> <<>>]
Empty == [n \in {} |-> 0]

\* What clone_pml4t() makes or looks at, in the order of its loops.
Nodes == <<<<>>, <<0>>>> \o Layout

\* The path of page number p, and of the page of address a.
Path(p) == <<0, p \div 262144, (p \div 512) % 512, p % 512>>
PageOf(a) == Path(a \div Unit)

\* A segment as its program header gives it.
Segments == [vaddr : Nat, filesz : Nat, memsz : Nat]

\* The pages that load_executable() asks for: as many as p_memsz needs when p_vaddr
\* is the start of a page, and one more.
MappedPages(s) == [i \in 1 .. s.memsz \div Unit + 1 |-> PageOf(s.vaddr + (i - 1) * Unit)]

\* The addresses that it copies to.
Bytes(s) == s.vaddr .. s.vaddr + s.filesz - 1

\* Programs are linked below the stacks, at the default address of ld
\* (user/Makefile gives none).
LoadPages == {n \in Range(Layout) : IsPage(n)} \ Range(Stacks)

ASSUME AddressAssumption ==
  /\ Frames \subseteq Nat \ {0} /\ SparePages \subseteq Frames
  /\ Layout \in Seq({n \in Seq(Nat) : Len(n) \in 2 .. 4})
  /\ IsInjective(Nodes)
  /\ \A n \in Range(Nodes) : \A k \in 0 .. Len(n) : SubSeq(n, 1, k) \in Range(Nodes)
  /\ Range(Stacks) \subseteq Range(Layout)
  /\ Unit \in Nat \ {0}
  /\ Programs \subseteq Seq(Segments) \ {<<>>}
  /\ \A file \in Programs : \A s \in DOMAIN file :
       /\ Range(MappedPages(file[s])) \subseteq LoadPages
       /\ \A a \in Bytes(file[s]) : PageOf(a) \in LoadPages

VARIABLES
  free,          \* frames of the block allocator
  spare,         \* frames of heap pages nobody uses
  space,         \* space[t]: path -> frame
  current,       \* whose tables CR3 holds
  tlb,           \* page -> frame, what the CPU remembers
  content,       \* frame -> what was last written there
  program,       \* program[t]: what exec() has loaded
  job,           \* the call in progress and what it still has to do
  loading,       \* exec(): the file, and how many of its segments are loaded
  held,          \* phys_frame of alloc_page(), 0 if none
  clone,         \* the address space clone_pml4t() builds
  execs,         \* calls of exec() so far, up to MaxExecs
  lost,          \* frames whose page entry was overwritten
  halt           \* why the machine stopped

vars == <<free, spare, space, current, tlb, content, program, job, loading, held,
          clone, execs, lost, halt>>

Tasks == DOMAIN space
Pages(t) == {n \in DOMAIN space[t] : IsPage(n)}
With(f, n, v) == [m \in DOMAIN f \cup {n} |-> IF m = n THEN v ELSE f[m]]

\* Where an access to page n of the current address space goes.
Translate(n) == IF n \in DOMAIN tlb THEN tlb[n] ELSE space[current][n]

Init ==
  \E pml4, pdp \in Frames \ SparePages :
    /\ pml4 < pdp /\ \A f \in Frames \ SparePages : f >= pml4 /\ (f > pml4 => f >= pdp)
    /\ free = Frames \ (SparePages \cup {pml4, pdp})
    /\ spare = SparePages
    /\ space = <<[n \in {<<>>, <<0>>} |-> IF n = <<>> THEN pml4 ELSE pdp]>>
    /\ current = 1
    /\ tlb = Empty
    /\ content = [f \in Frames |-> Zero]
    /\ program = <<NoProgram>>
    /\ job = Idle
    /\ loading = [file |-> NoProgram, segment |-> 0]
    /\ held = 0
    /\ clone = Empty
    /\ execs = 0
    /\ lost = {}
    /\ halt = "no"

-----------------------------------------------------------------------------
\* alloc_page(), one page of job.todo after the other

Mapping == job.kind \in {"stack", "load"} /\ job.todo # <<>>

\* mem_alloc_block(); without memory alloc_page() returns 0.
AllocFrame ==
  /\ Mapping /\ held = 0
  /\ IF free = {}
     THEN /\ halt' = IF job.kind = "load" THEN "entry" ELSE "fault"
          /\ UNCHANGED <<free, held>>
     ELSE /\ held' = Min(free)
          /\ free' = free \ {Min(free)}
          /\ UNCHANGED halt
  /\ UNCHANGED <<spare, space, current, tlb, content, program, job, loading, clone, execs, lost>>

Missing(n) == {k \in 1 .. 3 : SubSeq(n, 1, k) \notin DOMAIN space[current]}

\* create_page_for_current(): a table that is not present gets a block, whatever
\* is in it, or frame 0 if there is none.
MakeTable ==
  /\ Mapping /\ held # 0 /\ Missing(Head(job.todo)) # {}
  /\ LET n == SubSeq(Head(job.todo), 1, Min(Missing(Head(job.todo))))
     IN  IF free = {}
         THEN halt' = "table" /\ UNCHANGED <<free, space>>
         ELSE /\ space' = [space EXCEPT ![current] = With(@, n, Min(free))]
              /\ free' = free \ {Min(free)}
              /\ halt' = IF content[Min(free)] = Zero THEN "no" ELSE "garbage"
  /\ UNCHANGED <<spare, current, tlb, content, program, job, loading, held, clone, execs, lost>>

\* create_page_for_current() has made the tables of page n.
MayMap(n) == Missing(n) = {}

\* The page entry is written; a frame it had before is forgotten.
SetPage ==
  LET n == Head(job.todo)
  IN  /\ Mapping /\ held # 0 /\ MayMap(n)
      /\ space' = [space EXCEPT ![current] = With(@, n, held)]
      /\ lost' = lost \cup (IF n \in Pages(current) THEN {space[current][n]} ELSE {})
      /\ held' = 0
      /\ job' = [job EXCEPT !.todo = Tail(@)]
      /\ UNCHANGED <<free, spare, current, tlb, content, program, loading, clone, execs, halt>>

-----------------------------------------------------------------------------
\* fork_kernel(), fork()

\* Stacks first, then the clone, in fork_kernel() ...
ForkKernel ==
  /\ job = Idle /\ current = 1 /\ Len(space) = 1
  /\ job' = [kind |-> "stack", todo |-> Stacks]
  /\ UNCHANGED <<free, spare, space, current, tlb, content, program, loading, held, clone,
                 execs, lost, halt>>

\* ... and only the clone in fork().
CloneStart ==
  /\ \/ job = [kind |-> "stack", todo |-> <<>>]
     \/ job = Idle /\ current > 1 /\ Len(space) < MaxTasks
  /\ job' = [kind |-> "clone", todo |-> Nodes]
  /\ UNCHANGED <<free, spare, space, current, tlb, content, program, loading, held, clone,
                 execs, lost, halt>>

\* Mutant: a new page is cleared like a new table.
ClearedBlock(n) == Zero

\* What the new frame for node n holds: mem_copy_block() of a page, which reads it
\* at its virtual address, and mem_clear_block() of a table.
NewBlock(n) == IF IsPage(n) THEN content[Translate(n)] ELSE Zero

\* kmalloc_a() of one page, from the heap or, when that is full, by
\* alloc_kernel_page(); the heap does not notice that there is none (kheap.c:136).
CloneNext ==
  LET n == Head(job.todo)
      pool == IF spare # {} THEN spare ELSE free
      page == Min(pool)
  IN  /\ job.kind = "clone" /\ job.todo # <<>> /\ n \in DOMAIN space[current]
      /\ IF pool = {}
         THEN halt' = "fault" /\ UNCHANGED <<free, spare, clone, content, job>>
         ELSE /\ spare' = spare \ {page}
              /\ free' = free \ {page}
              /\ clone' = With(clone, n, page)
              /\ content' = [content EXCEPT ![page] = NewBlock(n)]
              /\ job' = [job EXCEPT !.todo = Tail(@)]
              /\ UNCHANGED halt
      /\ UNCHANGED <<space, current, tlb, program, loading, held, execs, lost>>

\* An entry that is not present is passed over.
CloneSkip ==
  /\ job.kind = "clone" /\ job.todo # <<>> /\ Head(job.todo) \notin DOMAIN space[current]
  /\ job' = [job EXCEPT !.todo = Tail(@)]
  /\ UNCHANGED <<free, spare, space, current, tlb, content, program, loading, held, clone,
                 execs, lost, halt>>

CloneDone ==
  /\ job = [kind |-> "clone", todo |-> <<>>]
  /\ space' = Append(space, clone)
  /\ program' = Append(program, program[current])
  /\ clone' = Empty
  /\ job' = Idle
  /\ UNCHANGED <<free, spare, current, tlb, content, loading, held, execs, lost, halt>>

-----------------------------------------------------------------------------
\* exec()

\* Mutant: the stacks go as well.
CleanedStacks(n) == IsPage(n)

\* The pages that clean_user_space() gives back.
Cleaned(n) == IsPage(n) /\ n[4] < 510 /\ n[3] # 511 /\ n[2] # 2

\* Mutant: mem_free_block() without page->hex = 0.
CleanEntriesKept(m) == m

\* The entries that clean_user_space() leaves.
CleanEntries(m) == Restrict(m, {n \in DOMAIN m : ~Cleaned(n)})

\* find_file() has found the file: everything is cleaned, then it is loaded, if
\* read_file() delivers an executable.
Exec(file, elf) ==
  /\ job = Idle /\ current > 1 /\ execs < MaxExecs
  /\ execs' = execs + 1
  /\ free' = free \cup {space[current][n] : n \in {m \in DOMAIN space[current] : Cleaned(m)}}
  /\ space' = [space EXCEPT ![current] = CleanEntries(@)]
  /\ program' = [program EXCEPT ![current] = NoProgram]
  /\ loading' = [file |-> file, segment |-> 1]
  /\ job' = [kind |-> "load", todo |-> MappedPages(file[1])]
  /\ halt' = IF elf THEN "no" ELSE "entry"
  /\ UNCHANGED <<spare, current, tlb, content, held, clone, lost>>

\* Where memcpy() can write: it stops at the first page that has no translation.
Reached(bytes) ==
  {a \in bytes : \A b \in bytes : b <= a => PageOf(b) \in DOMAIN tlb \cup DOMAIN space[current]}

\* A segment has its pages: memcpy() into them, then the next one or user mode.  A
\* page that alloc_page() did not reach is a page fault; a translation of the
\* program before, which nobody flushed, leads to its old frame.
CopySegment ==
  /\ job = [kind |-> "load", todo |-> <<>>]
  /\ LET file == loading.file
         bytes == Bytes(file[loading.segment])
         done == Reached(bytes)
         pages == {PageOf(a) : a \in done}
     IN  /\ content' = [f \in Frames |-> [o \in 0 .. Unit - 1 |->
                          IF \E a \in done : Translate(PageOf(a)) = f /\ a % Unit = o
                          THEN <<file, loading.segment>> ELSE content[f][o]]]
         /\ tlb' = [n \in DOMAIN tlb \cup pages |-> Translate(n)]
         /\ halt' = IF \E n \in pages : n \notin DOMAIN space[current] \/ Translate(n) # space[current][n]
                    THEN "stale"
                    ELSE IF done # bytes THEN "fault" ELSE halt
         /\ \/ /\ done # bytes
               /\ UNCHANGED <<program, job, loading>>
            \/ /\ done = bytes /\ loading.segment < Len(file)
               /\ loading' = [loading EXCEPT !.segment = @ + 1]
               /\ job' = [kind |-> "load", todo |-> MappedPages(file[loading.segment + 1])]
               /\ UNCHANGED program
            \/ /\ done = bytes /\ loading.segment = Len(file)
               /\ program' = [program EXCEPT ![current] = file]
               /\ job' = Idle
               /\ UNCHANGED loading
  /\ UNCHANGED <<free, spare, space, current, held, clone, execs, lost>>

-----------------------------------------------------------------------------
\* The CPU

\* A program uses one of its pages.
Touch(n) ==
  /\ job = Idle /\ n \in Pages(current) \ DOMAIN tlb
  /\ tlb' = With(tlb, n, space[current][n])
  /\ UNCHANGED <<free, spare, space, current, content, program, job, loading, held, clone,
                 execs, lost, halt>>

\* The CPU may forget its translations at any time.
Forget ==
  /\ tlb # Empty /\ tlb' = Empty
  /\ UNCHANGED <<free, spare, space, current, content, program, job, loading, held, clone,
                 execs, lost, halt>>

\* switch_task() loads CR3, which empties the TLB.
SwitchTask(t) ==
  /\ job = Idle /\ t # current
  /\ current' = t
  /\ tlb' = Empty
  /\ UNCHANGED <<free, spare, space, content, program, job, loading, held, clone, execs, lost, halt>>

Next ==
  /\ halt = "no"
  /\ \/ ForkKernel
     \/ AllocFrame
     \/ MakeTable
     \/ SetPage
     \/ CloneStart
     \/ CloneNext
     \/ CloneSkip
     \/ CloneDone
     \/ \E file \in Programs, elf \in BOOLEAN : Exec(file, elf)
     \/ CopySegment
     \/ \E n \in Range(Layout) : Touch(n)
     \/ Forget
     \/ \E t \in Tasks : SwitchTask(t)

Spec == Init /\ [][Next]_vars

-----------------------------------------------------------------------------
\* Properties

Holders(f) ==
  {<<"free">> : x \in {f} \cap free} \cup {<<"spare">> : x \in {f} \cap spare}
  \cup {<<"lost">> : x \in {f} \cap lost} \cup {<<"held">> : x \in {f} \cap {held}}
  \cup {<<"clone", n>> : n \in {m \in DOMAIN clone : clone[m] = f}}
  \cup UNION {{<<"space", t, n>> : n \in {m \in DOMAIN space[t] : space[t][m] = f}} : t \in Tasks}

\* Every frame is in one place: free, a spare page of the heap, one node of one
\* address space, or being mapped.  fork() shares nothing, clean_user_space() of
\* the child gives back nothing that is still mapped or will be given back again,
\* and nothing leaks but the frames whose entry alloc_page() overwrites.
OneHolder == \A f \in Frames : Cardinality(Holders(f)) = 1

\* The bytes of segment s that loading the later ones leaves alone: none of them
\* writes there, or asks for the page again, which takes its frame away.
Kept(file, s) ==
  {a \in Bytes(file[s]) : \A r \in s + 1 .. Len(file) :
     a \notin Bytes(file[r]) /\ PageOf(a) \notin Range(MappedPages(file[r]))}

\* Every task has the program that it or, before fork(), its parent has loaded: once
\* exec() enters it, the page of each byte that load_executable() copied (elf.c:31
\* "use program header to load") is present, with the tables above it, and each byte
\* that no later segment took away is what was copied there, unless the loader wrote
\* through a translation that was not flushed.  No task disturbs the memory of another.
LoadedImage ==
  halt # "stale" =>
    \A t \in Tasks : \A s \in DOMAIN program[t] : \A a \in Bytes(program[t][s]) :
      /\ \A k \in 0 .. 4 : SubSeq(PageOf(a), 1, k) \in DOMAIN space[t]
      /\ a \in Kept(program[t], s) => content[space[t][PageOf(a)]][a % Unit] = <<program[t], s>>

\* exec() runs on the system call stack of the space it cleans, and enters user
\* mode on the other: once a task has its stacks, their frames never change.
StacksKept ==
  [][\A t \in Tasks : \A n \in Range(Stacks) :
       t > 1 => /\ n \in Pages(t) /\ n \in DOMAIN space'[t]
                /\ space'[t][n] = space[t][n]]_vars

=============================================================================
