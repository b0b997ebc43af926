----------------------------- MODULE KernelProps -----------------------------
(***************************************************************************)
(* What the kernel of module Kernel has to guarantee.                      *)
(***************************************************************************)
EXTENDS Kernel

\* Every label a task can stand at.
ReadLabels == {"readline", "get_char", "got_char", "yield_key", "putchar_key",
               "putchar_nl", "readline_end"}
PrintLabels == {"puts", "putchar_puts", "putchar_key", "putchar_nl", "putint",
                "putint_end"}
LockLabels == {"spin_acquire", "spin_wait", "spin_release", "acquire", "check",
               "block", "yield_lock", "release", "heap_puts"}
RestLabels == {"none", "user", "hlt", "sleep", "sleep_cli", "sysret", "exited"}
TaskLabels == {"fork", "fork_add", "fork_parent", "boot", "boot_done", "exec",
               "exec_done", "exit", "yield_exit", "hung"}
Labels == ReadLabels \union PrintLabels \union LockLabels
            \union RestLabels \union TaskLabels

LockReturns == (ReadLabels \ {"got_char", "yield_key"}) \union PrintLabels
                 \union {"none", "sysret", "exec_done", "boot_done", "hung"}
PutsReturns == {"none", "sysret", "putint_end", "exec_done", "boot_done", "hung"}

SchedType ==
  /\ next_pid \in 1 .. MaxTasks
  /\ current_task \in Tasks
  /\ status \in [Pids -> Status]
  /\ iflag \in BOOLEAN
  /\ if_saved \in [Pids -> BOOLEAN]
  /\ returning \in BOOLEAN

CallType ==
  /\ pc \in [Pids -> Labels]
  /\ lockid \in [Pids -> LockIds \union {NoLock}]
  /\ ret \in [Pids -> LockReturns]

LockType ==
  /\ locks \in [LockIds -> Seq(Pids)]
  /\ master_lock \in {0, 1}

PrintType ==
  /\ puts_ret \in [Pids -> PutsReturns]
  /\ pos \in [Pids -> 0 .. LineMax]

KeyType ==
  /\ occupant \in Pids
  /\ new_press \in BOOLEAN
  /\ press_code \in Keys

\* Every variable of the scheduler, the locks, the screen and the keyboard
\* holds a value of its C type that names a pid, a lock or a label; the task
\* that has the CPU is in the list, and a line stays within its bound.
TypeOK == SchedType /\ CallType /\ LockType /\ PrintType /\ KeyType

-----------------------------------------------------------------------------
(* Where a task is: inside lock() or unlock() it is also where it will return. *)

InReadline(t) == pc[t] \in ReadLabels \/ ret[t] \in ReadLabels \ {"readline"}
Waiting(t, l) == lockid[t] = l /\ pc[t] \in {"spin_wait", "check", "block", "yield_lock"}
InMonitor(t) == pc[t] \in PrintLabels \/ lockid[t] = Monitor
Queued(t, l) == \E i \in DOMAIN locks[l] : locks[l][i] = t

-----------------------------------------------------------------------------
(* Safety *)

\* readline() is a critical section: the task inside it is the head of the
\* keyboard lock's queue, so there is one at a time, and once it has taken
\* the keyboard, occupant, the pid key presses wake, is that task.
ReaderOwnsKeyboard ==
  \A t \in Tasks : InReadline(t) =>
    /\ locks[Keyboard] # <<>> /\ Head(locks[Keyboard]) = t
    /\ pc[t] # "readline" => occupant = t

\* get_char() goes to sleep and is woken without looking at new_press again:
\* a reader that gave up the CPU is runnable exactly when a key is there, so
\* it neither returns a key nobody pressed nor sleeps while one waits.
ReaderAwakeIffKey ==
  \A t \in Tasks : pc[t] = "got_char" => (status[t] = Free <=> new_press)

\* No lost wakeup in lock(): a task whose turn has come, still in the wait
\* loop, is runnable.
HeadNotAsleep ==
  \A l \in LockIds, t \in Tasks :
    Waiting(t, l) /\ locks[l] # <<>> /\ Head(locks[l]) = t => status[t] = Free

\* The loop of switch_task ends: the kernel task is never blocked, although
\* get_char blocks whatever pid occupant holds and 0 stands for no reader.
IdleRunnable == status[Kernel] = Free

\* spin_lock(&master_lock) finds the lock free.  On one CPU a task that spins
\* with interrupts disabled waits for a task that cannot run.
SpinNeverContended ==
  ~returning /\ pc[current_task] \in Spins \union {"heap_puts"} => master_lock = 0

\* Locks are not leaked: no task is in a queue while it runs user code, is
\* asleep in hlt, on its way back to user code or gone.
NoLockLeak ==
  \A l \in LockIds, t \in Tasks : Queued(t, l) => pc[t] \notin RestLabels

\* add_task makes the child runnable before fork stores its entry point: the
\* CPU is not given up before it has one.
NoHalfMadeTask ==
  \A t \in Tasks : pc[t] = "none" => ~iflag /\ pc[current_task] = "fork_parent"

\* Lines on the screen are not mixed: the first putchar of puts gives the
\* monitor lock up on its return, and still no other task starts to print
\* before puts is done.
OnePrinter == \A t, u \in Tasks : InMonitor(t) /\ InMonitor(u) => t = u

\* A task that called exit() stays dead: neither a key press nor an unlock
\* makes it runnable again.
ExitIsFinal == [][\A t \in Tasks : status[t] = Exited => status'[t] = Exited]_vars

-----------------------------------------------------------------------------
(* The locks implement the abstract queue lock. *)

KeyboardLock == INSTANCE FifoLock WITH queue <- locks[Keyboard], running <- current_task
MonitorLock == INSTANCE FifoLock WITH queue <- locks[Monitor], running <- current_task

\* The keyboard lock serves readers in the order in which they called
\* readline(), and only its owner releases it.
KeyboardFifo == KeyboardLock!Spec

\* So does the monitor lock, although unlock() removes the only entry of a
\* queue without asking whose it is.
MonitorFifo == MonitorLock!Spec

-----------------------------------------------------------------------------
(* Why it works: the inductive invariant behind the proofs.                *)
(*                                                                         *)
(* Up to next_pid = 2 pid 1 is the only task that ever calls lock(), with  *)
(* IF set or not.  From the first fork on, the kernel is only preempted at *)
(* the labels of Open; a task that is not executing is there, or waits in  *)
(* lock() for the keyboard or in get_char() for a key.                     *)

Executing(t) == current_task = t /\ ~returning
Open == {"user", "hlt", "sleep", "sleep_cli", "sysret", "yield_exit", "exited"}
HoldsMaster == {"acquire", "check", "release", "heap_puts"}

ForkMasked ==
  \A t \in Tasks : pc[t] \in {"fork_add", "fork_parent"} => Executing(t) /\ ~iflag

KernelTask ==
  /\ next_pid = 1 => pc[Kernel] \in {"fork", "fork_add"}
  /\ next_pid = 2 => pc[Kernel] \in {"fork_parent", "hlt"}
  /\ next_pid >= 3 => pc[Kernel] = "hlt"

Unborn ==
  /\ \A t \in Pids \ Tasks : pc[t] = "none"
  /\ \A t \in Tasks : pc[t] = "none" =>
       t = next_pid - 1 /\ t # current_task /\ pc[current_task] = "fork_parent"
  /\ \A t \in Tasks : pc[t] = "fork_parent" => pc[next_pid - 1] = "none"

Parked ==
  next_pid >= 3 => \A t \in Tasks : ~Executing(t) =>
    \/ pc[t] \in Open \union {"none"}
    \/ pc[t] \in {"spin_wait", "got_char"} /\ ~if_saved[t]

Masked ==
  next_pid >= 3 /\ ~returning /\ iflag => pc[current_task] \in Open

MasterHeld ==
  master_lock = 1 => \E t \in Tasks : pc[t] \in HoldsMaster

PreemptionInv ==
  ForkMasked /\ KernelTask /\ Unborn /\ Parked /\ Masked /\ MasterHeld

\* The frames of lock(), unlock() and puts(): what they were called for.
AcquireLabels == {"spin_acquire", "acquire", "spin_wait", "check", "block", "yield_lock"}
ReleaseLabels == {"spin_release", "release", "heap_puts"}

Frame(t) ==
  /\ pc[t] \notin LockLabels => lockid[t] = NoLock /\ ret[t] = "none"
  /\ pc[t] \in LockLabels =>
       \/ lockid[t] = Monitor /\ pc[t] \in AcquireLabels /\ ret[t] \in PrintLabels
       \/ lockid[t] = Keyboard /\ pc[t] \in AcquireLabels /\ ret[t] = "readline"
       \/ lockid[t] = Monitor /\ pc[t] \in ReleaseLabels /\ ret[t] \notin {"none", "readline"}
       \/ lockid[t] = Keyboard /\ pc[t] \in ReleaseLabels /\ ret[t] = "sysret"
  /\ pc[t] \in {"puts", "putchar_puts"} \/ ret[t] \in {"puts", "putchar_puts"} =>
       puts_ret[t] # "none"
  /\ pc[t] = "heap_puts" => HeapPrints

Frames == \A t \in Pids : Frame(t)

\* The monitor lock is free, or it has one owner, which is printing; nobody
\* ever waits for it.
MonitorQueue ==
  /\ locks[Monitor] = <<>> \/ \E t \in Tasks : locks[Monitor] = <<t>> /\ InMonitor(t)
  /\ \A t \in Tasks : ~Waiting(t, Monitor)

\* The reader, also while it gives the keyboard up, is the head of the queue.
HasKeyboard(t) ==
  \/ InReadline(t)
  \/ lockid[t] = Keyboard /\ pc[t] \in {"spin_release", "release"}

KeyboardQueue ==
  \A t \in Tasks :
    /\ HasKeyboard(t) => locks[Keyboard] # <<>> /\ Head(locks[Keyboard]) = t
    /\ InReadline(t) /\ pc[t] # "readline" => occupant = t

\* The kernel is preempted only where it is safe, calls its locks in frames,
\* and the two queues belong to the tasks that print and read.
KernelInv == TypeOK /\ PreemptionInv /\ Frames /\ MonitorQueue /\ KeyboardQueue

(* Who is in the keyboard's queue, and what the status of a task says about *)
(* where it is: what waking the right task at the right time rests on.      *)

\* Everyone in the queue reads or waits to read, and is in it once.
KeyboardMembers ==
  LET q == locks[Keyboard]
  IN
  /\ \A i \in DOMAIN q : HasKeyboard(q[i]) \/ Waiting(q[i], Keyboard)
  /\ \A i, j \in DOMAIN q : q[i] = q[j] => i = j

\* The pid that key presses wake is in readline().
OccupantReads == occupant # 0 => InReadline(occupant)

\* Only a task that has called exit() is a zombie.
ZombiesExit ==
  \A t \in Tasks : status[t] = Exited => pc[t] \in {"yield_exit", "exited"}

\* The task that has the CPU is runnable, until it is about to give it up.
RunningFree ==
  \/ status[current_task] = Free
  \/ pc[current_task] \in {"yield_lock", "yield_key", "yield_exit"}

\* A reader that sleeps in get_char(), or is about to, is woken by a key.
SleepsWithoutKey ==
  \A t \in Tasks : pc[t] \in {"yield_key", "got_char"} => (status[t] = Free <=> new_press)

\* A task that is about to block in lock() is still not the head of the queue.
BlocksInTurn ==
  \A t \in Tasks : pc[t] = "block" /\ lockid[t] = Keyboard =>
    locks[Keyboard] # <<>> /\ Head(locks[Keyboard]) # t

\* unlock() wakes the next owner, unless kfree hangs it under master_lock.
WokenOrHung == HeadNotAsleep \/ \E t \in Tasks : pc[t] = "heap_puts"

Wakeups ==
  /\ KeyboardMembers /\ OccupantReads
  /\ IdleRunnable /\ ZombiesExit /\ RunningFree
  /\ SleepsWithoutKey /\ BlocksInTurn /\ WokenOrHung

\* The kernel is preempted only where it is safe, its two queues belong to the
\* tasks that print and read, and the statuses agree with them: no wakeup of
\* lock(), get_char() or exit() is lost, and none goes to the wrong task.
WakeupInv == KernelInv /\ Wakeups

-----------------------------------------------------------------------------
(* Liveness, under FairSpec *)

\* The round robin of switch_task starves no runnable task.
RunnableRuns ==
  \A t \in Pids : (t \in Tasks /\ status[t] = Free) ~> current_task = t

\* A task that waited for the keyboard and whose turn has come becomes the
\* reader: the unlock() that made it the head wakes it, the scheduler runs
\* it, and the wait loop lets it in.
HeadBecomesReader ==
  \A t \in Pids :
    (Waiting(t, Keyboard) /\ locks[Keyboard] # <<>> /\ Head(locks[Keyboard]) = t)
      ~> occupant = t

\* A key pressed while a task reads is consumed.
KeyConsumed == (occupant # 0 /\ new_press) ~> ~new_press

=============================================================================
