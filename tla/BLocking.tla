------------------------------- MODULE BLocking -------------------------------
(***************************************************************************)
(* The blocking locks of kernel/b_locking.c, one step per access to the    *)
(* shared state.                                                           *)
(*                                                                         *)
(* A lock is a linked queue of pids whose head is the owner; one spin lock *)
(* (master_lock, kernel/spin_lock.asm) guards every queue.  lock() and     *)
(* unlock() are subroutines: lockid is their argument and ret the label    *)
(* they return to.  Neither touches the interrupt flag (the cli and sti of *)
(* the source are commented out), so whether they can be preempted depends *)
(* on their caller.                                                        *)
(*                                                                         *)
(* unlock() calls kfree with master_lock held when others wait.  kfree     *)
(* reports on the screen (kheap.c: contract prints each time it is called, *)
(* that is when the freed block is the last of the heap), and that puts    *)
(* calls lock() again.  HeapPrints says whether such a report may be met;  *)
(* heap_puts is the spin_lock it waits at.  A report made when master_lock *)
(* is free takes and gives back the monitor lock and leaves the state as   *)
(* it was; it has no step here.  kmalloc reports only once the heap has    *)
(* outgrown its maximum; that a kernel runs out of heap is not modelled.   *)
(***************************************************************************)
EXTENDS Scheduler

CONSTANT HeapPrints      \* may kfree report under master_lock?

ASSUME HeapPrintsAssumption == HeapPrints \in BOOLEAN

VARIABLES
  locks,          \* static locks[]: the queue of pids of every lock
  master_lock,    \* static master_lock
  lockid,         \* argument of the lock() or unlock() a task is in
  ret             \* where that call returns to

lockVars == <<locks, master_lock>>
callVars == <<lockid, ret>>

\* The ids that register_lock returned to monitor_init and keyboard_init, in
\* the order kernel_entry calls them; -1 is no lock.
NoLock == -1
Monitor == 0
Keyboard == 1
LockIds == {Monitor, Keyboard}

-----------------------------------------------------------------------------

CallLock(t, l, r) ==
  /\ Goto(t, "spin_acquire")
  /\ lockid' = [lockid EXCEPT ![t] = l]
  /\ ret' = [ret EXCEPT ![t] = r]

CallUnlock(t, l, r) ==
  /\ Goto(t, "spin_release")
  /\ lockid' = [lockid EXCEPT ![t] = l]
  /\ ret' = [ret EXCEPT ![t] = r]

\* The return of lock() or unlock(); the frame is gone.
Return(t) ==
  /\ Goto(t, ret[t])
  /\ lockid' = [lockid EXCEPT ![t] = NoLock]
  /\ ret' = [ret EXCEPT ![t] = "none"]

\* kfree reports while master_lock is held: the nested lock() stands at its
\* spin_lock.
HeapReports(t) ==
  /\ HeapPrints
  /\ Goto(t, "heap_puts")
  /\ UNCHANGED <<master_lock, callVars>>

-----------------------------------------------------------------------------

\* spin_lock(&master_lock): xchg until the old value is 0.
Spins == {"spin_acquire", "spin_wait", "spin_release"}
AfterSpin == [spin_acquire |-> "acquire", spin_wait |-> "check",
              spin_release |-> "release"]

SpinLock(t) ==
  /\ \E l \in Spins : At(t, l) /\ Goto(t, AfterSpin[l])
  /\ master_lock = 0
  /\ master_lock' = 1
  /\ UNCHANGED <<next_pid, current_task, status, iflag, if_saved, returning>>
  /\ UNCHANGED <<locks, callVars>>

\* Mutant: a waiter is linked in front of the queue's tail.
AcquireInFront(t) ==
  LET q == locks[lockid[t]]
  IN
  /\ At(t, "acquire")
  /\ master_lock' = 0
  /\ IF q = <<>> \/ Head(q) = t
     THEN locks' = [locks EXCEPT ![lockid[t]] = <<t>>] /\ Return(t)
     ELSE /\ locks' = [locks EXCEPT ![lockid[t]] = <<Head(q), t>> \o Tail(q)]
          /\ Goto(t, "spin_wait")
          /\ UNCHANGED callVars
  /\ UNCHANGED <<next_pid, current_task, status, iflag, if_saved, returning>>

\* lock(): the lock is free, already ours, or somebody else's.
Acquire(t) ==
  LET q == locks[lockid[t]]
  IN
  /\ At(t, "acquire")
  /\ \/ /\ q # <<>> /\ Head(q) = t
        /\ master_lock' = 0
        /\ Return(t)
        /\ UNCHANGED locks
     \/ /\ q = <<>>
        /\ locks' = [locks EXCEPT ![lockid[t]] = <<t>>]
        /\ master_lock' = 0
        /\ Return(t)
     \/ /\ q # <<>> /\ Head(q) # t
        /\ locks' = [locks EXCEPT ![lockid[t]] = Append(q, t)]
        /\ master_lock' = 0
        /\ Goto(t, "spin_wait")
        /\ UNCHANGED callVars
  /\ UNCHANGED <<next_pid, current_task, status, iflag, if_saved, returning>>

\* Mutant: a waiter does not look whose turn it is.
CheckNothing(t) ==
  /\ At(t, "check")
  /\ master_lock' = 0
  /\ Return(t)
  /\ UNCHANGED <<locks, next_pid, current_task, status, iflag, if_saved, returning>>

\* lock(), wait loop: is it our turn?  The head of an empty queue is a null
\* pointer, and the loop goes no further.
Check(t) ==
  LET q == locks[lockid[t]]
  IN
  /\ At(t, "check")
  /\ q # <<>>
  /\ master_lock' = 0
  /\ IF Head(q) = t
     THEN Return(t)
     ELSE Goto(t, "block") /\ UNCHANGED callVars
  /\ UNCHANGED locks
  /\ UNCHANGED <<next_pid, current_task, status, iflag, if_saved, returning>>

\* lock(), wait loop: change_task_status(get_current_pid(), 1).
Block(t) ==
  /\ At(t, "block")
  /\ status' = ChangeTaskStatus(t, Blocked)
  /\ Goto(t, "yield_lock")
  /\ UNCHANGED <<next_pid, current_task, iflag, if_saved, returning>>
  /\ UNCHANGED <<lockVars, callVars>>

\* Mutant: unlock() wakes nobody.
ReleaseSilently(t) ==
  LET q == locks[lockid[t]]
  IN
  /\ At(t, "release")
  /\ locks' = [locks EXCEPT ![lockid[t]] = IF Len(q) > 1 THEN Tail(q) ELSE <<>>]
  /\ master_lock' = 0
  /\ Return(t)
  /\ UNCHANGED <<next_pid, current_task, status, iflag, if_saved, returning>>

\* unlock(): nothing to unlock; the only entry, whoever owns it; or one of
\* several, which is removed only if it is ours, and the new head is woken.
Release(t) ==
  LET q == locks[lockid[t]]
      own == IF Head(q) = t THEN Tail(q) ELSE q
  IN
  /\ At(t, "release")
  /\ \/ /\ Len(q) <= 1
        /\ locks' = [locks EXCEPT ![lockid[t]] = <<>>]
        /\ master_lock' = 0
        /\ Return(t)
        /\ UNCHANGED status
     \/ /\ Len(q) > 1
        /\ locks' = [locks EXCEPT ![lockid[t]] = own]
        /\ status' = ChangeTaskStatus(Head(own), Free)
        /\ master_lock' = 0
        /\ Return(t)
     \/ /\ Len(q) > 1 /\ Head(q) = t
        /\ locks' = [locks EXCEPT ![lockid[t]] = own]
        /\ HeapReports(t)
        /\ UNCHANGED status
  /\ UNCHANGED <<next_pid, current_task, iflag, if_saved, returning>>

=============================================================================
