-------------------------------- MODULE Kernel --------------------------------
(***************************************************************************)
(* The running kernel: tasks that make system calls (syscall.c), print     *)
(* (monitor.c), read lines (keyboard.c), fork, exec, exit and sleep, the   *)
(* timer and keyboard interrupts that cut in whenever IF is set, on top of *)
(* the locks of BLocking and the scheduler of Scheduler.                   *)
(*                                                                         *)
(* A system call enters the kernel through an interrupt gate and a cli     *)
(* (interrupt.asm), so its steps run with interrupts disabled except where *)
(* fork, exit and sleep set IF again.  pid 1 starts differently: it runs   *)
(* kernel_entry's exec("SHELL") with interrupts enabled.                   *)
(*                                                                         *)
(* Behaviours start where kernel_entry calls fork_kernel, after            *)
(* scheduler_init, monitor_init and keyboard_init.                         *)
(***************************************************************************)
EXTENDS BLocking

CONSTANTS
  LineMax,        \* bound on the characters of a line (79 in readline)
  UserFaults      \* may a program fault (page fault or GPF)?

ASSUME LineMaxAssumption == LineMax \in Nat /\ LineMax >= 1
ASSUME UserFaultsAssumption == UserFaults \in BOOLEAN

VARIABLES
  puts_ret,       \* where the puts() a task is in returns to
  pos,            \* characters printed by puts, or read by readline
  occupant,       \* static occupant: pid of the reader, 0 if none
  new_press,      \* static new_press: a key press waits to be read
  press_code      \* static press_code: the last key pressed

printVars == <<puts_ret, pos>>
keyVars == <<occupant, new_press, press_code>>
vars == <<schedVars, lockVars, callVars, printVars, keyVars>>

Enter == "enter"
Keys == {Enter, "key"}

-----------------------------------------------------------------------------

\* kernel_entry at its call of fork_kernel.  scheduler_init made the kernel
\* task and set IF; the two locks are registered and free.
Init ==
  /\ next_pid = 1
  /\ current_task = Kernel
  /\ status = [p \in Pids |-> Free]
  /\ pc = [p \in Pids |-> IF p = Kernel THEN "fork" ELSE "none"]
  /\ iflag = TRUE
  /\ if_saved = [p \in Pids |-> TRUE]
  /\ returning = FALSE
  /\ locks = [l \in LockIds |-> <<>>]
  /\ master_lock = 0
  /\ lockid = [p \in Pids |-> NoLock]
  /\ ret = [p \in Pids |-> "none"]
  /\ puts_ret = [p \in Pids |-> "none"]
  /\ pos = [p \in Pids |-> 0]
  /\ occupant = 0
  /\ new_press = FALSE
  /\ press_code = Enter

-----------------------------------------------------------------------------
(* Entering and leaving the kernel. *)

\* Mutant: a trap gate, and no cli in interrupt.asm.
EnterKernelTrapGate(t) ==
  /\ At(t, "user")
  /\ UNCHANGED <<next_pid, current_task, status, iflag, if_saved, returning>>
  /\ UNCHANGED <<lockVars, keyVars>>

\* int $0x80, or an exception, in user code: the gate clears IF.
EnterKernel(t) ==
  /\ At(t, "user")
  /\ iflag' = FALSE
  /\ UNCHANGED <<next_pid, current_task, status, if_saved, returning>>
  /\ UNCHANGED <<lockVars, keyVars>>

\* Calling puts(str).
CallPuts(t, r) ==
  /\ CallLock(t, Monitor, "puts")
  /\ puts_ret' = [puts_ret EXCEPT ![t] = r]
  /\ UNCHANGED pos

\* puts, and whatever else prints before it returns to user code: a report of
\* the heap during kmalloc or kfree, the message for an unhandled vector.
SysPuts(t) ==
  /\ EnterKernel(t)
  /\ CallPuts(t, "sysret")

\* puthex and putint.
SysPutint(t) ==
  /\ EnterKernel(t)
  /\ CallLock(t, Monitor, "putint")
  /\ UNCHANGED printVars

SysReadline(t) ==
  /\ EnterKernel(t)
  /\ CallLock(t, Keyboard, "readline")
  /\ UNCHANGED printVars

\* fork, exec and exit.  A fork needs a pid the bound MaxTasks allows.
SysTask(t) ==
  /\ EnterKernel(t)
  /\ \E l \in {"fork", "exec", "exit"} :
       /\ l = "fork" => next_pid < MaxTasks
       /\ Goto(t, l)
  /\ UNCHANGED <<callVars, printVars>>

\* A number outside the table, puts of a null pointer, and kmalloc or kfree
\* that print nothing.
SysOther(t) ==
  /\ EnterKernel(t)
  /\ Goto(t, "sysret")
  /\ UNCHANGED <<callVars, printVars>>

\* sleep(): sti, then hlt.
SysSleep(t) ==
  /\ At(t, "user")
  /\ Goto(t, "sleep")
  /\ UNCHANGED <<next_pid, current_task, status, iflag, if_saved, returning>>
  /\ UNCHANGED <<lockVars, callVars, printVars, keyVars>>

\* page_fault_handler and gpf_handler print and loop forever.
Fault(t) ==
  /\ UserFaults
  /\ EnterKernel(t)
  /\ CallPuts(t, "hung")

\* The end of isr_common: iretq restores the flags of user code.
SysRet(t) ==
  /\ At(t, "sysret")
  /\ Goto(t, "user")
  /\ iflag' = TRUE
  /\ UNCHANGED <<next_pid, current_task, status, if_saved, returning>>
  /\ UNCHANGED <<lockVars, callVars, printVars, keyVars>>

\* sleep(), after the hlt: cli.
SleepCli(t) ==
  /\ At(t, "sleep_cli")
  /\ Goto(t, "sysret")
  /\ iflag' = FALSE
  /\ UNCHANGED <<next_pid, current_task, status, if_saved, returning>>
  /\ UNCHANGED <<lockVars, callVars, printVars, keyVars>>

-----------------------------------------------------------------------------
(* monitor.c.  putchar's own lock() has returned at a putchar label. *)

SchedUnchanged == UNCHANGED <<next_pid, current_task, status, iflag, if_saved, returning>>

\* puts holds the lock: putchar for the next character, or the final unlock.
Puts(t) ==
  /\ At(t, "puts")
  /\ \/ /\ pos[t] < LineMax
        /\ CallLock(t, Monitor, "putchar_puts")
        /\ pos' = [pos EXCEPT ![t] = @ + 1]
        /\ UNCHANGED puts_ret
     \/ /\ CallUnlock(t, Monitor, puts_ret[t])
        /\ pos' = [pos EXCEPT ![t] = 0]
        /\ puts_ret' = [puts_ret EXCEPT ![t] = "none"]
  /\ SchedUnchanged
  /\ UNCHANGED <<lockVars, keyVars>>

\* putchar: the character is on the screen, unlock() is next.
AfterPutchar == [putchar_puts |-> "puts", putchar_key |-> "get_char",
                 putchar_nl |-> "readline_end"]

Putchar(t) ==
  /\ \E l \in DOMAIN AfterPutchar :
       At(t, l) /\ CallUnlock(t, Monitor, AfterPutchar[l])
  /\ SchedUnchanged
  /\ UNCHANGED <<lockVars, printVars, keyVars>>

\* putint and puthex: puts under the lock, and their own unlock after it.
Putint(t) ==
  /\ \/ At(t, "putint") /\ CallPuts(t, "putint_end")
     \/ /\ At(t, "putint_end")
        /\ CallUnlock(t, Monitor, "sysret")
        /\ UNCHANGED printVars
  /\ SchedUnchanged
  /\ UNCHANGED <<lockVars, keyVars>>

-----------------------------------------------------------------------------
(* keyboard.c *)

\* Mutant: occupant is not set.
ReadlineAnonymous(t) ==
  /\ At(t, "readline")
  /\ new_press' = FALSE
  /\ Goto(t, "get_char")
  /\ SchedUnchanged
  /\ UNCHANGED <<lockVars, callVars, printVars, occupant, press_code>>

\* readline(), with the keyboard lock: take the keyboard, drop older keys.
Readline(t) ==
  /\ At(t, "readline")
  /\ locks[Keyboard] # <<>>
  /\ occupant' = Head(locks[Keyboard])
  /\ new_press' = FALSE
  /\ Goto(t, "get_char")
  /\ SchedUnchanged
  /\ UNCHANGED <<lockVars, callVars, printVars, press_code>>

\* get_char(): block until there is a key.
GetChar(t) ==
  /\ At(t, "get_char")
  /\ IF new_press
     THEN Goto(t, "got_char") /\ UNCHANGED status
     ELSE /\ Goto(t, "yield_key")
          /\ status' = ChangeTaskStatus(occupant, Blocked)
  /\ UNCHANGED <<next_pid, current_task, iflag, if_saved, returning>>
  /\ UNCHANGED <<lockVars, callVars, printVars, keyVars>>

\* Mutant: the length of the line is not checked.
GotCharUnbounded(t) ==
  /\ At(t, "got_char")
  /\ new_press' = FALSE
  /\ IF press_code # Enter
     THEN /\ pos' = [pos EXCEPT ![t] = @ + 1]
          /\ CallLock(t, Monitor, "putchar_key")
     ELSE /\ pos' = [pos EXCEPT ![t] = 0]
          /\ CallLock(t, Monitor, "putchar_nl")
  /\ SchedUnchanged
  /\ UNCHANGED <<lockVars, puts_ret, occupant, press_code>>

\* get_char() consumes the key; readline() echoes it or ends the line.
GotChar(t) ==
  /\ At(t, "got_char")
  /\ new_press' = FALSE
  /\ IF press_code # Enter /\ pos[t] < LineMax
     THEN /\ pos' = [pos EXCEPT ![t] = @ + 1]
          /\ CallLock(t, Monitor, "putchar_key")
     ELSE /\ pos' = [pos EXCEPT ![t] = 0]
          /\ CallLock(t, Monitor, "putchar_nl")
  /\ SchedUnchanged
  /\ UNCHANGED <<lockVars, puts_ret, occupant, press_code>>

\* Mutant: occupant still names the task that stopped reading.
ReadlineEndOccupied(t) ==
  /\ At(t, "readline_end")
  /\ CallUnlock(t, Keyboard, "sysret")
  /\ SchedUnchanged
  /\ UNCHANGED <<lockVars, printVars, keyVars>>

\* Mutant: the keyboard lock is not released.
ReadlineEndLocked(t) ==
  /\ At(t, "readline_end")
  /\ occupant' = 0
  /\ Goto(t, "sysret")
  /\ SchedUnchanged
  /\ UNCHANGED <<lockVars, callVars, printVars, new_press, press_code>>

\* The line is complete: leave the keyboard, then unlock it.
ReadlineEnd(t) ==
  /\ At(t, "readline_end")
  /\ occupant' = 0
  /\ CallUnlock(t, Keyboard, "sysret")
  /\ SchedUnchanged
  /\ UNCHANGED <<lockVars, printVars, new_press, press_code>>

-----------------------------------------------------------------------------
(* fork.c, exec.c, exit.c and the rest of kernel_entry. *)

\* Mutant: fork without cli.
ForkUnmasked(t) ==
  /\ At(t, "fork")
  /\ Goto(t, "fork_add")
  /\ SchedUnchanged
  /\ UNCHANGED <<lockVars, callVars, printVars, keyVars>>

\* fork() and fork_kernel(): cli.
Fork(t) ==
  /\ At(t, "fork")
  /\ Goto(t, "fork_add")
  /\ iflag' = FALSE
  /\ UNCHANGED <<next_pid, current_task, status, if_saved, returning>>
  /\ UNCHANGED <<lockVars, callVars, printVars, keyVars>>

\* The child joins the task list before it has an entry point.
ForkAdd(t) ==
  /\ At(t, "fork_add")
  /\ AddTask
  /\ Goto(t, "fork_parent")
  /\ UNCHANGED <<current_task, iflag, if_saved, returning>>
  /\ UNCHANGED <<lockVars, callVars, printVars, keyVars>>

\* The parent stores the child's entry point, sets IF and returns.  The child
\* will be jumped to with IF set.
ForkParent(t) ==
  LET child == next_pid - 1
      after == IF t = Kernel THEN [parent |-> "hlt", child |-> "boot"]
                             ELSE [parent |-> "sysret", child |-> "sysret"]
  IN
  /\ At(t, "fork_parent")
  /\ pc' = [pc EXCEPT ![t] = after.parent, ![child] = after.child]
  /\ if_saved' = [if_saved EXCEPT ![child] = TRUE]
  /\ iflag' = TRUE
  /\ UNCHANGED <<next_pid, current_task, status, returning>>
  /\ UNCHANGED <<lockVars, callVars, printVars, keyVars>>

\* exec(): find, clean and load the file, with or without a message.
AfterExec == [exec |-> "exec_done", boot |-> "boot_done"]

Exec(t) ==
  /\ \E l \in DOMAIN AfterExec :
       /\ At(t, l)
       /\ \/ CallPuts(t, AfterExec[l])
          \/ Goto(t, AfterExec[l]) /\ UNCHANGED <<callVars, printVars>>
  /\ SchedUnchanged
  /\ UNCHANGED <<lockVars, keyVars>>

\* exec() jumps to user mode, or returns 0 because there is no such file:
\* kernel_entry then exits, a system call returns.
ExecDone(t) ==
  /\ \/ /\ At(t, "exec_done") \/ At(t, "boot_done")
        /\ Goto(t, "user")
        /\ iflag' = TRUE
     \/ At(t, "exec_done") /\ Goto(t, "sysret") /\ UNCHANGED iflag
     \/ At(t, "boot_done") /\ Goto(t, "exit") /\ UNCHANGED iflag
  /\ UNCHANGED <<next_pid, current_task, status, if_saved, returning>>
  /\ UNCHANGED <<lockVars, callVars, printVars, keyVars>>

\* exit(): a zombie, then sti.
Exit(t) ==
  /\ At(t, "exit")
  /\ status' = ChangeTaskStatus(t, Exited)
  /\ Goto(t, "yield_exit")
  /\ iflag' = TRUE
  /\ UNCHANGED <<next_pid, current_task, if_saved, returning>>
  /\ UNCHANGED <<lockVars, callVars, printVars, keyVars>>

\* int $0x20 in lock(), get_char() and exit(), and what each continues with.
AfterYield == [yield_lock |-> "spin_wait", yield_key |-> "got_char",
               yield_exit |-> "exited"]

Yield(t) ==
  /\ \E l \in DOMAIN AfterYield : At(t, l) /\ Goto(t, AfterYield[l])
  /\ SwitchTask(status)
  /\ UNCHANGED <<next_pid, status>>
  /\ UNCHANGED <<lockVars, callVars, printVars, keyVars>>

-----------------------------------------------------------------------------
(* Interrupts of the two devices, delivered while IF is set. *)

Tick ==
  /\ TimerTick
  /\ UNCHANGED <<lockVars, callVars, printVars, keyVars>>

\* Mutant: the handler switches tasks without waking the reader.
WakeNobody ==
  /\ IF occupant # 0 /\ new_press'
     THEN SwitchTask(status)
     ELSE UNCHANGED <<current_task, if_saved, returning, iflag>>
  /\ WakeHlt
  /\ UNCHANGED <<status, next_pid, occupant>>
  /\ UNCHANGED <<lockVars, callVars, printVars>>

\* Mutant: the release of a key wakes the reader too.
WakeOnAnyCode ==
  /\ IF occupant # 0
     THEN /\ status' = ChangeTaskStatus(occupant, Free)
          /\ SwitchTask(status')
     ELSE UNCHANGED <<status, current_task, if_saved, returning, iflag>>
  /\ WakeHlt
  /\ UNCHANGED <<next_pid, occupant>>
  /\ UNCHANGED <<lockVars, callVars, printVars>>

\* keyboard_handler(), after it has recorded the scancode.
WakeReader ==
  /\ IF occupant # 0 /\ new_press'
     THEN /\ status' = ChangeTaskStatus(occupant, Free)
          /\ SwitchTask(status')
     ELSE UNCHANGED <<status, current_task, if_saved, returning, iflag>>
  /\ WakeHlt
  /\ UNCHANGED <<next_pid, occupant>>
  /\ UNCHANGED <<lockVars, callVars, printVars>>

KeyPress ==
  /\ iflag
  /\ new_press' = TRUE
  /\ press_code' \in Keys
  /\ WakeReader

KeyBreak ==
  /\ iflag
  /\ UNCHANGED <<new_press, press_code>>
  /\ WakeReader

-----------------------------------------------------------------------------

\* Where a user program asks, or makes the CPU ask, for the kernel.
UserStep(t) ==
  \/ SysPuts(t) \/ SysPutint(t) \/ SysReadline(t) \/ SysTask(t)
  \/ SysOther(t) \/ SysSleep(t) \/ Fault(t)

\* A step of kernel code on behalf of task t.
LockStep(t) ==
  /\ SpinLock(t) \/ Acquire(t) \/ Check(t) \/ Block(t) \/ Release(t)
  /\ UNCHANGED <<printVars, keyVars>>

KernelStep(t) ==
  \/ LockStep(t)
  \/ SysRet(t) \/ SleepCli(t)
  \/ Puts(t) \/ Putchar(t) \/ Putint(t)
  \/ Readline(t) \/ GetChar(t) \/ GotChar(t) \/ ReadlineEnd(t)
  \/ Fork(t) \/ ForkAdd(t) \/ ForkParent(t)
  \/ Exec(t) \/ ExecDone(t) \/ Exit(t) \/ Yield(t)

\* The task that was switched to leaves the interrupt it gave the CPU up in.
Resume(t) ==
  /\ current_task = t
  /\ Iret
  /\ UNCHANGED <<lockVars, callVars, printVars, keyVars>>

Next ==
  \/ \E t \in Tasks : UserStep(t) \/ KernelStep(t) \/ Resume(t)
  \/ Tick \/ KeyPress \/ KeyBreak

Spec == Init /\ [][Next]_vars

\* A time slice is far longer than the code between two interrupts, so a task
\* that gets the CPU again and again gets on; the periodic timer stays pending
\* in the APIC while IF is clear.  Nothing is assumed of programs and keys.
Fairness ==
  /\ SF_vars(Tick)
  /\ \A t \in Pids : SF_vars(KernelStep(t)) /\ SF_vars(Resume(t))

FairSpec == Spec /\ Fairness

=============================================================================
