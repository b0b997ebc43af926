------------------------------ MODULE Scheduler ------------------------------
(***************************************************************************)
(* The round-robin scheduler of kernel/scheduler.c, on the one CPU the     *)
(* kernel runs on, together with the interrupt flag that decides when it   *)
(* can be entered.                                                         *)
(*                                                                         *)
(* Only the task current_task points at executes.  switch_task() runs from *)
(* the timer vector 0x20, raised by the local APIC when interrupts are     *)
(* enabled or by an explicit "int $0x20" of the kernel.  Its handler runs  *)
(* with interrupts disabled (interrupt gate and cli), so it is one step.   *)
(* It resumes the task it picks with sti; jmp: until the iretq at the end  *)
(* of isr_common the resumed task runs kernel code with interrupts         *)
(* enabled, whatever the flag was when it gave up the CPU.                 *)
(*                                                                         *)
(* task_list is in pid order and never shrinks: add_task gives a task the  *)
(* next pid and links it at the tail, and no code unlinks one.  The list   *)
(* is therefore the interval 0 .. next_pid - 1.                            *)
(***************************************************************************)
EXTENDS Integers, Sequences

CONSTANT MaxTasks        \* bound on the number of tasks ever created

ASSUME MaxTasksAssumption == MaxTasks \in Nat /\ MaxTasks >= 2

VARIABLES
  next_pid,       \* static next_pid; the task list is 0 .. next_pid - 1
  current_task,   \* pid of static current_task
  status,         \* task.status of every pid
  pc,             \* where every task executes, or continues (task.rip)
  iflag,          \* RFLAGS.IF of the CPU
  if_saved,       \* the IF that iretq restores when the task continues
  returning       \* current_task is between switch_task and its iretq

schedVars == <<next_pid, current_task, status, pc, iflag, if_saved, returning>>

Pids == 0 .. MaxTasks - 1
Tasks == 0 .. next_pid - 1

\* task.status; 2 is what exit() stores.
Free == 0
Blocked == 1
Exited == 2
Status == {Free, Blocked, Exited}

\* The task of kernel_entry, which ends in the hlt loop.
Kernel == 0

-----------------------------------------------------------------------------

\* Task t is executing and its next instruction is at label l.
At(t, l) == current_task = t /\ ~returning /\ pc[t] = l

Goto(t, l) == pc' = [pc EXCEPT ![t] = l]

\* change_task_status(pid, s): the list is searched for the pid only, the
\* old status is never looked at.
ChangeTaskStatus(pid, s) ==
  IF pid \in Tasks THEN [status EXCEPT ![pid] = s] ELSE status

\* Links followed from one task to another, going back to task_list at the end.
Links(from, to) == IF to > from THEN to - from ELSE to - from + next_pid

\* Mutant: the search always starts at task_list.
RoundRobinFromList(st, from, to) ==
  st[to] = Free /\ \A u \in 0 .. to - 1 : st[u] # Free

\* The do .. while of switch_task, from task "from" and with the statuses st,
\* stops at task "to".  No task qualifies when none is free: the loop then
\* runs forever with interrupts disabled.
RoundRobin(st, from, to) ==
  /\ st[to] = Free
  /\ \A u \in Tasks : st[u] = Free => Links(from, to) <= Links(from, u)

\* switch_task(), entered by interrupt 0x20 from the current task.
SwitchTask(st) ==
  /\ \E to \in Tasks : RoundRobin(st, current_task, to) /\ current_task' = to
  /\ if_saved' = [if_saved EXCEPT ![current_task] = IF returning THEN @ ELSE iflag]
  /\ returning' = TRUE
  /\ iflag' = TRUE

\* add_task(new_task), with task.rip still 0; MaxTasks bounds the pids.
AddTask ==
  /\ next_pid < MaxTasks
  /\ next_pid' = next_pid + 1
  /\ status' = [status EXCEPT ![next_pid] = Free]

\* The end of isr_common in a task that was switched to: iretq restores the
\* flag the task had when it gave up the CPU.
Iret ==
  /\ returning
  /\ returning' = FALSE
  /\ iflag' = if_saved[current_task]
  /\ UNCHANGED <<next_pid, current_task, status, pc, if_saved>>

\* An interrupt ends the hlt of sleep(); it goes on with its cli.
WakeHlt == pc' = [pc EXCEPT ![current_task] = IF @ = "sleep" THEN "sleep_cli" ELSE @]

\* The periodic tick of the local APIC, delivered while IF is set.
TimerTick ==
  /\ iflag
  /\ SwitchTask(status)
  /\ WakeHlt
  /\ UNCHANGED <<next_pid, status>>

=============================================================================
