----------------------------- MODULE KernelProofs -----------------------------
(***************************************************************************)
(* Proofs about the kernel, for any number of tasks, any length of lines   *)
(* and whether or not kfree reports and programs fault, in four parts:     *)
(*   - type correctness;                                                   *)
(*   - why the kernel's locks are safe on one CPU: KernelInv is inductive; *)
(*   - the keyboard lock makes readline() a critical section;              *)
(*   - no wakeup is lost: the statuses of the tasks agree with the         *)
(*     keyboard's queue and with the keys that were pressed, and the two   *)
(*     locks implement the abstract queue lock of FifoLock.                *)
(***************************************************************************)
EXTENDS KernelProps, TLAPS

-----------------------------------------------------------------------------
(* Type correctness *)

\* The labels lock(), unlock() and puts() return to are labels.
LEMMA ReturnLabels ==
  LockReturns \subseteq Labels /\ PutsReturns \subseteq LockReturns
BY DEF LockReturns, PutsReturns, Labels, ReadLabels, PrintLabels, LockLabels,
       RestLabels, TaskLabels

\* Every task has a pid, and pid 0 is one.
LEMMA TasksArePids ==
  ASSUME SchedType PROVE Tasks \subseteq Pids /\ Kernel \in Pids /\ next_pid - 1 \in Pids
BY MaxTasksAssumption DEF SchedType, Tasks, Pids, Kernel

\* change_task_status keeps statuses statuses, whatever pid it is given.
LEMMA ChangeTaskStatusType ==
  ASSUME SchedType, NEW p, NEW s \in Status
  PROVE  ChangeTaskStatus(p, s) \in [Pids -> Status]
BY TasksArePids DEF ChangeTaskStatus, SchedType

\* A task switch leaves the scheduler's variables well typed.
LEMMA SwitchTaskType ==
  ASSUME SchedType, NEW st, SwitchTask(st), next_pid' = next_pid,
         status' \in [Pids -> Status]
  PROVE  SchedType'
BY TasksArePids DEF SchedType, SwitchTask, Tasks

\* Calls of lock() and unlock() keep frames and labels well typed.
LEMMA CallTypes ==
  ASSUME CallType, NEW t \in Pids, NEW l \in LockIds, NEW r \in LockReturns,
         CallLock(t, l, r) \/ CallUnlock(t, l, r)
  PROVE  CallType'
BY DEF CallType, CallLock, CallUnlock, Goto, Labels, LockLabels

\* So does their return.
LEMMA ReturnType ==
  ASSUME CallType, NEW t \in Pids, Return(t)
  PROVE  CallType'
<1>1. ret[t] \in Labels  BY ReturnLabels DEF CallType
<1>2. "none" \in LockReturns  BY DEF LockReturns
<1> QED  BY <1>1, <1>2 DEF CallType, Return, Goto

\* So does a jump, and a step that does not move any task.
LEMMA GotoType ==
  ASSUME CallType, NEW t \in Pids, NEW l \in Labels, Goto(t, l), UNCHANGED callVars
  PROVE  CallType'
BY DEF CallType, Goto, callVars

\* A queue that lost its head or got one more pid is a queue.
LEMMA QueueOps ==
  ASSUME NEW q \in Seq(Pids), NEW t \in Pids
  PROVE  /\ Append(q, t) \in Seq(Pids)
         /\ q # <<>> => Tail(q) \in Seq(Pids) /\ Head(q) \in Pids
OBVIOUS

LEMMA ShortQueues ==
  <<>> \in Seq(Pids) /\ \A t \in Pids : <<t>> \in Seq(Pids)
OBVIOUS

\* Giving one lock a new queue keeps all of them queues.
LEMMA NewQueueType ==
  ASSUME LockType, NEW l, NEW q, l \in LockIds => q \in Seq(Pids),
         locks' = [locks EXCEPT ![l] = q], master_lock' \in {0, 1}
  PROVE  LockType'
BY DEF LockType

\* A step of lock() or unlock() keeps the types.
LEMMA LockStepType ==
  ASSUME TypeOK, NEW t \in Tasks, LockStep(t)
  PROVE  TypeOK'
<1> USE DEF TypeOK
<1>0. t \in Pids  BY TasksArePids
<1>a. PrintType' /\ KeyType'
  BY DEF LockStep, PrintType, KeyType, printVars, keyVars
<1>l. {"acquire", "check", "release", "spin_wait", "block", "yield_lock", "heap_puts"} \subseteq Labels
  BY DEF Labels, LockLabels
<1>1. CASE SpinLock(t)
  <2>1. CallType'
    BY <1>0, <1>1, <1>l, GotoType DEF SpinLock, Spins, AfterSpin
  <2>2. SchedType' /\ LockType'
    BY <1>1 DEF SpinLock, SchedType, Tasks, LockType
  <2> QED  BY <1>a, <2>1, <2>2
<1>2. CASE Acquire(t)
  <2> DEFINE q == locks[lockid[t]]
  <2>1. SchedType'  BY <1>2 DEF Acquire, SchedType, Tasks
  <2>2. CallType'
    BY <1>0, <1>2, <1>l, GotoType, ReturnType DEF Acquire
  <2>3. lockid[t] \in LockIds => q \in Seq(Pids)  BY DEF LockType
  <2>4. LockType'
    <3>1. CASE UNCHANGED locks  BY <1>2, <3>1 DEF Acquire, LockType
    <3>2. CASE locks' = [locks EXCEPT ![lockid[t]] = <<t>>]
      BY <1>0, <1>2, <3>2, NewQueueType, ShortQueues DEF Acquire
    <3>3. CASE locks' = [locks EXCEPT ![lockid[t]] = Append(q, t)]
      BY <1>0, <1>2, <2>3, <3>3, NewQueueType, QueueOps DEF Acquire
    <3> QED  BY <1>2, <3>1, <3>2, <3>3 DEF Acquire
  <2> QED  BY <1>a, <2>1, <2>2, <2>4
<1>3. CASE Check(t)
  <2>1. SchedType' /\ LockType'  BY <1>3 DEF Check, SchedType, Tasks, LockType
  <2>2. CallType'  BY <1>0, <1>3, <1>l, GotoType, ReturnType DEF Check
  <2> QED  BY <1>a, <2>1, <2>2
<1>4. CASE Block(t)
  <2>1. SchedType'
    BY <1>4, ChangeTaskStatusType DEF Block, SchedType, Tasks, Status
  <2>2. CallType' /\ LockType'
    BY <1>0, <1>4, <1>l, GotoType DEF Block, LockType, lockVars
  <2> QED  BY <1>a, <2>1, <2>2
<1>5. CASE Release(t)
  <2> DEFINE q == locks[lockid[t]]
             own == IF Head(q) = t THEN Tail(q) ELSE q
  <2>1. SchedType'
    BY <1>5, ChangeTaskStatusType DEF Release, SchedType, Tasks, Status
  <2>2. CallType'
    BY <1>0, <1>5, <1>l, GotoType, ReturnType DEF Release, HeapReports
  <2>3. lockid[t] \in LockIds => q \in Seq(Pids)  BY DEF LockType
  <2>4. master_lock' \in {0, 1}  BY <1>5 DEF Release, HeapReports, LockType
  <2>5. LockType'
    <3>1. CASE locks' = [locks EXCEPT ![lockid[t]] = <<>>]
      BY <2>4, <3>1, NewQueueType, ShortQueues
    <3>2. CASE Len(q) > 1 /\ locks' = [locks EXCEPT ![lockid[t]] = own]
      <4>1. lockid[t] \in LockIds => own \in Seq(Pids)
        BY <1>0, <2>3, <3>2, QueueOps
      <4> QED  BY <2>4, <3>2, <4>1, NewQueueType
    <3> QED  BY <1>5, <3>1, <3>2 DEF Release
  <2> QED  BY <1>a, <2>1, <2>2, <2>5
<1> QED
  BY <1>1, <1>2, <1>3, <1>4, <1>5 DEF LockStep

\* A system call, an exception, and what the kernel does for a task outside
\* the locks keep the types.
LEMMA UserStepType ==
  ASSUME TypeOK, NEW t \in Tasks, UserStep(t)
  PROVE  TypeOK'
<1> USE DEF TypeOK
<1>0. t \in Pids  BY TasksArePids
<1>l. /\ {"sysret", "fork", "exec", "exit", "sleep"} \subseteq Labels
      /\ {"puts", "putint", "readline"} \subseteq LockReturns
      /\ {"sysret", "hung"} \subseteq PutsReturns
      /\ Monitor \in LockIds /\ Keyboard \in LockIds
  BY DEF Labels, RestLabels, TaskLabels, LockReturns, PutsReturns, ReadLabels,
         PrintLabels, LockIds
<1>1. SchedType'
  BY DEF UserStep, SysPuts, SysPutint, SysReadline, SysTask, SysOther, SysSleep,
         Fault, EnterKernel, SchedType, Tasks
<1>2. LockType' /\ KeyType'
  BY DEF UserStep, SysPuts, SysPutint, SysReadline, SysTask, SysOther, SysSleep,
         Fault, EnterKernel, LockType, KeyType, lockVars, keyVars
<1>3. CallType'
  BY <1>0, <1>l, CallTypes, GotoType
  DEF UserStep, SysPuts, SysPutint, SysReadline, SysTask, SysOther, SysSleep,
      Fault, CallPuts
<1>4. PrintType'
  BY <1>0, <1>l
  DEF UserStep, SysPuts, SysPutint, SysReadline, SysTask, SysOther, SysSleep,
      Fault, CallPuts, PrintType, printVars
<1> QED  BY <1>1, <1>2, <1>3, <1>4

\* The screen and the keyboard.
LEMMA DeviceStepType ==
  ASSUME TypeOK, NEW t \in Tasks,
         \/ Puts(t) \/ Putchar(t) \/ Putint(t)
         \/ Readline(t) \/ GetChar(t) \/ GotChar(t) \/ ReadlineEnd(t)
  PROVE  TypeOK'
<1> USE DEF TypeOK
<1>0. t \in Pids  BY TasksArePids
<1>l. /\ {"get_char", "got_char", "yield_key"} \subseteq Labels
      /\ {"puts", "get_char", "readline_end", "putchar_puts", "putchar_key",
          "putchar_nl", "sysret"} \subseteq LockReturns
      /\ "putint_end" \in PutsReturns /\ "none" \in PutsReturns
      /\ Monitor \in LockIds /\ Keyboard \in LockIds
  BY DEF Labels, RestLabels, TaskLabels, LockReturns, PutsReturns, ReadLabels,
         PrintLabels, LockIds
<1>1. SchedType'
  BY ChangeTaskStatusType
  DEF Puts, Putchar, Putint, Readline, GetChar, GotChar, ReadlineEnd,
      SchedUnchanged, SchedType, Tasks, Status
<1>2. LockType'
  BY DEF Puts, Putchar, Putint, Readline, GetChar, GotChar, ReadlineEnd,
         LockType, lockVars
<1>3. CallType'
  <2>1. puts_ret[t] \in LockReturns  BY <1>0, ReturnLabels DEF PrintType
  <2>2. CASE Puts(t)  BY <1>0, <1>l, <2>1, <2>2, CallTypes DEF Puts
  <2>3. CASE Putchar(t)
    BY <1>0, <1>l, <2>3, CallTypes DEF Putchar, AfterPutchar
  <2>4. CASE Putint(t)  BY <1>0, <1>l, <2>4, CallTypes DEF Putint, CallPuts
  <2>5. CASE Readline(t)  BY <1>0, <1>l, <2>5, GotoType DEF Readline
  <2>6. CASE GetChar(t)  BY <1>0, <1>l, <2>6, GotoType DEF GetChar
  <2>7. CASE GotChar(t)  BY <1>0, <1>l, <2>7, CallTypes DEF GotChar
  <2>8. CASE ReadlineEnd(t)  BY <1>0, <1>l, <2>8, CallTypes DEF ReadlineEnd
  <2> QED  BY <2>2, <2>3, <2>4, <2>5, <2>6, <2>7, <2>8
<1>4. PrintType'
  BY <1>0, <1>l, LineMaxAssumption
  DEF Puts, Putchar, Putint, Readline, GetChar, GotChar, ReadlineEnd, CallPuts,
      PrintType, printVars
<1>5. KeyType'
  <2>1. locks[Keyboard] # <<>> => Head(locks[Keyboard]) \in Pids
    BY <1>0, <1>l, QueueOps DEF LockType
  <2>2. 0 \in Pids  BY TasksArePids DEF Kernel
  <2> QED
    BY <2>1, <2>2
    DEF Puts, Putchar, Putint, Readline, GetChar, GotChar, ReadlineEnd,
        KeyType, keyVars
<1> QED  BY <1>1, <1>2, <1>3, <1>4, <1>5

\* fork, exec, exit, and the ways out of the kernel.
LEMMA TaskStepType ==
  ASSUME TypeOK, NEW t \in Tasks,
         \/ SysRet(t) \/ SleepCli(t) \/ Fork(t) \/ ForkAdd(t) \/ ForkParent(t)
         \/ Exec(t) \/ ExecDone(t) \/ Exit(t) \/ Yield(t)
  PROVE  TypeOK'
<1> USE DEF TypeOK
<1>0. t \in Pids /\ next_pid - 1 \in Pids  BY TasksArePids
<1>l. /\ {"user", "sysret", "fork_add", "fork_parent", "hlt", "boot", "exec_done",
          "boot_done", "exit", "yield_exit", "exited", "spin_wait", "got_char"}
            \subseteq Labels
      /\ "puts" \in LockReturns
      /\ {"exec_done", "boot_done"} \subseteq PutsReturns
      /\ Monitor \in LockIds
  BY DEF Labels, RestLabels, TaskLabels, LockLabels, LockReturns, PutsReturns,
         ReadLabels, PrintLabels, LockIds
<1>1. SchedType'
  <2>1. CASE SysRet(t) \/ SleepCli(t) \/ Fork(t) \/ Exec(t) \/ ExecDone(t)
    BY <2>1 DEF SysRet, SleepCli, Fork, Exec, ExecDone, SchedUnchanged, SchedType, Tasks
  <2>2. CASE ForkAdd(t)
    BY <2>2, MaxTasksAssumption DEF ForkAdd, AddTask, SchedType, Tasks, Pids, Status
  <2>3. CASE ForkParent(t)  BY <1>0, <2>3 DEF ForkParent, SchedType, Tasks
  <2>4. CASE Exit(t)
    BY <2>4, ChangeTaskStatusType DEF Exit, SchedType, Tasks, Status
  <2>5. CASE Yield(t)
    BY <2>5, SwitchTaskType DEF Yield, SchedType
  <2> QED  BY <2>1, <2>2, <2>3, <2>4, <2>5
<1>2. LockType' /\ KeyType'
  BY DEF SysRet, SleepCli, Fork, ForkAdd, ForkParent, Exec, ExecDone, Exit, Yield,
         LockType, KeyType, lockVars, keyVars
<1>3. CallType'
  <2>1. CASE SysRet(t) \/ SleepCli(t) \/ Fork(t) \/ ForkAdd(t) \/ Exit(t)
    BY <1>0, <1>l, <2>1, GotoType DEF SysRet, SleepCli, Fork, ForkAdd, Exit
  <2>2. CASE ForkParent(t)
    BY <1>0, <1>l, <2>2 DEF ForkParent, CallType, callVars
  <2>3. CASE Exec(t)
    BY <1>0, <1>l, <2>3, GotoType, CallTypes DEF Exec, AfterExec, CallPuts
  <2>4. CASE ExecDone(t)  BY <1>0, <1>l, <2>4, GotoType DEF ExecDone
  <2>5. CASE Yield(t)  BY <1>0, <1>l, <2>5, GotoType DEF Yield, AfterYield
  <2> QED  BY <2>1, <2>2, <2>3, <2>4, <2>5
<1>4. PrintType'
  BY <1>0, <1>l
  DEF SysRet, SleepCli, Fork, ForkAdd, ForkParent, Exec, AfterExec, ExecDone, Exit,
      Yield, CallPuts, PrintType, printVars
<1> QED  BY <1>1, <1>2, <1>3, <1>4

\* The interrupts, and the return from a task switch.
LEMMA InterruptType ==
  ASSUME TypeOK, Tick \/ KeyPress \/ KeyBreak \/ (\E t \in Tasks : Resume(t))
  PROVE  TypeOK'
<1> USE DEF TypeOK
<1>0. current_task \in Pids  BY TasksArePids DEF SchedType
<1>1. SchedType'
  <2>1. CASE Tick
    BY <2>1, SwitchTaskType DEF Tick, TimerTick, SchedType
  <2>2. CASE KeyPress \/ KeyBreak
    <3>1. next_pid' = next_pid /\ status' \in [Pids -> Status]
      BY <2>2, ChangeTaskStatusType DEF KeyPress, KeyBreak, WakeReader, SchedType, Status
    <3>2. CASE SwitchTask(status')  BY <3>1, <3>2, SwitchTaskType
    <3>3. CASE UNCHANGED <<status, current_task, if_saved, returning, iflag>>
      BY <3>1, <3>3 DEF SchedType, Tasks
    <3> QED  BY <2>2, <3>2, <3>3 DEF KeyPress, KeyBreak, WakeReader
  <2>3. CASE \E t \in Tasks : Resume(t)
    BY <1>0, <2>3 DEF Resume, Iret, SchedType, Tasks
  <2> QED  BY <2>1, <2>2, <2>3
<1>2. CallType'
  <2>1. "sleep_cli" \in Labels  BY DEF Labels, RestLabels
  <2>2. CASE WakeHlt /\ UNCHANGED callVars
    BY <1>0, <2>1, <2>2 DEF WakeHlt, CallType, callVars
  <2>3. CASE \E t \in Tasks : Resume(t)
    BY <2>3 DEF Resume, Iret, CallType, callVars
  <2> QED  BY <2>2, <2>3 DEF Tick, TimerTick, KeyPress, KeyBreak, WakeReader
<1>3. LockType' /\ PrintType'
  BY DEF Tick, KeyPress, KeyBreak, WakeReader, Resume, LockType, PrintType,
         lockVars, printVars
<1>4. KeyType'
  BY DEF Tick, KeyPress, KeyBreak, WakeReader, Resume, KeyType, keyVars
<1> QED  BY <1>1, <1>2, <1>3, <1>4

\* The initial state is well typed.
LEMMA InitType == Init => TypeOK
<1> SUFFICES ASSUME Init PROVE TypeOK  OBVIOUS
<1>0. 0 \in Pids /\ 1 \in 1 .. MaxTasks /\ 0 \in 0 .. 1 - 1
  BY MaxTasksAssumption DEF Pids
<1>1. SchedType
  BY <1>0 DEF Init, SchedType, Tasks, Status, Kernel
<1>2. CallType /\ PrintType
  BY LineMaxAssumption
  DEF Init, CallType, PrintType, Labels, RestLabels, TaskLabels, LockReturns,
      PutsReturns, LockIds, NoLock
<1>3. LockType
  BY ShortQueues DEF Init, LockType
<1>4. KeyType
  BY <1>0 DEF Init, KeyType, Keys
<1> QED  BY <1>1, <1>2, <1>3, <1>4 DEF TypeOK

\* Every step keeps the types.
LEMMA NextType == TypeOK /\ [Next]_vars => TypeOK'
<1> SUFFICES ASSUME TypeOK, [Next]_vars PROVE TypeOK'  OBVIOUS
<1>1. CASE UNCHANGED vars
  BY <1>1 DEF vars, schedVars, lockVars, callVars, printVars, keyVars, TypeOK,
     SchedType, CallType, LockType, PrintType, KeyType, Tasks
<1>2. CASE Next
  BY <1>2, LockStepType, UserStepType, DeviceStepType, TaskStepType, InterruptType
  DEF Next, KernelStep
<1> QED  BY <1>1, <1>2

\* Type correctness: whatever programs, the timer and the keyboard do, every
\* variable of the kernel keeps a value of its type.
THEOREM TypeCorrect == Spec => []TypeOK
BY InitType, NextType, PTL DEF Spec

-----------------------------------------------------------------------------
(* Frames *)

\* A step that changes the frame of one task only.
Local(t) ==
  \A u \in Pids \ {t} :
    /\ pc'[u] = pc[u] /\ lockid'[u] = lockid[u] /\ ret'[u] = ret[u]
    /\ puts_ret'[u] = puts_ret[u]

LEMMA FramesLocal ==
  ASSUME Frames, NEW t \in Pids, Local(t), Frame(t)'
  PROVE  Frames'
BY DEF Frames, Frame, Local

\* lock() and unlock() keep the frame of their caller.
LEMMA LockStepFrame ==
  ASSUME TypeOK, Frames, NEW t \in Tasks, LockStep(t)
  PROVE  Frames'
<1>0. t \in Pids /\ Frame(t)  BY TasksArePids DEF TypeOK, Frames
<1> USE DEF TypeOK, CallType, PrintType
<1>1. Local(t)
  BY <1>0 DEF LockStep, SpinLock, Acquire, Check, Block, Release, HeapReports, Return,
     Goto, callVars, printVars, Local
<1>2. puts_ret' = puts_ret  BY DEF LockStep, printVars
<1> DEFINE Stays ==
      /\ UNCHANGED callVars
      /\ pc'[t] = "heap_puts" => HeapPrints
      /\ \/ pc[t] \in AcquireLabels /\ pc'[t] \in AcquireLabels
         \/ pc[t] \in ReleaseLabels /\ pc'[t] \in ReleaseLabels
<1>3. ASSUME Return(t) PROVE Frame(t)'
  BY <1>0, <1>2, <1>3 DEF Return, Goto, Frame, LockReturns, ReadLabels, PrintLabels, LockLabels
<1>4. ASSUME Stays PROVE Frame(t)'
  BY <1>0, <1>2, <1>4 DEF Frame, callVars, LockLabels, AcquireLabels, ReleaseLabels
<1>5. Return(t) \/ Stays
  <2>1. CASE SpinLock(t)
    BY <1>0, <2>1 DEF SpinLock, Spins, AfterSpin, At, Goto, callVars, AcquireLabels, ReleaseLabels
  <2>2. CASE Acquire(t)
    BY <1>0, <2>2 DEF Acquire, At, Goto, callVars, AcquireLabels
  <2>3. CASE Check(t)
    BY <1>0, <2>3 DEF Check, At, Goto, callVars, AcquireLabels
  <2>4. CASE Block(t)
    BY <1>0, <2>4 DEF Block, At, Goto, callVars, AcquireLabels
  <2>5. CASE Release(t)
    BY <1>0, <2>5 DEF Release, HeapReports, At, Goto, callVars, ReleaseLabels
  <2> QED  BY <2>1, <2>2, <2>3, <2>4, <2>5 DEF LockStep
<1> QED  BY <1>0, <1>1, <1>3, <1>4, <1>5, FramesLocal

\* Steps that call lock() or unlock() leave the frame the call needs.
LEMMA CallFrame ==
  ASSUME TypeOK, NEW t \in Pids, NEW r, puts_ret \in [Pids -> PutsReturns],
         \/ CallLock(t, Monitor, r) /\ r \in PrintLabels
         \/ CallLock(t, Keyboard, r) /\ r = "readline"
         \/ CallUnlock(t, Monitor, r) /\ r \notin {"none", "readline"}
         \/ CallUnlock(t, Keyboard, r) /\ r = "sysret",
         r \in {"puts", "putchar_puts"} => puts_ret'[t] # "none"
  PROVE  Frame(t)'
BY DEF TypeOK, CallType, CallLock, CallUnlock, Goto, Frame, LockLabels, AcquireLabels,
       ReleaseLabels

\* A jump between labels outside lock(), unlock() and puts() leaves no frame.
LEMMA GotoFrame ==
  ASSUME TypeOK, NEW t \in Pids, Frame(t), NEW l, Goto(t, l), UNCHANGED callVars,
         pc[t] \notin LockLabels, l \notin LockLabels \union {"puts", "putchar_puts"}
  PROVE  Frame(t)'
BY DEF TypeOK, CallType, Goto, Frame, callVars, LockLabels

\* A system call starts with the frame of its first call.
LEMMA UserStepFrame ==
  ASSUME TypeOK, Frames, NEW t \in Tasks, UserStep(t)
  PROVE  Frames'
<1>0. t \in Pids /\ Frame(t)  BY TasksArePids DEF TypeOK, Frames
<1>1. Local(t)
  BY <1>0
  DEF UserStep, SysPuts, SysPutint, SysReadline, SysTask, SysOther, SysSleep, Fault,
      CallPuts, CallLock, Goto, callVars, printVars, Local, TypeOK, CallType, PrintType
<1>2. Frame(t)'
  <2>1. CASE SysPuts(t) \/ Fault(t)
    <3>1. CallLock(t, Monitor, "puts") /\ puts_ret'[t] # "none" /\ "puts" \in PrintLabels
      BY <1>0, <2>1 DEF SysPuts, Fault, CallPuts, PrintLabels, TypeOK, PrintType
    <3> QED  BY <1>0, <3>1, CallFrame DEF TypeOK, PrintType
  <2>2. CASE SysPutint(t)
    BY <1>0, <2>2, CallFrame DEF SysPutint, PrintLabels, TypeOK, PrintType
  <2>3. CASE SysReadline(t)
    BY <1>0, <2>3, CallFrame DEF SysReadline, TypeOK, PrintType
  <2>4. CASE SysTask(t) \/ SysOther(t) \/ SysSleep(t)
    BY <1>0, <2>4, GotoFrame
    DEF SysTask, SysOther, SysSleep, EnterKernel, At, callVars, LockLabels
  <2> QED  BY <2>1, <2>2, <2>3, <2>4 DEF UserStep
<1> QED  BY <1>0, <1>1, <1>2, FramesLocal

\* The screen and the keyboard call the locks in proper frames.
LEMMA DeviceStepFrame ==
  ASSUME TypeOK, Frames, NEW t \in Tasks,
         \/ Puts(t) \/ Putchar(t) \/ Putint(t)
         \/ Readline(t) \/ GetChar(t) \/ GotChar(t) \/ ReadlineEnd(t)
  PROVE  Frames'
<1>0. t \in Pids /\ Frame(t)  BY TasksArePids DEF TypeOK, Frames
<1>a. puts_ret \in [Pids -> PutsReturns]  BY DEF TypeOK, PrintType
<1>1. Local(t)
  BY <1>0
  DEF Puts, Putchar, Putint, Readline, GetChar, GotChar, ReadlineEnd, CallPuts,
      CallLock, CallUnlock, Goto, callVars, printVars, Local, TypeOK, CallType, PrintType
<1>2. Frame(t)'
  <2>1. CASE Puts(t)
    <3>1. puts_ret[t] \notin {"none", "readline"}
      BY <1>0, <1>a, <2>1 DEF Puts, At, Frame, PutsReturns
    <3>2. puts_ret[t] \notin {"puts", "putchar_puts"}
      BY <1>0, <1>a DEF PutsReturns
    <3>3. CASE CallLock(t, Monitor, "putchar_puts") /\ UNCHANGED puts_ret
      BY <1>0, <1>a, <3>1, <3>3, CallFrame DEF PrintLabels
    <3>4. CASE CallUnlock(t, Monitor, puts_ret[t])
      BY <1>0, <1>a, <3>1, <3>2, <3>4, CallFrame
    <3> QED  BY <2>1, <3>3, <3>4 DEF Puts
  <2>2. CASE Putchar(t)
    <3>1. PICK l \in DOMAIN AfterPutchar :
            At(t, l) /\ CallUnlock(t, Monitor, AfterPutchar[l])
      BY <2>2 DEF Putchar
    <3>2. puts_ret' = puts_ret  BY <2>2 DEF Putchar, printVars
    <3>3. /\ AfterPutchar[l] \notin {"none", "readline"}
          /\ AfterPutchar[l] \in {"puts", "putchar_puts"} => puts_ret[t] # "none"
      BY <1>0, <3>1 DEF AfterPutchar, At, Frame
    <3> QED  BY <1>0, <1>a, <3>1, <3>2, <3>3, CallFrame
  <2>3. CASE Putint(t)
    <3>1. CASE CallPuts(t, "putint_end")
      <4>1. CallLock(t, Monitor, "puts") /\ puts_ret'[t] # "none" /\ "puts" \in PrintLabels
        BY <1>0, <1>a, <3>1 DEF CallPuts, PrintLabels
      <4> QED  BY <1>0, <1>a, <4>1, CallFrame
    <3>2. CASE CallUnlock(t, Monitor, "sysret")
      BY <1>0, <1>a, <3>2, CallFrame
    <3> QED  BY <2>3, <3>1, <3>2 DEF Putint
  <2>4. CASE Readline(t) \/ GetChar(t)
    BY <1>0, <2>4, GotoFrame DEF Readline, GetChar, At, callVars, LockLabels
  <2>5. CASE GotChar(t)
    BY <1>0, <1>a, <2>5, CallFrame DEF GotChar, PrintLabels
  <2>6. CASE ReadlineEnd(t)
    BY <1>0, <1>a, <2>6, CallFrame DEF ReadlineEnd
  <2> QED  BY <2>1, <2>2, <2>3, <2>4, <2>5, <2>6
<1> QED  BY <1>0, <1>1, <1>2, FramesLocal

\* fork, exec, exit, and the ways out of the kernel.
LEMMA TaskStepFrame ==
  ASSUME TypeOK, Frames, Unborn, NEW t \in Tasks,
         \/ SysRet(t) \/ SleepCli(t) \/ Fork(t) \/ ForkAdd(t) \/ ForkParent(t)
         \/ Exec(t) \/ ExecDone(t) \/ Exit(t) \/ Yield(t)
  PROVE  Frames'
<1>0. t \in Pids /\ Frame(t)  BY TasksArePids DEF TypeOK, Frames
<1>a. puts_ret \in [Pids -> PutsReturns]  BY DEF TypeOK, PrintType
<1>1. CASE ForkParent(t)
  <2> DEFINE child == next_pid - 1
  <2>1. child \in Pids /\ pc[child] = "none" /\ pc[t] = "fork_parent"
    BY <1>1, TasksArePids DEF ForkParent, At, TypeOK, Unborn
  <2>2. UNCHANGED <<lockid, ret, puts_ret>>
    BY <1>1 DEF ForkParent, callVars, printVars
  <2>3. /\ pc'[t] \in {"hlt", "sysret"} /\ pc'[child] \in {"boot", "sysret"}
        /\ \A u \in Pids \ {t, child} : pc'[u] = pc[u]
    BY <1>0, <1>1, <2>1 DEF ForkParent, TypeOK, CallType
  <2>4. ASSUME NEW u \in Pids PROVE Frame(u)'
    BY <1>0, <2>1, <2>2, <2>3 DEF Frames, Frame, LockLabels
  <2> QED  BY <2>4 DEF Frames
<1>2. CASE Exec(t)
  <2>1. Local(t)
    BY <1>0, <1>2 DEF Exec, CallPuts, CallLock, Goto, callVars, printVars, Local,
       TypeOK, CallType, PrintType
  <2>2. PICK l \in DOMAIN AfterExec :
           /\ At(t, l)
           /\ \/ CallPuts(t, AfterExec[l])
              \/ Goto(t, AfterExec[l]) /\ UNCHANGED <<callVars, printVars>>
    BY <1>2 DEF Exec
  <2>3. CASE CallPuts(t, AfterExec[l])
    <3>1. CallLock(t, Monitor, "puts") /\ puts_ret'[t] # "none" /\ "puts" \in PrintLabels
      BY <1>0, <1>a, <2>3 DEF CallPuts, PrintLabels, AfterExec
    <3>2. Frame(t)'  BY <1>0, <1>a, <3>1, CallFrame
    <3> QED  BY <1>0, <2>1, <3>2, FramesLocal
  <2>4. CASE Goto(t, AfterExec[l]) /\ UNCHANGED callVars
    <3>1. Frame(t)'
      BY <1>0, <2>2, <2>4, GotoFrame DEF AfterExec, At, LockLabels
    <3> QED  BY <1>0, <2>1, <3>1, FramesLocal
  <2> QED  BY <2>2, <2>3, <2>4 DEF callVars
<1>3. CASE Yield(t)
  <2>1. Local(t)
    BY <1>0, <1>3 DEF Yield, Goto, callVars, printVars, Local, TypeOK, CallType
  <2>2. UNCHANGED callVars /\ UNCHANGED puts_ret  BY <1>3 DEF Yield, callVars, printVars
  <2>3. \/ pc[t] = "yield_lock" /\ pc'[t] = "spin_wait"
        \/ pc[t] = "yield_key" /\ pc'[t] = "got_char"
        \/ pc[t] = "yield_exit" /\ pc'[t] = "exited"
    BY <1>0, <1>3 DEF Yield, AfterYield, At, Goto, TypeOK, CallType
  <2>4. Frame(t)'
    BY <1>0, <2>2, <2>3 DEF Frame, callVars, LockLabels, AcquireLabels, ReleaseLabels
  <2> QED  BY <1>0, <2>1, <2>4, FramesLocal
<1>4. CASE SysRet(t) \/ SleepCli(t) \/ Fork(t) \/ ForkAdd(t) \/ ExecDone(t) \/ Exit(t)
  <2>1. Local(t)
    BY <1>0, <1>4
    DEF SysRet, SleepCli, Fork, ForkAdd, ExecDone, Exit, Goto, callVars, printVars,
        Local, TypeOK, CallType
  <2>2. Frame(t)'
    BY <1>0, <1>4, GotoFrame
    DEF SysRet, SleepCli, Fork, ForkAdd, ExecDone, Exit, At, callVars, LockLabels
  <2> QED  BY <1>0, <2>1, <2>2, FramesLocal
<1> QED  BY <1>1, <1>2, <1>3, <1>4

\* Interrupts leave the frames alone.
LEMMA InterruptFrame ==
  ASSUME TypeOK, Frames,
         Tick \/ KeyPress \/ KeyBreak \/ (\E t \in Tasks : Resume(t))
  PROVE  Frames'
<1>1. UNCHANGED <<lockid, ret, puts_ret>>
  BY DEF Tick, KeyPress, KeyBreak, WakeReader, Resume, callVars, printVars
<1>2. \A u \in Pids : pc'[u] = pc[u] \/ (pc[u] = "sleep" /\ pc'[u] = "sleep_cli")
  BY DEF Tick, TimerTick, KeyPress, KeyBreak, WakeReader, WakeHlt, Resume, Iret,
         TypeOK, CallType
<1>3. ASSUME NEW u \in Pids PROVE Frame(u)'
  BY <1>1, <1>2 DEF Frames, Frame, LockLabels
<1> QED  BY <1>3 DEF Frames

LEMMA NextFrames ==
  ASSUME TypeOK, Frames, Unborn, Next PROVE Frames'
BY LockStepFrame, UserStepFrame, DeviceStepFrame, TaskStepFrame, InterruptFrame
   DEF Next, KernelStep

-----------------------------------------------------------------------------
(* Preemption *)

\* pid 0 is a task, and it never calls lock(): only the others have a frame.
LEMMA NotKernel ==
  ASSUME TypeOK, KernelTask
  PROVE  /\ Kernel \in Tasks
         /\ pc[Kernel] \in {"fork", "fork_add", "fork_parent", "hlt"}
         /\ next_pid \in Nat /\ next_pid >= 1
BY DEF TypeOK, SchedType, Tasks, Kernel, KernelTask

\* The steps of the executing task that move only itself, to a label l, and
\* neither create a task nor give up the CPU.
LEMMA LocalPreemption ==
  ASSUME TypeOK, PreemptionInv, NEW t \in Tasks, Executing(t),
         NEW l \in Labels \ {"none", "fork_add", "fork_parent"}, Goto(t, l),
         UNCHANGED <<next_pid, current_task, returning, if_saved>>,
         pc[t] \notin {"fork", "fork_add", "fork_parent", "hlt"},
         next_pid >= 3 /\ iflag' => l \in Open,
         master_lock' = 1 => \/ l \in HoldsMaster
                             \/ master_lock = 1 /\ pc[t] \notin HoldsMaster
  PROVE  PreemptionInv'
<1> USE DEF PreemptionInv
<1>0. t \in Pids /\ Kernel \in Pids /\ t # Kernel /\ Kernel \in Tasks
  BY TasksArePids, NotKernel DEF TypeOK
<1>1. pc'[t] = l /\ \A u \in Pids \ {t} : pc'[u] = pc[u]
  BY <1>0 DEF Goto, TypeOK, CallType
<1>2. Tasks' = Tasks /\ Tasks \subseteq Pids  BY TasksArePids DEF Tasks, TypeOK
<1>3. \A u \in Tasks : Executing(u)' <=> u = t
  BY DEF Executing
<1>4. ForkMasked'
  BY <1>0, <1>1, <1>2 DEF ForkMasked, Executing
<1>5. KernelTask'  BY <1>0, <1>1 DEF KernelTask
<1>6. Unborn'
  BY <1>0, <1>1, <1>2, TasksArePids DEF Unborn, Executing, TypeOK
<1>7. Parked'  BY <1>0, <1>1, <1>2, <1>3 DEF Parked, Executing
<1>8. Masked'  BY <1>1 DEF Masked, Executing
<1>9. MasterHeld'
  BY <1>0, <1>1, <1>2 DEF MasterHeld
<1> QED  BY <1>4, <1>5, <1>6, <1>7, <1>8, <1>9

\* The executing task gives up the CPU at a label where it may.
LEMMA SwitchPreemption ==
  ASSUME TypeOK, PreemptionInv, NEW st, SwitchTask(st),
         next_pid' = next_pid, pc' \in [Pids -> Labels],
         \A u \in Pids \ {current_task} : pc'[u] = pc[u],
         pc[current_task] \notin {"none", "fork_add", "fork_parent"},
         pc'[current_task] \notin {"none", "fork_add", "fork_parent"},
         current_task = Kernel => pc'[Kernel] = pc[Kernel],
         pc'[current_task] \in HoldsMaster <=> pc[current_task] \in HoldsMaster,
         next_pid >= 3 =>
           \/ pc'[current_task] \in Open
           \/ /\ pc'[current_task] \in {"spin_wait", "got_char"}
              /\ IF returning THEN ~if_saved[current_task] ELSE ~iflag,
         UNCHANGED master_lock
  PROVE  PreemptionInv'
<1> USE DEF PreemptionInv
<1>0. current_task \in Tasks /\ current_task \in Pids /\ Kernel \in Pids
  BY TasksArePids DEF TypeOK, SchedType
<1>2. Tasks' = Tasks /\ Tasks \subseteq Pids  BY TasksArePids DEF Tasks, TypeOK
<1>3. returning' /\ \A u \in Tasks : ~Executing(u)'
  BY DEF SwitchTask, Executing
<1>4. \A u \in Tasks : pc[u] \notin {"none", "fork_add", "fork_parent"}
  BY <1>0 DEF ForkMasked, Unborn, Executing
<1>5. ForkMasked'  BY <1>0, <1>2, <1>4 DEF ForkMasked
<1>6. KernelTask'  BY <1>0 DEF KernelTask
<1>7. Unborn'  BY <1>0, <1>2, <1>4 DEF Unborn
<1>8. Parked'
  <2> SUFFICES ASSUME next_pid >= 3, NEW u \in Tasks
               PROVE  \/ pc'[u] \in Open
                      \/ pc'[u] \in {"spin_wait", "got_char"} /\ ~if_saved'[u]
    BY <1>2 DEF Parked
  <2>1. CASE u = current_task
    BY <1>0, <2>1 DEF SwitchTask, TypeOK, SchedType
  <2>2. CASE u # current_task
    BY <1>0, <1>2, <1>4, <2>2 DEF SwitchTask, Parked, Executing, TypeOK, SchedType
  <2> QED  BY <2>1, <2>2
<1>9. Masked'  BY <1>3 DEF Masked
<1>10. MasterHeld'  BY <1>0, <1>2 DEF MasterHeld
<1> QED  BY <1>5, <1>6, <1>7, <1>8, <1>9, <1>10

\* In particular a step that leaves IF alone, from a label that is not open.
LEMMA MaskedStep ==
  ASSUME TypeOK, PreemptionInv, NEW t \in Tasks, NEW k, At(t, k),
         k \notin Open \union {"fork", "fork_add", "fork_parent"},
         NEW l \in Labels \ {"none", "fork_add", "fork_parent"}, Goto(t, l),
         UNCHANGED <<next_pid, current_task, iflag, returning, if_saved>>,
         master_lock' = 1 => \/ l \in HoldsMaster
                             \/ master_lock = 1 /\ k \notin HoldsMaster
  PROVE  PreemptionInv'
<1>1. Executing(t) /\ pc[t] = k  BY DEF At, Executing
<1>2. next_pid >= 3 => ~iflag'  BY <1>1 DEF PreemptionInv, Masked, Executing
<1>3. k # "hlt"  BY DEF Open
<1> QED  BY <1>1, <1>2, <1>3, LocalPreemption

\* lock() and unlock().
LEMMA LockStepPreemption ==
  ASSUME TypeOK, Frames, PreemptionInv, NEW t \in Tasks, LockStep(t)
  PROVE  PreemptionInv'
<1>0. t \in Pids /\ Frame(t)  BY TasksArePids DEF TypeOK, Frames
<1>1. pc[t] \in LockLabels => ret[t] \in Labels \ {"none", "fork_add", "fork_parent"}
  BY <1>0 DEF Frame, TypeOK, CallType, LockReturns, Labels, LockLabels, PrintLabels,
     ReadLabels, RestLabels, TaskLabels
<1>2. /\ {"acquire", "check", "release", "spin_wait", "block", "yield_lock", "heap_puts"}
           \subseteq Labels \ {"none", "fork_add", "fork_parent"}
      /\ \A k \in LockLabels : k \notin Open \union {"fork", "fork_add", "fork_parent"}
  BY DEF Labels, LockLabels, Open
<1>3. CASE SpinLock(t)
  <2>1. PICK k \in Spins : At(t, k) /\ Goto(t, AfterSpin[k])  BY <1>3 DEF SpinLock
  <2>2. AfterSpin[k] \in {"acquire", "check", "release"} /\ k \in LockLabels
    BY DEF AfterSpin, Spins, LockLabels
  <2> QED
    BY <1>2, <1>3, <2>1, <2>2, MaskedStep DEF SpinLock, HoldsMaster
<1>4. CASE Acquire(t)
  <2>1. At(t, "acquire") /\ "acquire" \in LockLabels /\ pc[t] = "acquire"
    BY <1>4 DEF Acquire, At, LockLabels
  <2>2. (Goto(t, ret[t]) \/ Goto(t, "spin_wait")) /\ master_lock' = 0
    BY <1>4 DEF Acquire, Return
  <2> QED  BY <1>1, <1>2, <1>4, <2>1, <2>2, MaskedStep DEF Acquire
<1>5. CASE Check(t)
  <2>1. At(t, "check") /\ "check" \in LockLabels /\ pc[t] = "check"
    BY <1>5 DEF Check, At, LockLabels
  <2>2. (Goto(t, ret[t]) \/ Goto(t, "block")) /\ master_lock' = 0
    BY <1>5 DEF Check, Return
  <2> QED  BY <1>1, <1>2, <1>5, <2>1, <2>2, MaskedStep DEF Check
<1>6. CASE Block(t)
  <2>1. At(t, "block") /\ "block" \in LockLabels /\ "block" \notin HoldsMaster
    BY <1>6 DEF Block, LockLabels, HoldsMaster
  <2> QED  BY <1>2, <1>6, <2>1, MaskedStep DEF Block, lockVars
<1>7. CASE Release(t)
  <2>1. At(t, "release") /\ "release" \in LockLabels /\ pc[t] = "release"
    BY <1>7 DEF Release, At, LockLabels
  <2>2. \/ Goto(t, ret[t]) /\ master_lock' = 0
        \/ Goto(t, "heap_puts")
    BY <1>7 DEF Release, Return, HeapReports
  <2> QED  BY <1>1, <1>2, <1>7, <2>1, <2>2, MaskedStep DEF Release, HoldsMaster
<1> QED  BY <1>3, <1>4, <1>5, <1>6, <1>7 DEF LockStep

\* System calls clear IF; only sleep leaves it set, and may.
LEMMA UserStepPreemption ==
  ASSUME TypeOK, PreemptionInv, NEW t \in Tasks, UserStep(t)
  PROVE  PreemptionInv'
<1>1. Executing(t) /\ pc[t] = "user"
  BY DEF UserStep, SysPuts, SysPutint, SysReadline, SysTask, SysOther, SysSleep, Fault,
         EnterKernel, At, Executing
<1>2. UNCHANGED <<next_pid, current_task, returning, if_saved, master_lock>>
  BY DEF UserStep, SysPuts, SysPutint, SysReadline, SysTask, SysOther, SysSleep, Fault,
         EnterKernel, lockVars
<1>3. PICK l \in {"spin_acquire", "fork", "exec", "exit", "sysret", "sleep"} :
        Goto(t, l) /\ (iflag' => l = "sleep")
  BY DEF UserStep, SysPuts, SysPutint, SysReadline, SysTask, SysOther, SysSleep, Fault,
         EnterKernel, CallPuts, CallLock
<1>4. l \in Labels \ {"none", "fork_add", "fork_parent"}
  BY DEF Labels, LockLabels, RestLabels, TaskLabels
<1> QED
  BY <1>1, <1>2, <1>3, <1>4, LocalPreemption DEF Open, HoldsMaster

\* The screen and the keyboard.
LEMMA DeviceStepPreemption ==
  ASSUME TypeOK, PreemptionInv, NEW t \in Tasks,
         \/ Puts(t) \/ Putchar(t) \/ Putint(t)
         \/ Readline(t) \/ GetChar(t) \/ GotChar(t) \/ ReadlineEnd(t)
  PROVE  PreemptionInv'
<1>1. PICK k \in ReadLabels \union PrintLabels : At(t, k)
  BY DEF Puts, Putchar, AfterPutchar, Putint, Readline, GetChar, GotChar, ReadlineEnd,
         ReadLabels, PrintLabels
<1>2. UNCHANGED <<next_pid, current_task, iflag, returning, if_saved, master_lock>>
  BY DEF Puts, Putchar, Putint, Readline, GetChar, GotChar, ReadlineEnd,
         SchedUnchanged, lockVars
<1>3. PICK l \in {"spin_acquire", "spin_release", "get_char", "got_char", "yield_key"} :
        Goto(t, l)
  BY DEF Puts, Putchar, Putint, Readline, GetChar, GotChar, ReadlineEnd,
         CallPuts, CallLock, CallUnlock
<1>4. /\ l \in Labels \ {"none", "fork_add", "fork_parent"}
      /\ k \notin Open \union {"fork", "fork_add", "fork_parent"} \union HoldsMaster
  BY DEF Labels, LockLabels, ReadLabels, PrintLabels, Open, HoldsMaster
<1> QED
  BY <1>1, <1>2, <1>3, <1>4, MaskedStep

\* exec, exit and the ways out of the kernel.
LEMMA ExecStepPreemption ==
  ASSUME TypeOK, PreemptionInv, NEW t \in Tasks,
         SysRet(t) \/ SleepCli(t) \/ Exec(t) \/ ExecDone(t) \/ Exit(t)
  PROVE  PreemptionInv'
<1>l. {"user", "sysret", "spin_acquire", "exec_done", "boot_done", "exit", "yield_exit"}
        \subseteq Labels \ {"none", "fork_add", "fork_parent"}
  BY DEF Labels, LockLabels, RestLabels, TaskLabels
<1>2. UNCHANGED <<next_pid, current_task, returning, if_saved, master_lock>>
  BY DEF SysRet, SleepCli, Exec, ExecDone, Exit, SchedUnchanged, lockVars
<1>3. CASE SysRet(t)
  BY <1>l, <1>2, <1>3, LocalPreemption DEF SysRet, At, Executing, Open, HoldsMaster
<1>4. CASE SleepCli(t)
  BY <1>l, <1>2, <1>4, LocalPreemption DEF SleepCli, At, Executing, Open, HoldsMaster
<1>5. CASE Exit(t)
  BY <1>l, <1>2, <1>5, LocalPreemption DEF Exit, At, Executing, Open, HoldsMaster
<1>6. CASE Exec(t)
  <2>1. PICK k \in {"exec", "boot"} : At(t, k)  BY <1>6 DEF Exec, AfterExec
  <2>2. PICK l \in {"spin_acquire", "exec_done", "boot_done"} : Goto(t, l)
    BY <1>6 DEF Exec, AfterExec, CallPuts, CallLock
  <2>3. iflag' = iflag  BY <1>6 DEF Exec, SchedUnchanged
  <2>4. k \notin Open \union {"fork", "fork_add", "fork_parent"} \union HoldsMaster
    BY DEF Open, HoldsMaster
  <2> QED  BY <1>l, <1>2, <2>1, <2>2, <2>3, <2>4, MaskedStep
<1>7. CASE ExecDone(t)
  <2>1. PICK k \in {"exec_done", "boot_done"} : At(t, k)  BY <1>7 DEF ExecDone
  <2>2. CASE Goto(t, "user")
    BY <1>l, <1>2, <2>1, <2>2, LocalPreemption DEF At, Executing, Open, HoldsMaster
  <2>3. CASE UNCHANGED iflag /\ (Goto(t, "sysret") \/ Goto(t, "exit"))
    BY <1>l, <1>2, <2>1, <2>3, MaskedStep DEF Open, HoldsMaster
  <2> QED  BY <1>7, <2>2, <2>3 DEF ExecDone
<1> QED  BY <1>3, <1>4, <1>5, <1>6, <1>7

\* fork masks interrupts before the child is in the list, and unmasks them when
\* the child has an entry point.
LEMMA ForkPreemption ==
  ASSUME TypeOK, PreemptionInv, NEW t \in Tasks, Fork(t) \/ ForkAdd(t) \/ ForkParent(t)
  PROVE  PreemptionInv'
<1> USE DEF PreemptionInv
<1>0. /\ t \in Pids /\ Kernel \in Pids /\ Kernel \in Tasks /\ t \in Nat /\ Kernel = 0
      /\ next_pid \in Nat /\ next_pid >= 1 /\ Tasks \subseteq Pids
      /\ pc[Kernel] \in {"fork", "fork_add", "fork_parent", "hlt"}
  BY TasksArePids, NotKernel DEF TypeOK, Tasks, Kernel
<1>1. current_task = t /\ ~returning /\ ~returning' /\ current_task' = t
  BY DEF Fork, ForkAdd, ForkParent, At
<1>a. \A u \in Tasks : Executing(u) <=> u = t
  BY <1>1 DEF Executing
<1>2. CASE Fork(t)
  <2>1. pc[t] = "fork" /\ pc'[t] = "fork_add" /\ \A u \in Pids \ {t} : pc'[u] = pc[u]
    BY <1>0, <1>2 DEF Fork, At, Goto, TypeOK, CallType
  <2>2. ~iflag' /\ UNCHANGED <<next_pid, master_lock, if_saved>> /\ Tasks' = Tasks
    BY <1>2 DEF Fork, lockVars, Tasks
  <2>3. \A u \in Tasks : Executing(u)' <=> u = t  BY <1>1 DEF Executing
  <2>4. ForkMasked'  BY <1>0, <1>a, <2>1, <2>2, <2>3 DEF ForkMasked
  <2>5. KernelTask'  BY <1>0, <2>1, <2>2 DEF KernelTask
  <2>6. Unborn'  BY <1>0, <1>1, <2>1, <2>2, TasksArePids DEF Unborn, TypeOK
  <2>7. Parked'  BY <1>0, <1>a, <2>1, <2>2, <2>3 DEF Parked
  <2>8. Masked'  BY <2>2 DEF Masked
  <2>9. MasterHeld'  BY <1>0, <2>1, <2>2 DEF MasterHeld, HoldsMaster
  <2> QED  BY <2>4, <2>5, <2>6, <2>7, <2>8, <2>9
<1>3. CASE ForkAdd(t)
  <2>1. pc[t] = "fork_add" /\ pc'[t] = "fork_parent" /\ \A u \in Pids \ {t} : pc'[u] = pc[u]
    BY <1>0, <1>3 DEF ForkAdd, At, Goto, TypeOK, CallType
  <2>2. /\ ~iflag' /\ UNCHANGED <<master_lock, if_saved>>
        /\ next_pid' = next_pid + 1 /\ next_pid < MaxTasks
    BY <1>3, <2>1 DEF ForkAdd, AddTask, lockVars, ForkMasked
  <2>3. Tasks' = Tasks \union {next_pid} /\ next_pid \notin Tasks /\ next_pid \in Pids
        /\ Tasks' \subseteq Pids
    BY <1>0, <2>2, MaxTasksAssumption DEF Tasks, Pids
  <2>4. pc[next_pid] = "none" /\ pc'[next_pid] = "none" /\ t # next_pid
    BY <2>1, <2>3 DEF Unborn
  <2>5. \A u \in Tasks : pc[u] # "none"  BY <1>1, <2>1 DEF Unborn
  <2>6. next_pid >= 2 => pc[Kernel] = "hlt" \/ t = Kernel
    BY <1>0, <1>a DEF ForkMasked, KernelTask
  <2>7. t = Kernel => next_pid = 1  BY <1>0, <2>1 DEF KernelTask
  <2>8. ForkMasked'
    BY <1>0, <1>1, <1>a, <2>1, <2>2, <2>3, <2>4 DEF ForkMasked, Executing
  <2>n. next_pid = 1 => t = Kernel  BY <1>0 DEF Tasks
  <2>9. KernelTask'
    <3>1. CASE next_pid = 1
      <4>1. t = Kernel /\ next_pid' = 2  BY <2>2, <2>n, <3>1
      <4> QED  BY <2>1, <4>1 DEF KernelTask
    <3>2. CASE next_pid >= 2
      <4>1. t # Kernel /\ next_pid' >= 3  BY <1>0, <2>2, <2>7, <3>2
      <4> QED  BY <1>0, <2>1, <2>6, <3>2, <4>1 DEF KernelTask
    <3> QED  BY <1>0, <3>1, <3>2
  <2>10. Unborn'
    BY <1>0, <1>1, <1>a, <2>1, <2>2, <2>3, <2>4, <2>5 DEF Unborn, ForkMasked
  <2>11. Parked'
    <3> SUFFICES ASSUME next_pid >= 2, NEW u \in Tasks', u # t
                 PROVE  \/ pc'[u] \in Open \union {"none"}
                        \/ pc'[u] \in {"spin_wait", "got_char"} /\ ~if_saved'[u]
      BY <1>0, <1>1, <2>2 DEF Parked, Executing
    <3>1. CASE u = next_pid  BY <2>4, <3>1
    <3>2. CASE u = Kernel
      BY <1>0, <2>1, <2>6, <2>7, <3>2 DEF Open
    <3>3. CASE u \in Tasks /\ next_pid >= 3
      BY <1>a, <2>1, <2>2, <2>3, <3>3 DEF Parked
    <3>4. CASE u \in Tasks /\ u # Kernel /\ next_pid = 2
      BY <1>0, <2>7, <3>4 DEF Tasks
    <3> QED  BY <1>0, <2>3, <3>1, <3>2, <3>3, <3>4
  <2>12. Masked'  BY <2>2 DEF Masked
  <2>13. MasterHeld'  BY <1>0, <2>1, <2>2, <2>3 DEF MasterHeld, HoldsMaster
  <2> QED  BY <2>8, <2>9, <2>10, <2>11, <2>12, <2>13
<1>4. CASE ForkParent(t)
  <2> DEFINE child == next_pid - 1
  <2>1. pc[t] = "fork_parent" /\ pc[child] = "none" /\ child \in Tasks /\ child # t
    BY <1>0, <1>4 DEF ForkParent, At, Unborn, Tasks
  <2>2. /\ pc'[t] = (IF t = Kernel THEN "hlt" ELSE "sysret")
        /\ pc'[child] = (IF t = Kernel THEN "boot" ELSE "sysret")
        /\ \A u \in Pids \ {t, child} : pc'[u] = pc[u]
    BY <1>0, <1>4, <2>1 DEF ForkParent, TypeOK, CallType
  <2>3. /\ UNCHANGED <<next_pid, master_lock>> /\ Tasks' = Tasks
        /\ \A u \in Tasks \ {child} : if_saved'[u] = if_saved[u]
    BY <1>0, <1>4 DEF ForkParent, lockVars, Tasks, TypeOK, SchedType
  <2>4. t = Kernel => next_pid = 2
    BY <1>0, <2>1 DEF KernelTask
  <2>5. \A u \in Tasks : u # child => pc[u] # "none"
    BY DEF Unborn
  <2>6. \A u \in Tasks : Executing(u)' <=> u = t  BY <1>1 DEF Executing
  <2>7. ForkMasked'  BY <1>0, <1>a, <2>1, <2>2, <2>3 DEF ForkMasked
  <2>8. KernelTask'
    BY <1>0, <2>1, <2>2, <2>3, <2>4 DEF KernelTask
  <2>9. Unborn'
    BY <1>0, <1>1, <1>a, <2>1, <2>2, <2>3, <2>5 DEF Unborn, ForkMasked
  <2>10. Parked'
    BY <1>0, <1>a, <2>1, <2>2, <2>3, <2>4, <2>6 DEF Parked, Open
  <2>11. Masked'  BY <1>0, <1>1, <2>2, <2>3, <2>4 DEF Masked, Open
  <2>12. MasterHeld'
    BY <1>0, <2>1, <2>2, <2>3 DEF MasterHeld, HoldsMaster
  <2> QED  BY <2>7, <2>8, <2>9, <2>10, <2>11, <2>12
<1> QED  BY <1>2, <1>3, <1>4

\* int $0x20 in lock() and get_char() comes with IF clear.
LEMMA YieldPreemption ==
  ASSUME TypeOK, PreemptionInv, NEW t \in Tasks, Yield(t)
  PROVE  PreemptionInv'
<1>0. t \in Pids /\ current_task = t /\ ~returning
  BY TasksArePids DEF TypeOK, Yield, At
<1>1. /\ \/ pc[t] = "yield_lock" /\ pc'[t] = "spin_wait"
         \/ pc[t] = "yield_key" /\ pc'[t] = "got_char"
         \/ pc[t] = "yield_exit" /\ pc'[t] = "exited"
      /\ \A u \in Pids \ {t} : pc'[u] = pc[u]
      /\ pc' \in [Pids -> Labels]
  BY <1>0
  DEF Yield, AfterYield, At, Goto, TypeOK, CallType, Labels, LockLabels, ReadLabels, RestLabels
<1>2. pc[t] \in {"yield_lock", "yield_key"} /\ next_pid >= 3 => ~iflag
  BY <1>0 DEF PreemptionInv, Masked, Open
<1>3. t # Kernel  BY <1>1, NotKernel DEF PreemptionInv
<1> QED
  BY <1>0, <1>1, <1>2, <1>3, SwitchPreemption
  DEF Yield, lockVars, Open, HoldsMaster

\* An interrupt finds the executing task at an open label, or a task on its way
\* back from an earlier switch.
LEMMA InterruptPreemption ==
  ASSUME TypeOK, PreemptionInv, Tick \/ KeyPress \/ KeyBreak
  PROVE  PreemptionInv'
<1> USE DEF PreemptionInv
<1>0. current_task \in Tasks /\ current_task \in Pids /\ iflag
  BY TasksArePids DEF TypeOK, SchedType, Tick, TimerTick, KeyPress, KeyBreak
<1>1. /\ pc'[current_task] = (IF pc[current_task] = "sleep" THEN "sleep_cli"
                                                           ELSE pc[current_task])
      /\ \A u \in Pids \ {current_task} : pc'[u] = pc[u]
      /\ pc' \in [Pids -> Labels]
  BY <1>0
  DEF Tick, TimerTick, KeyPress, KeyBreak, WakeReader, WakeHlt, TypeOK, CallType,
      Labels, RestLabels
<1>2. next_pid' = next_pid /\ UNCHANGED master_lock
  BY DEF Tick, TimerTick, KeyPress, KeyBreak, WakeReader, lockVars
<1>3. pc[current_task] \notin {"none", "fork_add", "fork_parent"}
  BY <1>0 DEF ForkMasked, Unborn
<1>4. next_pid >= 3 =>
        \/ pc[current_task] \in Open
        \/ pc[current_task] \in {"spin_wait", "got_char"} /\ returning /\ ~if_saved[current_task]
  BY <1>0, <1>3 DEF Masked, Parked, Executing
<1>5. pc[Kernel] # "sleep"  BY NotKernel
<1>6. ASSUME NEW st, SwitchTask(st) PROVE PreemptionInv'
  BY <1>0, <1>1, <1>2, <1>3, <1>4, <1>5, <1>6, SwitchPreemption DEF Open, HoldsMaster
<1>7. ASSUME UNCHANGED <<current_task, if_saved, returning, iflag>> PROVE PreemptionInv'
  <2>1. Tasks' = Tasks /\ Tasks \subseteq Pids
    BY <1>2, TasksArePids DEF Tasks, TypeOK
  <2>2. ForkMasked' /\ KernelTask'
    BY <1>0, <1>1, <1>2, <1>3, <1>5, <1>7, <2>1, NotKernel DEF ForkMasked, KernelTask, Executing
  <2>3. Unborn'
    BY <1>0, <1>1, <1>2, <1>3, <1>7, <2>1, TasksArePids DEF Unborn, TypeOK
  <2>4. Parked' /\ Masked'
    BY <1>0, <1>1, <1>2, <1>4, <1>7, <2>1 DEF Parked, Masked, Executing, Open
  <2>5. MasterHeld'
    BY <1>0, <1>1, <1>2, <2>1 DEF MasterHeld, HoldsMaster
  <2> QED  BY <2>2, <2>3, <2>4, <2>5
<1> QED  BY <1>6, <1>7 DEF Tick, TimerTick, KeyPress, KeyBreak, WakeReader

\* A task that was switched to continues with the flag it gave up the CPU with.
LEMMA ResumePreemption ==
  ASSUME TypeOK, PreemptionInv, NEW t \in Tasks, Resume(t)
  PROVE  PreemptionInv'
<1> USE DEF PreemptionInv
<1>0. /\ current_task = t /\ returning /\ ~returning' /\ iflag' = if_saved[t]
      /\ UNCHANGED <<next_pid, current_task, pc, if_saved, master_lock>>
      /\ Tasks' = Tasks
  BY DEF Resume, Iret, lockVars, Tasks
<1>1. \A u \in Tasks : pc[u] \notin {"none", "fork_add", "fork_parent"}
  BY <1>0 DEF ForkMasked, Unborn, Executing
<1>2. ForkMasked' /\ KernelTask' /\ MasterHeld'
  BY <1>0, <1>1 DEF ForkMasked, KernelTask, MasterHeld
<1>3. Unborn'
  BY <1>0, <1>1 DEF Unborn, Pids
<1>4. Parked'  BY <1>0 DEF Parked, Executing
<1>5. Masked'  BY <1>0, <1>1 DEF Masked, Parked, Executing
<1> QED  BY <1>2, <1>3, <1>4, <1>5

\* The start of the kernel task.
LEMMA InitPreemption == Init => PreemptionInv
BY MaxTasksAssumption
DEF Init, PreemptionInv, ForkMasked, KernelTask, Unborn, Parked, Masked, MasterHeld,
    Tasks, Pids, Kernel

LEMMA NextPreemption ==
  ASSUME TypeOK, Frames, PreemptionInv, Next PROVE PreemptionInv'
BY LockStepPreemption, UserStepPreemption, DeviceStepPreemption, ExecStepPreemption,
   ForkPreemption, YieldPreemption, InterruptPreemption, ResumePreemption
   DEF Next, KernelStep

-----------------------------------------------------------------------------
(* The monitor lock *)

\* Once there are programs to interleave, only the executing task prints.
LEMMA PrinterExecutes ==
  ASSUME TypeOK, Frames, PreemptionInv, MonitorQueue,
         NEW t \in Tasks, InMonitor(t)
  PROVE  t # Kernel /\ (next_pid >= 3 => Executing(t))
<1>0. t \in Pids /\ Frame(t)  BY TasksArePids DEF TypeOK, Frames
<1>1. pc[t] \in PrintLabels \/ (lockid[t] = Monitor /\ pc[t] \in LockLabels)
  BY <1>0 DEF InMonitor, Frame, Monitor, NoLock
<1>2. t # Kernel
  BY <1>1, NotKernel DEF PreemptionInv, PrintLabels, LockLabels
<1>3. ASSUME next_pid >= 3, ~Executing(t) PROVE FALSE
  <2>1. pc[t] = "spin_wait"
    BY <1>1, <1>3 DEF PreemptionInv, Parked, Open, PrintLabels, LockLabels
  <2> QED  BY <1>1, <2>1 DEF MonitorQueue, Waiting, PrintLabels
<1> QED  BY <1>2, <1>3

\* So two printers are one.
LEMMA PrinterUnique ==
  ASSUME TypeOK, Frames, PreemptionInv, MonitorQueue PROVE OnePrinter
<1> SUFFICES ASSUME NEW t \in Tasks, NEW u \in Tasks, InMonitor(t), InMonitor(u)
             PROVE  t = u
  BY DEF OnePrinter
<1>1. CASE next_pid >= 3
  BY <1>1, PrinterExecutes DEF Executing
<1>2. CASE next_pid <= 2
  BY <1>2, PrinterExecutes DEF Tasks, Kernel, TypeOK, SchedType
<1> QED  BY <1>1, <1>2 DEF TypeOK, SchedType

\* A step that leaves the monitor queue alone, and only moves task t.
LEMMA MonitorLocal ==
  ASSUME MonitorQueue, Tasks \subseteq Tasks', NEW t, t \in Pids, Tasks' \subseteq Pids,
         Local(t), locks'[Monitor] = locks[Monitor],
         InMonitor(t) => InMonitor(t)', ~Waiting(t, Monitor)',
         \A u \in Tasks' \ Tasks : u # t => lockid[u] # Monitor
  PROVE  MonitorQueue'
<1>1. \A u \in Tasks : InMonitor(u) => InMonitor(u)'
  BY DEF Local, InMonitor
<1>2. \A u \in Tasks' : ~Waiting(u, Monitor)'
  BY DEF Local, MonitorQueue, Waiting
<1> QED  BY <1>1, <1>2 DEF MonitorQueue

\* lock() finds the monitor free or its own, unlock() frees it.
LEMMA LockStepMonitor ==
  ASSUME TypeOK, Frames, PreemptionInv, MonitorQueue, NEW t \in Tasks, LockStep(t)
  PROVE  MonitorQueue'
<1> USE DEF TypeOK, CallType, LockType
<1>0. t \in Pids /\ Frame(t) /\ Tasks' = Tasks /\ Tasks \subseteq Pids
  BY TasksArePids
  DEF Frames, Tasks, LockStep, SpinLock, Acquire, Check, Block, Release
<1>1. Local(t)
  BY <1>0 DEF LockStep, SpinLock, Acquire, Check, Block, Release, HeapReports, Return,
     Goto, callVars, printVars, Local
<1>2. ~Waiting(t, Monitor)  BY DEF MonitorQueue
<1>i. Monitor \in LockIds /\ Keyboard \in LockIds /\ Monitor # Keyboard /\ NoLock # Monitor
  BY DEF LockIds, Monitor, Keyboard, NoLock
<1>3. CASE SpinLock(t) \/ Check(t) \/ Block(t)
  <2>1. locks' = locks  BY <1>3 DEF SpinLock, Check, Block, lockVars
  <2>2. InMonitor(t) => InMonitor(t)' /\ ~Waiting(t, Monitor)'
    BY <1>0, <1>2, <1>3, <1>i
    DEF SpinLock, Spins, AfterSpin, Check, Block, Return, At, Goto, callVars, Waiting,
        InMonitor, PrintLabels, Frame, LockLabels, AcquireLabels, ReleaseLabels
  <2>3. ~Waiting(t, Monitor)'
    BY <1>0, <1>2, <1>3, <1>i
    DEF SpinLock, Spins, AfterSpin, Check, Block, Return, At, Goto, callVars, Waiting
  <2> QED  BY <1>0, <1>1, <2>1, <2>2, <2>3, MonitorLocal
<1>4. CASE Acquire(t)
  <2>1. pc[t] = "acquire" /\ lockid[t] \in LockIds
    BY <1>0, <1>4, <1>i DEF Acquire, At, Frame, LockLabels
  <2>2. CASE lockid[t] = Monitor
    <3> DEFINE q == locks[Monitor]
    <3>1. q = <<>> \/ q = <<t>>
      BY <2>2, PrinterUnique DEF MonitorQueue, OnePrinter, InMonitor
    <3>2. locks'[Monitor] = <<t>> /\ Return(t)
      BY <1>4, <1>i, <2>2, <3>1 DEF Acquire
    <3>3. InMonitor(t)' /\ ~Waiting(t, Monitor)'
      BY <1>0, <1>i, <2>1, <2>2, <3>2
      DEF Return, Goto, Frame, LockLabels, AcquireLabels, ReleaseLabels, InMonitor, Waiting
    <3>4. \A u \in Tasks : ~Waiting(u, Monitor)'
      BY <1>0, <1>1, <3>3 DEF Local, MonitorQueue, Waiting
    <3> QED  BY <1>0, <3>2, <3>3, <3>4 DEF MonitorQueue
  <2>3. CASE lockid[t] = Keyboard
    <3>1. locks'[Monitor] = locks[Monitor]  BY <1>4, <1>i, <2>3 DEF Acquire
    <3>2. ~InMonitor(t) /\ ~Waiting(t, Monitor)'
      BY <1>0, <1>4, <1>i, <2>1, <2>3
      DEF Acquire, Return, Goto, callVars, InMonitor, Waiting, PrintLabels
    <3> QED  BY <1>0, <1>1, <3>1, <3>2, MonitorLocal
  <2> QED  BY <2>1, <2>2, <2>3 DEF LockIds
<1>5. CASE Release(t)
  <2>1. pc[t] = "release" /\ lockid[t] \in LockIds
    BY <1>0, <1>5, <1>i DEF Release, At, Frame, LockLabels
  <2>2. CASE lockid[t] = Monitor
    <3>a. \A u \in Tasks : Len(<<u>>) = 1  OBVIOUS
    <3>b. Len(<<>>) = 0  OBVIOUS
    <3>1. Len(locks[Monitor]) <= 1
      <4>1. CASE locks[Monitor] = <<>>  BY <3>b, <4>1
      <4>2. ASSUME NEW u \in Tasks, locks[Monitor] = <<u>> PROVE Len(locks[Monitor]) <= 1
        BY <3>a, <4>2
      <4> QED  BY <4>1, <4>2 DEF MonitorQueue
    <3>2. locks'[Monitor] = <<>> /\ Return(t)
      BY <1>5, <1>i, <2>2, <3>1 DEF Release
    <3>3. ~Waiting(t, Monitor)'
      BY <1>0, <1>i, <3>2 DEF Return, Waiting
    <3>4. \A u \in Tasks : ~Waiting(u, Monitor)'
      BY <1>0, <1>1, <3>3 DEF Local, MonitorQueue, Waiting
    <3> QED  BY <1>0, <3>2, <3>4 DEF MonitorQueue
  <2>3. CASE lockid[t] = Keyboard
    <3>1. locks'[Monitor] = locks[Monitor]  BY <1>5, <1>i, <2>3 DEF Release
    <3>2. ~InMonitor(t) /\ ~Waiting(t, Monitor)'
      BY <1>0, <1>5, <1>i, <2>1, <2>3
      DEF Release, HeapReports, Return, Goto, callVars, InMonitor, Waiting, PrintLabels
    <3> QED  BY <1>0, <1>1, <3>1, <3>2, MonitorLocal
  <2> QED  BY <2>1, <2>2, <2>3 DEF LockIds
<1> QED  BY <1>3, <1>4, <1>5 DEF LockStep

\* Outside lock() and unlock() a task does not stop printing, and nobody starts
\* to wait.
LEMMA OtherStepMonitor ==
  ASSUME TypeOK, Frames, PreemptionInv, MonitorQueue, NEW t \in Tasks,
         UserStep(t) \/ (KernelStep(t) /\ ~LockStep(t))
  PROVE  MonitorQueue'
<1> USE DEF TypeOK, CallType, PrintType
<1>0. t \in Pids /\ Frame(t) /\ Tasks \subseteq Pids /\ next_pid - 1 \in Pids
  BY TasksArePids DEF Frames
<1>i. Monitor # NoLock /\ Keyboard # Monitor /\ Keyboard # NoLock
  BY DEF Monitor, NoLock, Keyboard
<1>1. locks' = locks
  BY DEF UserStep, SysPuts, SysPutint, SysReadline, SysTask, SysOther, SysSleep, Fault,
     EnterKernel, KernelStep, SysRet, SleepCli, Puts, Putchar, Putint, Readline, GetChar,
     GotChar, ReadlineEnd, Fork, ForkAdd, ForkParent, Exec, ExecDone, Exit, Yield, lockVars
<1>2. CASE UserStep(t)
  <2>1. Tasks' = Tasks
    BY <1>2 DEF UserStep, SysPuts, SysPutint, SysReadline, SysTask, SysOther, SysSleep,
       Fault, EnterKernel, Tasks
  <2>2. Local(t)
    BY <1>0, <1>2
    DEF UserStep, SysPuts, SysPutint, SysReadline, SysTask, SysOther, SysSleep, Fault,
        CallPuts, CallLock, Goto, callVars, printVars, Local
  <2>3. ~InMonitor(t)
    BY <1>0, <1>2, <1>i
    DEF UserStep, SysPuts, SysPutint, SysReadline, SysTask, SysOther, SysSleep, Fault,
        EnterKernel, At, Frame, InMonitor, LockLabels, PrintLabels
  <2>4. ~Waiting(t, Monitor)'
    BY <1>0, <1>2, <1>i
    DEF UserStep, SysPuts, SysPutint, SysReadline, SysTask, SysOther, SysSleep, Fault,
        CallPuts, CallLock, Goto, Waiting
  <2> QED  BY <1>0, <1>1, <2>1, <2>2, <2>3, <2>4, MonitorLocal
<1>3. CASE \/ Puts(t) \/ Putchar(t) \/ Putint(t)
           \/ Readline(t) \/ GetChar(t) \/ GotChar(t) \/ ReadlineEnd(t)
  <2>1. Tasks' = Tasks
    BY <1>3 DEF Puts, Putchar, Putint, Readline, GetChar, GotChar, ReadlineEnd,
       SchedUnchanged, Tasks
  <2>2. Local(t)
    BY <1>0, <1>3
    DEF Puts, Putchar, Putint, Readline, GetChar, GotChar, ReadlineEnd, CallPuts,
        CallLock, CallUnlock, Goto, callVars, printVars, Local
  <2>3. CASE Readline(t) \/ GetChar(t)
    <3>1. ~InMonitor(t) /\ pc'[t] \notin LockLabels
      BY <1>0, <1>i, <2>3
      DEF Readline, GetChar, At, Goto, Frame, InMonitor, LockLabels, PrintLabels
    <3> QED  BY <1>0, <1>1, <2>1, <2>2, <3>1, MonitorLocal DEF Waiting, LockLabels
  <2>4. CASE ReadlineEnd(t)
    <3>1. ~InMonitor(t) /\ pc'[t] = "spin_release"
      BY <1>0, <1>i, <2>4
      DEF ReadlineEnd, CallUnlock, At, Goto, Frame, InMonitor, LockLabels, PrintLabels
    <3> QED  BY <1>0, <1>1, <2>1, <2>2, <3>1, MonitorLocal DEF Waiting
  <2>5. CASE Puts(t) \/ Putchar(t) \/ Putint(t) \/ GotChar(t)
    <3>1. lockid'[t] = Monitor /\ pc'[t] \in {"spin_acquire", "spin_release"}
      BY <1>0, <2>5
      DEF Puts, Putchar, Putint, GotChar, CallPuts, CallLock, CallUnlock, Goto
    <3> QED  BY <1>0, <1>1, <2>1, <2>2, <3>1, MonitorLocal DEF Waiting, InMonitor
  <2> QED  BY <1>3, <2>3, <2>4, <2>5
<1>4. CASE SysRet(t) \/ SleepCli(t) \/ Fork(t) \/ ExecDone(t) \/ Exit(t)
  <2>1. Tasks' = Tasks
    BY <1>4 DEF SysRet, SleepCli, Fork, ExecDone, Exit, Tasks
  <2>2. Local(t)
    BY <1>0, <1>4
    DEF SysRet, SleepCli, Fork, ExecDone, Exit, Goto, callVars, printVars, Local
  <2>3. ~InMonitor(t) /\ pc'[t] \notin LockLabels
    BY <1>0, <1>4, <1>i
    DEF SysRet, SleepCli, Fork, ExecDone, Exit, At, Goto, Frame, InMonitor,
        LockLabels, PrintLabels
  <2> QED  BY <1>0, <1>1, <2>1, <2>2, <2>3, MonitorLocal DEF Waiting, LockLabels
<1>5. CASE Exec(t)
  <2>1. Tasks' = Tasks  BY <1>5 DEF Exec, SchedUnchanged, Tasks
  <2>2. Local(t)
    BY <1>0, <1>5 DEF Exec, CallPuts, CallLock, Goto, callVars, printVars, Local
  <2>3. ~InMonitor(t)
    BY <1>0, <1>5, <1>i
    DEF Exec, AfterExec, At, Frame, InMonitor, LockLabels, PrintLabels
  <2>4. pc'[t] \in {"spin_acquire", "exec_done", "boot_done"}
    BY <1>0, <1>5 DEF Exec, AfterExec, CallPuts, CallLock, Goto
  <2> QED  BY <1>0, <1>1, <2>1, <2>2, <2>3, <2>4, MonitorLocal DEF Waiting
<1>6. CASE Yield(t)
  <2>1. Tasks' = Tasks  BY <1>6 DEF Yield, Tasks
  <2>2. Local(t)
    BY <1>0, <1>6 DEF Yield, Goto, callVars, printVars, Local
  <2>3. ~Waiting(t, Monitor)  BY DEF MonitorQueue
  <2>4. pc[t] \in DOMAIN AfterYield /\ pc'[t] = AfterYield[pc[t]] /\ lockid' = lockid
    BY <1>0, <1>6 DEF Yield, At, Goto, callVars
  <2>5. ~InMonitor(t) /\ ~Waiting(t, Monitor)'
    BY <1>0, <1>i, <2>3, <2>4
    DEF AfterYield, Frame, InMonitor, Waiting, LockLabels, PrintLabels
  <2> QED  BY <1>0, <1>1, <2>1, <2>2, <2>5, MonitorLocal
<1>7. CASE ForkAdd(t)
  <2>1. Tasks' = Tasks \union {next_pid} /\ next_pid \notin Tasks /\ next_pid \in Pids
    BY <1>7, MaxTasksAssumption DEF ForkAdd, AddTask, Tasks, Pids, SchedType
  <2>2. Local(t)
    BY <1>0, <1>7 DEF ForkAdd, Goto, callVars, printVars, Local
  <2>3. lockid[next_pid] # Monitor
    BY <1>i, <2>1 DEF PreemptionInv, Unborn, Frames, Frame, LockLabels
  <2>4. ~InMonitor(t) /\ pc'[t] \notin LockLabels
    BY <1>0, <1>7, <1>i
    DEF ForkAdd, At, Goto, Frame, InMonitor, LockLabels, PrintLabels
  <2> QED  BY <1>0, <1>1, <2>1, <2>2, <2>3, <2>4, MonitorLocal DEF Waiting, LockLabels
<1>8. CASE ForkParent(t)
  <2> DEFINE child == next_pid - 1
  <2>1. Tasks' = Tasks /\ lockid' = lockid
    BY <1>8 DEF ForkParent, Tasks, callVars
  <2>2. pc[t] = "fork_parent" /\ pc[child] = "none"
    BY <1>8 DEF ForkParent, At, PreemptionInv, Unborn
  <2>3. /\ pc'[t] \in {"hlt", "sysret"} /\ pc'[child] \in {"boot", "sysret"}
        /\ \A u \in Pids \ {t, child} : pc'[u] = pc[u]
    BY <1>0, <1>8, <2>2 DEF ForkParent
  <2>4. ~InMonitor(t) /\ ~InMonitor(child)
    BY <1>0, <1>i, <2>2 DEF Frames, Frame, InMonitor, LockLabels, PrintLabels
  <2>5. \A u \in Tasks : (InMonitor(u) => InMonitor(u)') /\ ~Waiting(u, Monitor)'
    BY <1>0, <2>1, <2>3, <2>4 DEF InMonitor, Waiting, MonitorQueue
  <2> QED  BY <1>1, <2>1, <2>5 DEF MonitorQueue
<1> QED  BY <1>2, <1>3, <1>4, <1>5, <1>6, <1>7, <1>8 DEF KernelStep

\* Interrupts do not touch what the queues are about.
LEMMA InterruptMonitor ==
  ASSUME TypeOK, MonitorQueue,
         Tick \/ KeyPress \/ KeyBreak \/ (\E t \in Tasks : Resume(t))
  PROVE  MonitorQueue'
<1>1. UNCHANGED <<lockid, locks>> /\ Tasks' = Tasks /\ Tasks \subseteq Pids
  BY TasksArePids
  DEF Tick, TimerTick, KeyPress, KeyBreak, WakeReader, Resume, Iret, callVars, lockVars,
      Tasks, TypeOK
<1>2. \A u \in Pids : pc'[u] = pc[u] \/ (pc[u] = "sleep" /\ pc'[u] = "sleep_cli")
  BY DEF Tick, TimerTick, KeyPress, KeyBreak, WakeReader, WakeHlt, Resume, Iret,
         TypeOK, CallType
<1>3. \A u \in Tasks : (InMonitor(u) => InMonitor(u)') /\ ~Waiting(u, Monitor)'
  BY <1>1, <1>2 DEF InMonitor, Waiting, MonitorQueue, PrintLabels
<1> QED  BY <1>1, <1>3 DEF MonitorQueue

LEMMA NextMonitor ==
  ASSUME TypeOK, Frames, PreemptionInv, MonitorQueue, Next PROVE MonitorQueue'
BY LockStepMonitor, OtherStepMonitor, InterruptMonitor DEF Next

-----------------------------------------------------------------------------
(* The keyboard lock *)

\* A step of task t that leaves the head of the queue and, unless t reads,
\* the occupant alone.
LEMMA KeyboardLocal ==
  ASSUME KeyboardQueue, NEW t \in Tasks, Tasks' = Tasks, Tasks \subseteq Pids, Local(t),
         locks[Keyboard] # <<>> =>
           locks'[Keyboard] # <<>> /\ Head(locks'[Keyboard]) = Head(locks[Keyboard]),
         HasKeyboard(t)' => locks'[Keyboard] # <<>> /\ Head(locks'[Keyboard]) = t,
         InReadline(t)' /\ pc'[t] # "readline" => occupant' = t,
         occupant' = occupant \/ HasKeyboard(t)
  PROVE  KeyboardQueue'
<1> SUFFICES ASSUME NEW u \in Tasks
             PROVE  /\ HasKeyboard(u)' => locks'[Keyboard] # <<>> /\ Head(locks'[Keyboard]) = u
                    /\ InReadline(u)' /\ pc'[u] # "readline" => occupant' = u
  BY DEF KeyboardQueue
<1>1. CASE u = t  BY <1>1
<1>2. CASE u # t
  <2>1. (HasKeyboard(u)' <=> HasKeyboard(u)) /\ (InReadline(u)' <=> InReadline(u)) /\ pc'[u] = pc[u]
    BY <1>2 DEF Local, HasKeyboard, InReadline
  <2>2. InReadline(u) /\ HasKeyboard(t) => FALSE
    BY <1>2 DEF KeyboardQueue, HasKeyboard
  <2> QED  BY <2>1, <2>2 DEF KeyboardQueue
<1> QED  BY <1>1, <1>2

\* lock() lets in only the head of the queue, unlock() removes only its caller.
LEMMA LockStepKeyboard ==
  ASSUME TypeOK, Frames, KeyboardQueue, NEW t \in Tasks, LockStep(t)
  PROVE  KeyboardQueue'
<1> USE DEF TypeOK, CallType, LockType
<1>0. t \in Pids /\ Frame(t) /\ Tasks' = Tasks /\ Tasks \subseteq Pids /\ occupant' = occupant
  BY TasksArePids
  DEF Frames, Tasks, LockStep, SpinLock, Acquire, Check, Block, Release, keyVars
<1>1. Local(t)
  BY <1>0 DEF LockStep, SpinLock, Acquire, Check, Block, Release, HeapReports, Return,
     Goto, callVars, printVars, Local
<1>i. Monitor \in LockIds /\ Keyboard \in LockIds /\ Monitor # Keyboard /\ NoLock # Keyboard
      /\ LockIds = {Monitor, Keyboard}
  BY DEF LockIds, Monitor, Keyboard, NoLock
<1>k. locks[Keyboard] \in Seq(Pids)  BY <1>i
\* Returning from lock() or unlock(), a task reads if it did before, or if it
\* got the keyboard.
<1>2. ASSUME Return(t), pc[t] \in LockLabels
      PROVE  /\ HasKeyboard(t)' =>
                  HasKeyboard(t) \/ (pc[t] \in AcquireLabels /\ lockid[t] = Keyboard)
             /\ InReadline(t)' /\ pc'[t] # "readline" => InReadline(t) /\ pc[t] # "readline"
  BY <1>0, <1>2, <1>i
  DEF Return, Goto, Frame, HasKeyboard, InReadline, LockLabels, AcquireLabels, ReleaseLabels,
      ReadLabels, PrintLabels
<1>3. CASE SpinLock(t) \/ Block(t)
  <2>1. locks' = locks  BY <1>3 DEF SpinLock, Block, lockVars
  <2>2. (HasKeyboard(t)' => HasKeyboard(t)) /\ (InReadline(t)' => InReadline(t) /\ pc[t] # "readline")
    BY <1>0, <1>3
    DEF SpinLock, Spins, AfterSpin, Block, At, Goto, callVars, HasKeyboard, InReadline, ReadLabels
  <2>3. (HasKeyboard(t)' => locks[Keyboard] # <<>> /\ Head(locks[Keyboard]) = t)
        /\ (InReadline(t)' => occupant = t)
    BY <2>2 DEF KeyboardQueue
  <2> QED  BY <1>0, <1>1, <2>1, <2>3, KeyboardLocal
<1>4. CASE Check(t)
  <2>1. locks' = locks /\ pc[t] = "check" /\ locks[lockid[t]] # <<>>
    BY <1>4 DEF Check, At
  <2>2. CASE Return(t)
    <3>1. Head(locks[lockid[t]]) = t
      BY <1>0, <1>4, <2>1, <2>2 DEF Check, Return, Goto, Frame, LockLabels, AcquireLabels,
         ReleaseLabels, LockReturns, ReadLabels, PrintLabels
    <3>2. (HasKeyboard(t)' => locks[Keyboard] # <<>> /\ Head(locks[Keyboard]) = t)
          /\ (InReadline(t)' /\ pc'[t] # "readline" => occupant = t)
      BY <1>2, <2>1, <2>2, <3>1 DEF KeyboardQueue, LockLabels
    <3> QED  BY <1>0, <1>1, <2>1, <3>2, KeyboardLocal
  <2>3. CASE Goto(t, "block") /\ UNCHANGED callVars
    <3>1. (HasKeyboard(t)' => HasKeyboard(t)) /\ (InReadline(t)' => InReadline(t) /\ pc[t] # "readline")
      BY <1>0, <2>1, <2>3 DEF Goto, callVars, HasKeyboard, InReadline, ReadLabels
    <3>2. (HasKeyboard(t)' => locks[Keyboard] # <<>> /\ Head(locks[Keyboard]) = t)
          /\ (InReadline(t)' => occupant = t)
      BY <3>1 DEF KeyboardQueue
    <3> QED  BY <1>0, <1>1, <2>1, <3>2, KeyboardLocal
  <2> QED  BY <1>4, <2>2, <2>3 DEF Check
<1>5. CASE Acquire(t)
  <2>1. pc[t] = "acquire" /\ lockid[t] \in LockIds
    BY <1>0, <1>5, <1>i DEF Acquire, At, Frame, LockLabels
  <2>2. CASE lockid[t] = Monitor
    <3>1. locks'[Keyboard] = locks[Keyboard]  BY <1>5, <1>i, <2>2 DEF Acquire
    <3>2. (HasKeyboard(t)' => HasKeyboard(t))
          /\ (InReadline(t)' /\ pc'[t] # "readline" => InReadline(t) /\ pc[t] # "readline")
      <4>1. CASE Return(t)  BY <1>2, <1>i, <2>1, <2>2, <4>1 DEF LockLabels
      <4>2. CASE Goto(t, "spin_wait") /\ UNCHANGED callVars
        BY <1>0, <2>1, <4>2 DEF Goto, callVars, HasKeyboard, InReadline, ReadLabels
      <4> QED  BY <1>5, <4>1, <4>2 DEF Acquire
    <3>3. (HasKeyboard(t)' => locks[Keyboard] # <<>> /\ Head(locks[Keyboard]) = t)
          /\ (InReadline(t)' /\ pc'[t] # "readline" => occupant = t)
      BY <3>2 DEF KeyboardQueue
    <3> QED  BY <1>0, <1>1, <3>1, <3>3, KeyboardLocal
  <2>3. CASE lockid[t] = Keyboard
    <3> DEFINE q == locks[Keyboard]
    <3>1. ret[t] = "readline" /\ ~InReadline(t)
      BY <1>0, <1>i, <2>1, <2>3
      DEF Frame, InReadline, ReadLabels, LockLabels, AcquireLabels, ReleaseLabels
    <3>2. CASE Return(t)
      <4>1. pc'[t] = "readline"  BY <1>0, <3>1, <3>2 DEF Return, Goto
      <4>2. ~Goto(t, "spin_wait")  BY <1>0, <4>1 DEF Goto
      <4>3. \/ q # <<>> /\ Head(q) = t /\ locks' = locks
            \/ q = <<>> /\ locks' = [locks EXCEPT ![Keyboard] = <<t>>]
        BY <1>5, <2>3, <4>2 DEF Acquire
      <4>4. <<t>> # <<>> /\ Head(<<t>>) = t  OBVIOUS
      <4>5. locks'[Keyboard] # <<>> /\ Head(locks'[Keyboard]) = t
            /\ (q # <<>> => locks'[Keyboard] = q)
        BY <1>i, <4>3, <4>4
      <4> QED  BY <1>0, <1>1, <4>1, <4>5, KeyboardLocal
    <3>3. CASE Goto(t, "spin_wait") /\ UNCHANGED callVars
      <4>1. ~HasKeyboard(t)' /\ ~InReadline(t)'
        BY <1>0, <2>1, <3>1, <3>3 DEF Goto, callVars, HasKeyboard, InReadline, ReadLabels
      <4>2. q # <<>> /\ locks'[Keyboard] = Append(q, t)
        BY <1>0, <1>5, <1>i, <2>1, <2>3, <3>1, <3>3 DEF Acquire, Return, Goto, callVars
      <4>3. Append(q, t) # <<>> /\ Head(Append(q, t)) = Head(q)
        BY <1>0, <1>k, <4>2, SMTT(30)
      <4> QED  BY <1>0, <1>1, <4>1, <4>2, <4>3, KeyboardLocal
    <3> QED  BY <1>5, <3>2, <3>3 DEF Acquire
  <2> QED  BY <1>i, <2>1, <2>2, <2>3
<1>6. CASE Release(t)
  <2>1. pc[t] = "release" /\ lockid[t] \in LockIds
    BY <1>0, <1>6, <1>i DEF Release, At, Frame, LockLabels
  <2>2. CASE lockid[t] = Monitor
    <3>1. locks'[Keyboard] = locks[Keyboard]  BY <1>6, <1>i, <2>2 DEF Release
    <3>2. (HasKeyboard(t)' => HasKeyboard(t))
          /\ (InReadline(t)' /\ pc'[t] # "readline" => InReadline(t) /\ pc[t] # "readline")
      <4>1. CASE Return(t)  BY <1>2, <1>i, <2>1, <2>2, <4>1 DEF LockLabels
      <4>2. CASE HeapReports(t)
        BY <1>0, <1>i, <2>1, <2>2, <4>2
        DEF HeapReports, Goto, callVars, HasKeyboard, InReadline, ReadLabels
      <4> QED  BY <1>6, <4>1, <4>2 DEF Release
    <3>3. (HasKeyboard(t)' => locks[Keyboard] # <<>> /\ Head(locks[Keyboard]) = t)
          /\ (InReadline(t)' /\ pc'[t] # "readline" => occupant = t)
      BY <3>2 DEF KeyboardQueue
    <3> QED  BY <1>0, <1>1, <3>1, <3>3, KeyboardLocal
  <2>3. CASE lockid[t] = Keyboard
    <3>1. ret[t] = "sysret" /\ HasKeyboard(t)
      BY <1>0, <1>i, <2>1, <2>3
      DEF Frame, HasKeyboard, LockLabels, AcquireLabels, ReleaseLabels
    <3>2. ~HasKeyboard(t)' /\ ~InReadline(t)'
      BY <1>0, <1>6, <1>i, <2>1, <2>3, <3>1
      DEF Release, HeapReports, Return, Goto, callVars, HasKeyboard, InReadline, ReadLabels
    <3>3. \A u \in Tasks : u # t => ~HasKeyboard(u)
      BY <3>1 DEF KeyboardQueue
    <3>4. \A u \in Tasks : ~HasKeyboard(u)' /\ ~InReadline(u)'
      BY <1>0, <1>1, <3>2, <3>3 DEF Local, HasKeyboard, InReadline
    <3> QED  BY <1>0, <3>4 DEF KeyboardQueue
  <2> QED  BY <1>i, <2>1, <2>2, <2>3
<1> QED  BY <1>3, <1>4, <1>5, <1>6 DEF LockStep

\* Outside the locks only the reader moves within readline().
LEMMA OtherStepKeyboard ==
  ASSUME TypeOK, Frames, Unborn, KeyboardQueue, NEW t \in Tasks,
         UserStep(t) \/ (KernelStep(t) /\ ~LockStep(t))
  PROVE  KeyboardQueue'
<1> USE DEF TypeOK, CallType, PrintType
<1>0. t \in Pids /\ Frame(t) /\ Tasks \subseteq Pids /\ next_pid - 1 \in Pids
  BY TasksArePids DEF Frames
<1>i. Monitor # Keyboard /\ Keyboard # NoLock
  BY DEF Monitor, NoLock, Keyboard
<1>1. locks' = locks
  BY DEF UserStep, SysPuts, SysPutint, SysReadline, SysTask, SysOther, SysSleep, Fault,
     EnterKernel, KernelStep, SysRet, SleepCli, Puts, Putchar, Putint, Readline, GetChar,
     GotChar, ReadlineEnd, Fork, ForkAdd, ForkParent, Exec, ExecDone, Exit, Yield, lockVars
\* What is left to show of a step that moves t only.
<1>2. ASSUME Tasks' = Tasks, Local(t), occupant' = occupant,
             HasKeyboard(t)' => HasKeyboard(t),
             InReadline(t)' => InReadline(t) /\ pc[t] # "readline"
      PROVE  KeyboardQueue'
  BY <1>0, <1>1, <1>2, KeyboardLocal DEF KeyboardQueue
<1>3. CASE UserStep(t)
  <2>1. Tasks' = Tasks /\ occupant' = occupant
    BY <1>3 DEF UserStep, SysPuts, SysPutint, SysReadline, SysTask, SysOther, SysSleep,
       Fault, EnterKernel, Tasks, keyVars
  <2>2. Local(t)
    BY <1>0, <1>3
    DEF UserStep, SysPuts, SysPutint, SysReadline, SysTask, SysOther, SysSleep, Fault,
        CallPuts, CallLock, Goto, callVars, printVars, Local
  <2>3. ~HasKeyboard(t)' /\ ~InReadline(t)'
    BY <1>0, <1>3, <1>i
    DEF UserStep, SysPuts, SysPutint, SysReadline, SysTask, SysOther, SysSleep, Fault,
        EnterKernel, CallPuts, CallLock, At, Goto, callVars, Frame, LockLabels,
        HasKeyboard, InReadline, ReadLabels
  <2> QED  BY <1>2, <2>1, <2>2, <2>3
<1>4. CASE Puts(t) \/ Putchar(t) \/ Putint(t)
  <2>1. Tasks' = Tasks /\ occupant' = occupant
    BY <1>4 DEF Puts, Putchar, Putint, SchedUnchanged, Tasks, keyVars
  <2>2. Local(t)
    BY <1>0, <1>4
    DEF Puts, Putchar, Putint, CallPuts, CallLock, CallUnlock, Goto, printVars, Local
  <2>3. puts_ret[t] \notin ReadLabels
    BY <1>0 DEF PutsReturns, ReadLabels
  <2>4. HasKeyboard(t)' \/ InReadline(t)' => InReadline(t) /\ pc[t] # "readline"
    <3>1. CASE Puts(t)
      BY <1>0, <1>i, <2>3, <3>1
      DEF Puts, CallLock, CallUnlock, Goto, HasKeyboard, InReadline, ReadLabels
    <3>2. CASE Putchar(t)
      BY <1>0, <1>i, <3>2
      DEF Putchar, AfterPutchar, At, CallUnlock, Goto, HasKeyboard, InReadline, ReadLabels
    <3>3. CASE Putint(t)
      BY <1>0, <1>i, <3>3
      DEF Putint, CallPuts, CallLock, CallUnlock, Goto, HasKeyboard, InReadline, ReadLabels
    <3> QED  BY <1>4, <3>1, <3>2, <3>3
  <2> QED  BY <1>2, <2>1, <2>2, <2>4 DEF HasKeyboard
<1>5. CASE GetChar(t) \/ GotChar(t)
  <2>1. Tasks' = Tasks /\ occupant' = occupant
    BY <1>5 DEF GetChar, GotChar, SchedUnchanged, Tasks, keyVars
  <2>2. Local(t)
    BY <1>0, <1>5
    DEF GetChar, GotChar, CallLock, Goto, callVars, printVars, Local
  <2>3. InReadline(t) /\ pc[t] # "readline" /\ HasKeyboard(t)
    BY <1>5 DEF GetChar, GotChar, At, InReadline, HasKeyboard, ReadLabels
  <2> QED  BY <1>2, <2>1, <2>2, <2>3
<1>6. CASE Readline(t) \/ ReadlineEnd(t)
  <2>1. Tasks' = Tasks  BY <1>6 DEF Readline, ReadlineEnd, SchedUnchanged, Tasks
  <2>2. Local(t)
    BY <1>0, <1>6
    DEF Readline, ReadlineEnd, CallUnlock, Goto, callVars, printVars, Local
  <2>3. HasKeyboard(t)
    BY <1>6 DEF Readline, ReadlineEnd, At, InReadline, HasKeyboard, ReadLabels
  <2>4. locks[Keyboard] # <<>> /\ Head(locks[Keyboard]) = t
    BY <2>3 DEF KeyboardQueue
  <2>5. InReadline(t)' => occupant' = t
    BY <1>0, <1>6, <2>4 DEF Readline, ReadlineEnd, CallUnlock, Goto, InReadline, ReadLabels
  <2> QED  BY <1>0, <1>1, <2>1, <2>2, <2>3, <2>4, <2>5, KeyboardLocal
<1>7. CASE SysRet(t) \/ SleepCli(t) \/ Fork(t) \/ ExecDone(t) \/ Exit(t) \/ Exec(t)
  <2>1. Tasks' = Tasks /\ occupant' = occupant
    BY <1>7 DEF SysRet, SleepCli, Fork, ExecDone, Exit, Exec, SchedUnchanged, Tasks, keyVars
  <2>2. Local(t)
    BY <1>0, <1>7
    DEF SysRet, SleepCli, Fork, ExecDone, Exit, Exec, CallPuts, CallLock, Goto, callVars,
        printVars, Local
  <2>3. pc[t] \notin LockLabels
    BY <1>7 DEF SysRet, SleepCli, Fork, ExecDone, Exit, Exec, AfterExec, At, LockLabels
  <2>4. ~HasKeyboard(t)' /\ ~InReadline(t)'
    BY <1>0, <1>7, <1>i, <2>3
    DEF SysRet, SleepCli, Fork, ExecDone, Exit, Exec, AfterExec, CallPuts, CallLock, Goto,
        callVars, Frame, HasKeyboard, InReadline, ReadLabels
  <2> QED  BY <1>2, <2>1, <2>2, <2>4
<1>8. CASE Yield(t)
  <2>1. Tasks' = Tasks /\ occupant' = occupant  BY <1>8 DEF Yield, Tasks, keyVars
  <2>2. Local(t)
    BY <1>0, <1>8 DEF Yield, Goto, callVars, printVars, Local
  <2>3. pc[t] \in DOMAIN AfterYield /\ pc'[t] = AfterYield[pc[t]] /\ UNCHANGED callVars
    BY <1>0, <1>8 DEF Yield, At, Goto, callVars
  <2>4. HasKeyboard(t)' \/ InReadline(t)' => InReadline(t) /\ pc[t] # "readline"
    BY <1>0, <2>3
    DEF AfterYield, callVars, HasKeyboard, InReadline, ReadLabels
  <2> QED  BY <1>2, <2>1, <2>2, <2>4 DEF HasKeyboard
\* Neither the parent nor the child of a fork reads.
<1>9. CASE ForkAdd(t)
  <2>1. PICK child \in Pids : child = next_pid /\ child \notin Tasks /\ Tasks' = Tasks \union {child}
    BY <1>9, MaxTasksAssumption DEF ForkAdd, AddTask, Tasks, Pids, SchedType
  <2>2. UNCHANGED <<lockid, ret, occupant>>
    BY <1>9 DEF ForkAdd, callVars, keyVars
  <2>3. pc[t] = "fork_add" /\ pc' = [pc EXCEPT ![t] = "fork_parent"]
    BY <1>9 DEF ForkAdd, At, Goto
  <2>4. ASSUME NEW u \in {t, child}
        PROVE  ~HasKeyboard(u)' /\ ~InReadline(u)'
    <3>1. u \in Pids /\ Frame(u) /\ pc[u] \in {"fork_add", "none"} /\ (u # t => pc[u] = "none")
      BY <1>0, <2>1, <2>3 DEF Unborn, Frames
    <3>2. lockid[u] = NoLock /\ ret[u] = "none"  BY <3>1 DEF Frame, LockLabels
    <3>3. pc'[u] \in {"fork_parent", "none"}  BY <2>1, <2>3, <3>1
    <3> QED  BY <1>i, <2>2, <3>2, <3>3 DEF HasKeyboard, InReadline, ReadLabels
  <2>5. ASSUME NEW u \in Tasks, u # t
        PROVE  (HasKeyboard(u)' => HasKeyboard(u)) /\ (InReadline(u)' => InReadline(u))
               /\ pc'[u] = pc[u]
    BY <1>0, <2>2, <2>3, <2>5 DEF HasKeyboard, InReadline
  <2> QED  BY <1>1, <2>1, <2>2, <2>4, <2>5 DEF KeyboardQueue
<1>10. CASE ForkParent(t)
  <2>1. Tasks' = Tasks /\ UNCHANGED <<lockid, ret, occupant>>
    BY <1>10 DEF ForkParent, Tasks, callVars, keyVars
  <2>2. \A u \in Pids : pc'[u] = pc[u] \/ pc'[u] \in {"hlt", "sysret", "boot"}
    BY <1>0, <1>10 DEF ForkParent
  <2>3. \A u \in Pids : pc'[u] # pc[u] => pc[u] \in {"fork_parent", "none"}
    BY <1>0, <1>10 DEF ForkParent, At, Unborn
  <2>4. ASSUME NEW u \in Tasks
        PROVE  /\ HasKeyboard(u)' => HasKeyboard(u)
               /\ InReadline(u)' => InReadline(u) /\ pc'[u] = pc[u]
    <3>1. CASE pc'[u] = pc[u]  BY <2>1, <3>1 DEF HasKeyboard, InReadline
    <3>2. CASE pc'[u] # pc[u]
      <4>1. lockid[u] = NoLock /\ ret[u] = "none"
        BY <1>0, <2>3, <3>2 DEF Frames, Frame, LockLabels
      <4> QED  BY <1>0, <1>i, <2>1, <2>2, <3>2, <4>1 DEF HasKeyboard, InReadline, ReadLabels
    <3> QED  BY <3>1, <3>2
  <2> QED  BY <1>1, <2>1, <2>4 DEF KeyboardQueue
<1> QED  BY <1>3, <1>4, <1>5, <1>6, <1>7, <1>8, <1>9, <1>10 DEF KernelStep

\* Interrupts wake the reader and leave it where it is.
LEMMA InterruptKeyboard ==
  ASSUME TypeOK, KeyboardQueue,
         Tick \/ KeyPress \/ KeyBreak \/ (\E t \in Tasks : Resume(t))
  PROVE  KeyboardQueue'
<1>1. UNCHANGED <<lockid, ret, locks, occupant>> /\ Tasks' = Tasks /\ Tasks \subseteq Pids
  BY TasksArePids
  DEF Tick, TimerTick, KeyPress, KeyBreak, WakeReader, Resume, Iret, callVars, lockVars,
      keyVars, Tasks, TypeOK
<1>2. \A u \in Pids : pc'[u] = pc[u] \/ (pc[u] = "sleep" /\ pc'[u] = "sleep_cli")
  BY DEF Tick, TimerTick, KeyPress, KeyBreak, WakeReader, WakeHlt, Resume, Iret,
         TypeOK, CallType
<1>3. \A u \in Tasks : /\ HasKeyboard(u)' => HasKeyboard(u)
                       /\ InReadline(u)' => InReadline(u)
                       /\ pc[u] = "readline" => pc'[u] = "readline"
  BY <1>1, <1>2 DEF HasKeyboard, InReadline, ReadLabels
<1> QED  BY <1>1, <1>3 DEF KeyboardQueue

LEMMA NextKeyboard ==
  ASSUME TypeOK, Frames, PreemptionInv, KeyboardQueue, Next PROVE KeyboardQueue'
BY LockStepKeyboard, OtherStepKeyboard, InterruptKeyboard DEF Next, PreemptionInv

-----------------------------------------------------------------------------
(* The theorems *)

\* KernelInv is inductive.
LEMMA NextKernelInv ==
  ASSUME KernelInv, [Next]_vars PROVE KernelInv'
<1>1. CASE Next
  BY <1>1, NextType, NextFrames, NextPreemption, NextMonitor, NextKeyboard
  DEF KernelInv, PreemptionInv
<1>2. CASE UNCHANGED vars
  BY <1>2
  DEF vars, schedVars, lockVars, callVars, printVars, keyVars, KernelInv, TypeOK, SchedType,
      CallType, LockType, PrintType, KeyType, PreemptionInv, ForkMasked, KernelTask, Unborn,
      Parked, Masked, MasterHeld, Frames, Frame, MonitorQueue, KeyboardQueue, Tasks,
      Executing, InMonitor, Waiting, HasKeyboard, InReadline
<1> QED  BY <1>1, <1>2

\* The kernel of this model is only preempted where its invariant allows it,
\* and its two lock queues belong to the tasks that print and read.
THEOREM KernelInvariant == Spec => []KernelInv
<1>1. Init => KernelInv
  <2> SUFFICES ASSUME Init PROVE KernelInv  OBVIOUS
  <2>1. TypeOK /\ PreemptionInv  BY InitType, InitPreemption
  <2>2. Frames
    BY DEF Init, Frames, Frame, LockLabels
  <2>3. MonitorQueue /\ KeyboardQueue
    BY <2>1, TasksArePids
    DEF Init, MonitorQueue, KeyboardQueue, Waiting, HasKeyboard, InReadline, LockIds,
        ReadLabels, Monitor, Keyboard, NoLock, TypeOK
  <2> QED  BY <2>1, <2>2, <2>3 DEF KernelInv
<1>2. KernelInv /\ [Next]_vars => KernelInv'  BY NextKernelInv
<1> QED  BY <1>1, <1>2, PTL DEF Spec

\* readline() is a critical section guarded by the keyboard lock, and the pid
\* that key presses wake is the task inside it, for any number of programs.
THEOREM ReaderExclusive == Spec => []ReaderOwnsKeyboard
<1>1. KernelInv => ReaderOwnsKeyboard
  BY DEF KernelInv, KeyboardQueue, ReaderOwnsKeyboard, HasKeyboard, InReadline
<1> QED  BY <1>1, KernelInvariant, PTL

\* Output of two tasks is never mixed, although every putchar gives up the
\* lock its puts took.
THEOREM PrinterExclusive == Spec => []OnePrinter
<1>1. KernelInv => OnePrinter  BY PrinterUnique DEF KernelInv
<1> QED  BY <1>1, KernelInvariant, PTL

\* The task list never offers a half-made child to switch_task.
THEOREM ChildIsComplete == Spec => []NoHalfMadeTask
<1>1. KernelInv => NoHalfMadeTask
  BY DEF KernelInv, TypeOK, SchedType, PreemptionInv, ForkMasked, Unborn, NoHalfMadeTask
<1> QED  BY <1>1, KernelInvariant, PTL

\* As long as kfree does not report under master_lock, the spin lock is always
\* free when a task asks for it: disabled interrupts are enough on one CPU.
THEOREM SpinLockFree == ASSUME ~HeapPrints PROVE Spec => []SpinNeverContended
<1>1. KernelInv => SpinNeverContended
  <2> SUFFICES ASSUME KernelInv, ~returning,
                      pc[current_task] \in Spins \union {"heap_puts"},
                      master_lock # 0
               PROVE  FALSE
    BY DEF SpinNeverContended
  <2> USE DEF KernelInv, TypeOK, SchedType
  <2>0. current_task \in Tasks /\ Tasks \subseteq Pids  BY TasksArePids
  <2>1. pc[current_task] \in Spins  BY <2>0 DEF Frames, Frame
  <2>2. PICK u \in Tasks : pc[u] \in HoldsMaster
    BY DEF LockType, PreemptionInv, MasterHeld
  <2>3. u # current_task  BY <2>1, <2>2 DEF Spins, HoldsMaster
  <2>4. CASE next_pid >= 3
    BY <2>2, <2>3, <2>4 DEF PreemptionInv, Parked, Executing, Open, HoldsMaster
  <2>5. CASE next_pid <= 2
    <3>1. u # Kernel /\ current_task # Kernel
      BY <2>1, <2>2, NotKernel DEF PreemptionInv, Spins, HoldsMaster
    <3> QED  BY <2>0, <2>3, <2>5, <3>1 DEF Tasks, Kernel
  <2> QED  BY <2>4, <2>5
<1> QED  BY <1>1, KernelInvariant, PTL

-----------------------------------------------------------------------------
(* Facts about the tasks that hold or wait for a lock *)

LEMMA TwoLocks ==
  /\ Monitor \in LockIds /\ Keyboard \in LockIds /\ LockIds = {Monitor, Keyboard}
  /\ Monitor # Keyboard /\ NoLock # Keyboard /\ NoLock # Monitor
BY DEF LockIds, Monitor, Keyboard, NoLock

\* Where a task reads, waits or gives the keyboard up; it is a task, and not
\* the kernel's own.
LEMMA CallerLabels ==
  ASSUME KernelInv, NEW t \in Pids, HasKeyboard(t) \/ Waiting(t, Keyboard)
  PROVE  /\ pc[t] \in ReadLabels \union LockLabels
         /\ t \in Tasks /\ t # Kernel
         /\ pc[t] \notin {"none", "heap_puts", "acquire", "spin_acquire"}
              \/ (lockid[t] = Monitor /\ InReadline(t))
<1> USE DEF KernelInv
<1>0. Frame(t)  BY DEF Frames
<1>1. pc[t] \in ReadLabels \union LockLabels
  BY <1>0 DEF HasKeyboard, InReadline, Waiting, Frame, LockLabels, ReadLabels
<1>2. t \in Tasks
  BY <1>1 DEF PreemptionInv, Unborn, ReadLabels, LockLabels
<1>3. t # Kernel
  BY <1>1, NotKernel DEF PreemptionInv, ReadLabels, LockLabels
<1>4. pc[t] \notin {"none", "heap_puts", "acquire", "spin_acquire"}
        \/ (lockid[t] = Monitor /\ InReadline(t))
  BY <1>0, <1>1, TwoLocks
  DEF HasKeyboard, InReadline, Waiting, Frame, ReadLabels, PrintLabels, LockLabels, AcquireLabels,
      ReleaseLabels
<1> QED  BY <1>1, <1>2, <1>3, <1>4

\* The keyboard has one holder.
LEMMA HolderUnique ==
  ASSUME KeyboardQueue, NEW t \in Tasks, NEW u \in Tasks, HasKeyboard(t), HasKeyboard(u)
  PROVE  t = u
BY DEF KeyboardQueue

\* A task inside readline() has the keyboard and, once past its first step,
\* is the occupant.
LEMMA ReaderHas ==
  ASSUME KernelInv, NEW t \in Tasks, InReadline(t)
  PROVE  HasKeyboard(t) /\ (pc[t] # "readline" => occupant = t)
BY DEF KernelInv, KeyboardQueue, HasKeyboard

\* While a task releases a lock, no other is between two steps of its wait loop.
LEMMA ReleaserAlone ==
  ASSUME KernelInv, NEW t \in Tasks, At(t, "release"), NEW u \in Tasks, u # t,
         pc[u] \in {"check", "block", "yield_lock", "yield_key"}
  PROVE  FALSE
<1> USE DEF KernelInv, PreemptionInv
<1>1. t # Kernel /\ u # Kernel  BY NotKernel DEF At
<1>2. next_pid >= 3  BY <1>1 DEF Tasks, Kernel, TypeOK, SchedType
<1> QED  BY <1>2 DEF Parked, Executing, At, Open

-----------------------------------------------------------------------------
(* Steps of one task that change neither a status nor the keyboard's queue *)

LEMMA LocalWakeups ==
  ASSUME KernelInv, KernelInv', Wakeups, NEW t \in Tasks, current_task = t, Local(t),
         UNCHANGED <<next_pid, current_task, status>>,
         locks'[Keyboard] = locks[Keyboard],
         pc[t] \notin {"yield_lock", "yield_key", "yield_exit", "heap_puts"},
         pc'[t] # "yield_key",
         HasKeyboard(t) \/ Waiting(t, Keyboard) => HasKeyboard(t)' \/ Waiting(t, Keyboard)',
         occupant' = occupant \/ InReadline(t),
         occupant' = t \/ occupant' = 0 \/ ~InReadline(t),
         occupant' = t /\ InReadline(t) => InReadline(t)',
         new_press' = new_press \/ InReadline(t),
         pc'[t] = "got_char" => new_press',
         pc'[t] = "block" => locks[Keyboard] # <<>> /\ Head(locks[Keyboard]) # t
  PROVE  Wakeups'
<1> USE DEF Wakeups
<1>0. t \in Pids /\ Tasks' = Tasks /\ Tasks \subseteq Pids
  BY TasksArePids DEF KernelInv, TypeOK, Tasks
<1>1. status[t] = Free  BY DEF RunningFree
<1>2. ASSUME NEW u \in Pids, u # t
      PROVE  /\ pc'[u] = pc[u] /\ lockid'[u] = lockid[u]
             /\ HasKeyboard(u)' <=> HasKeyboard(u)
             /\ InReadline(u)' <=> InReadline(u)
             /\ \A l : Waiting(u, l)' <=> Waiting(u, l)
  BY <1>2 DEF Local, HasKeyboard, InReadline, Waiting
<1>3. KeyboardMembers'
  <2>1. \A i \in DOMAIN locks[Keyboard] : locks[Keyboard][i] \in Pids
    BY TwoLocks DEF KernelInv, TypeOK, LockType
  <2> QED  BY <1>2, <2>1 DEF KeyboardMembers
<1>4. OccupantReads'
  <2>1. occupant \in Pids /\ occupant' \in Pids
    BY DEF KernelInv, TypeOK, KeyType
  <2>2. CASE occupant' = t /\ InReadline(t)  BY <2>2 DEF OccupantReads
  <2>3. CASE occupant' = occupant /\ ~InReadline(t)
    BY <1>2, <2>1, <2>3 DEF OccupantReads
  <2> QED  BY <2>2, <2>3 DEF OccupantReads
<1>5. IdleRunnable'  BY DEF IdleRunnable
<1>6. ZombiesExit'  BY <1>0, <1>1, <1>2 DEF ZombiesExit, Free, Exited
<1>7. RunningFree'  BY <1>1 DEF RunningFree
<1>8. SleepsWithoutKey'
  <2> SUFFICES ASSUME NEW u \in Tasks, pc'[u] \in {"yield_key", "got_char"}
               PROVE  status[u] = Free <=> new_press'
    BY <1>0 DEF SleepsWithoutKey
  <2>1. CASE u = t  BY <1>1, <2>1
  <2>2. CASE u # t
    <3>1. pc[u] = pc'[u] /\ InReadline(u)  BY <1>0, <1>2, <2>2 DEF InReadline, ReadLabels
    <3>2. ~InReadline(t)  BY <2>2, <3>1, ReaderHas, HolderUnique DEF KernelInv
    <3> QED  BY <3>1, <3>2 DEF SleepsWithoutKey
  <2> QED  BY <2>1, <2>2
<1>9. BlocksInTurn'
  BY <1>0, <1>2 DEF BlocksInTurn
<1>10. WokenOrHung'
  <2>1. CASE HeadNotAsleep
    <3> SUFFICES ASSUME NEW l \in LockIds, NEW u \in Tasks, Waiting(u, l)',
                        locks'[l] # <<>>, Head(locks'[l]) = u
                 PROVE  status[u] = Free
      BY <1>0 DEF HeadNotAsleep, WokenOrHung
    <3>1. l = Keyboard  BY <1>0, TwoLocks DEF KernelInv, MonitorQueue
    <3> QED  BY <1>0, <1>1, <1>2, <2>1, <3>1, TwoLocks DEF HeadNotAsleep
  <2>2. CASE \E u \in Tasks : pc[u] = "heap_puts"
    BY <1>0, <1>2, <2>2 DEF WokenOrHung
  <2> QED  BY <2>1, <2>2 DEF WokenOrHung
<1> QED  BY <1>3, <1>4, <1>5, <1>6, <1>7, <1>8, <1>9, <1>10

\* Outside the kernel's locks, keyboard and scheduler: where t moves, and that
\* it neither holds nor waits for the keyboard unless it echoes a key.
LEMMA QuietStepWakeups ==
  ASSUME KernelInv, KernelInv', Wakeups, NEW t \in Tasks,
         \/ UserStep(t) \/ SysRet(t) \/ SleepCli(t) \/ Fork(t) \/ Exec(t) \/ ExecDone(t)
         \/ Puts(t) \/ Putchar(t) \/ Putint(t)
  PROVE  Wakeups'
<1> USE DEF KernelInv, TypeOK, CallType, PrintType
<1>0. t \in Pids /\ Frame(t)  BY TasksArePids DEF Frames
<1>1. /\ current_task = t /\ UNCHANGED <<next_pid, current_task, status>>
      /\ UNCHANGED <<locks, occupant, new_press>>
  BY DEF UserStep, SysPuts, SysPutint, SysReadline, SysTask, SysOther, SysSleep, Fault,
     EnterKernel, SysRet, SleepCli, Fork, Exec, ExecDone, Puts, Putchar, Putint,
     SchedUnchanged, At, lockVars, keyVars
<1>2. Local(t)
  BY <1>0 DEF UserStep, SysPuts, SysPutint, SysReadline, SysTask, SysOther, SysSleep, Fault,
     SysRet, SleepCli, Fork, Exec, ExecDone, Puts, Putchar, Putint, CallPuts, CallLock,
     CallUnlock, Goto, callVars, printVars, Local
<1>3. pc'[t] \in {"spin_acquire", "spin_release", "sysret", "fork", "exec", "exit", "sleep",
                  "user", "fork_add", "exec_done", "boot_done"}
  BY <1>0 DEF UserStep, SysPuts, SysPutint, SysReadline, SysTask, SysOther, SysSleep, Fault,
     SysRet, SleepCli, Fork, Exec, AfterExec, ExecDone, Puts, Putchar, Putint, CallPuts,
     CallLock, CallUnlock, Goto
<1>4. pc[t] \notin LockLabels \union {"yield_key", "yield_exit", "readline"}
  BY DEF UserStep, SysPuts, SysPutint, SysReadline, SysTask, SysOther, SysSleep, Fault,
     EnterKernel, SysRet, SleepCli, Fork, Exec, AfterExec, ExecDone, Puts, Putchar, AfterPutchar,
     Putint, At, LockLabels
<1>5. lockid[t] = NoLock /\ ret[t] = "none"  BY <1>0, <1>4 DEF Frame
<1>6. InReadline(t) => InReadline(t)'
  <2>1. CASE Putchar(t)
    BY <1>0, <1>5, <2>1
    DEF Putchar, AfterPutchar, At, CallUnlock, Goto, InReadline, ReadLabels
  <2>2. CASE ~Putchar(t)
    BY <1>0, <1>5, <2>2
    DEF UserStep, SysPuts, SysPutint, SysReadline, SysTask, SysOther, SysSleep, Fault,
        EnterKernel, SysRet, SleepCli, Fork, Exec, AfterExec, ExecDone, Puts, Putint, At,
        InReadline, ReadLabels
  <2> QED  BY <2>1, <2>2
<1>7. HasKeyboard(t) \/ Waiting(t, Keyboard) => InReadline(t) /\ occupant = t
  BY <1>4, <1>5, TwoLocks, ReaderHas DEF HasKeyboard, Waiting
<1>8. HasKeyboard(t) \/ Waiting(t, Keyboard) => HasKeyboard(t)' \/ Waiting(t, Keyboard)'
  BY <1>6, <1>7 DEF HasKeyboard
<1>9. InReadline(t) => occupant' = t  BY <1>1, <1>7 DEF HasKeyboard
<1>10. pc[t] \notin {"yield_lock", "yield_key", "yield_exit", "heap_puts"}
       /\ pc'[t] \notin {"yield_key", "got_char", "block"}
  BY <1>3, <1>4 DEF LockLabels
<1> QED  BY <1>1, <1>2, <1>6, <1>8, <1>9, <1>10, LocalWakeups

\* readline() and get_char(), until they sleep.
LEMMA ReadStepWakeups ==
  ASSUME KernelInv, KernelInv', Wakeups, NEW t \in Tasks,
         Readline(t) \/ GotChar(t) \/ ReadlineEnd(t) \/ (GetChar(t) /\ new_press)
  PROVE  Wakeups'
<1> USE DEF KernelInv, TypeOK, CallType, PrintType
<1>0. t \in Pids  BY TasksArePids
<1>1. /\ current_task = t /\ UNCHANGED <<next_pid, current_task, status, locks>>
      /\ pc[t] \in {"readline", "got_char", "readline_end", "get_char"}
  BY DEF Readline, GotChar, ReadlineEnd, GetChar, SchedUnchanged, At, lockVars
<1>2. Local(t)
  BY <1>0 DEF Readline, GotChar, ReadlineEnd, GetChar, CallLock, CallUnlock, Goto, callVars,
     printVars, Local
<1>3. InReadline(t) /\ HasKeyboard(t)
  BY <1>1 DEF InReadline, HasKeyboard, ReadLabels
<1>4. HasKeyboard(t)' /\ (~ReadlineEnd(t) => InReadline(t)')
  BY <1>0, <1>1
  DEF Readline, GotChar, ReadlineEnd, GetChar, CallLock, CallUnlock, Goto, InReadline,
      HasKeyboard, ReadLabels
<1>5. /\ ReadlineEnd(t) => occupant' = 0
      /\ ~ReadlineEnd(t) => occupant' = t
  <2>1. CASE Readline(t)
    BY <1>3, <2>1 DEF Readline, KeyboardQueue, ReadlineEnd, At
  <2>2. CASE GotChar(t) \/ GetChar(t)
    BY <1>3, <2>2, ReaderHas DEF GotChar, GetChar, At, keyVars, ReadlineEnd
  <2> QED  BY <2>1, <2>2 DEF ReadlineEnd
<1>6. t # Kernel
  BY <1>1, NotKernel DEF PreemptionInv
<1>7. pc'[t] \in {"get_char", "got_char", "spin_acquire", "spin_release"}
      /\ (pc'[t] = "got_char" => new_press')
  BY <1>0 DEF Readline, GotChar, ReadlineEnd, GetChar, CallLock, CallUnlock, Goto, keyVars
<1>8. occupant' = t => InReadline(t)'
  BY <1>4, <1>5, <1>6 DEF Kernel
<1> QED  BY <1>1, <1>2, <1>3, <1>4, <1>5, <1>7, <1>8, LocalWakeups

-----------------------------------------------------------------------------
(* lock() and unlock() *)

\* KeyboardMembers after a step, from what holds of the members of the queue.
LEMMA MembersPrimed ==
  ASSUME \A i \in DOMAIN locks'[Keyboard] : \A u : u = locks'[Keyboard][i] =>
           HasKeyboard(u)' \/ Waiting(u, Keyboard)',
         \A i, j \in DOMAIN locks'[Keyboard] :
           locks'[Keyboard][i] = locks'[Keyboard][j] => i = j
  PROVE  KeyboardMembers'
BY DEF KeyboardMembers, HasKeyboard, InReadline, Waiting

\* What every step of lock() and unlock() has in common.
LEMMA LockStepFacts ==
  ASSUME KernelInv, NEW t \in Tasks, LockStep(t)
  PROVE  /\ t \in Pids /\ Frame(t) /\ Tasks' = Tasks /\ Tasks \subseteq Pids
         /\ current_task = t /\ UNCHANGED <<next_pid, current_task, occupant, new_press>>
         /\ Local(t)
         /\ pc[t] \in LockLabels \ {"yield_lock", "heap_puts"}
         /\ lockid[t] \in LockIds
<1> USE DEF KernelInv, TypeOK, CallType
<1>0. t \in Pids /\ Frame(t) /\ Tasks \subseteq Pids  BY TasksArePids DEF Frames
<1>1. /\ current_task = t /\ UNCHANGED <<next_pid, current_task, occupant, new_press>>
      /\ Tasks' = Tasks
  BY DEF LockStep, SpinLock, Acquire, Check, Block, Release, At, keyVars, Tasks
<1>2. Local(t)
  BY <1>0 DEF LockStep, SpinLock, Acquire, Check, Block, Release, HeapReports, Return,
     Goto, callVars, printVars, Local
<1>3. pc[t] \in LockLabels \ {"yield_lock", "heap_puts"}
  BY DEF LockStep, SpinLock, Spins, Acquire, Check, Block, Release, At, LockLabels
<1>4. lockid[t] \in LockIds  BY <1>0, <1>3, TwoLocks DEF Frame
<1> QED  BY <1>0, <1>1, <1>2, <1>3, <1>4

\* Leaving lock() or unlock() a task reads on, unless it gave the keyboard up.
LEMMA ReturnReads ==
  ASSUME KernelInv, NEW t \in Tasks, pc[t] \in LockLabels, Return(t)
  PROVE  /\ InReadline(t) => InReadline(t)'
         /\ lockid[t] = Keyboard /\ pc[t] \in AcquireLabels => InReadline(t)'
         /\ pc'[t] = ret[t] /\ lockid'[t] = NoLock
         /\ pc'[t] \notin {"block", "yield_key", "got_char"}
<1> USE DEF KernelInv, TypeOK, CallType
<1>0. t \in Pids /\ Frame(t)  BY TasksArePids DEF Frames
<1>1. pc'[t] = ret[t] /\ lockid'[t] = NoLock  BY <1>0 DEF Return, Goto
<1>2. pc'[t] \notin {"block", "yield_key", "got_char"}
  BY <1>0, <1>1 DEF Frame, LockReturns, LockLabels, PrintLabels, ReadLabels
<1>3. InReadline(t) => InReadline(t)'
  BY <1>1 DEF InReadline, ReadLabels, LockLabels
<1>4. lockid[t] = Keyboard /\ pc[t] \in AcquireLabels => ret[t] = "readline"
  BY <1>0, TwoLocks DEF Frame, AcquireLabels, ReleaseLabels
<1> QED  BY <1>1, <1>2, <1>3, <1>4 DEF InReadline, ReadLabels

\* The steps that leave the keyboard's queue and every status alone.
LEMMA CheckStepWakeups ==
  ASSUME KernelInv, KernelInv', Wakeups, NEW t \in Tasks, LockStep(t),
         status' = status, locks'[Keyboard] = locks[Keyboard],
         ~(pc[t] = "release" /\ lockid[t] = Keyboard),
         ~(pc[t] = "acquire" /\ pc'[t] = "spin_wait" /\ lockid[t] = Keyboard)
  PROVE  Wakeups'
<1> USE DEF KernelInv
<1>0. /\ t \in Pids /\ Frame(t)
      /\ current_task = t /\ UNCHANGED <<next_pid, current_task, occupant, new_press>>
      /\ Local(t) /\ pc[t] \in LockLabels \ {"yield_lock", "heap_puts"}
  BY LockStepFacts
<1>1. /\ pc[t] \notin {"yield_lock", "yield_key", "yield_exit", "heap_puts", "readline"}
      /\ InReadline(t) => occupant = t
  BY <1>0, ReaderHas DEF LockLabels
<1>2. CASE Return(t)
  <2>1. /\ InReadline(t) => InReadline(t)'
        /\ lockid[t] = Keyboard /\ pc[t] \in AcquireLabels => InReadline(t)'
        /\ pc'[t] \notin {"block", "yield_key", "got_char"}
    BY <1>0, <1>2, ReturnReads
  <2>2. HasKeyboard(t) \/ Waiting(t, Keyboard) => InReadline(t)'
    <3>1. pc[t] # "spin_release"
      BY <1>0, <1>2 DEF LockStep, SpinLock, Acquire, Check, Block, Release, At, Spins, AfterSpin,
         Return, Goto, TypeOK, CallType, LockReturns, ReadLabels, PrintLabels
    <3> QED  BY <2>1, <3>1 DEF HasKeyboard, Waiting, AcquireLabels
  <2> QED  BY <1>0, <1>1, <2>1, <2>2, LocalWakeups DEF HasKeyboard
<1>3. CASE UNCHANGED callVars /\ pc'[t] \in LockLabels
  <2>1. InReadline(t)' <=> InReadline(t)
    BY <1>0, <1>3 DEF callVars, InReadline, LockLabels, ReadLabels
  <2>2. /\ pc[t] = "spin_wait" => pc'[t] = "check"
        /\ pc[t] = "check" => pc'[t] = "block"
        /\ pc[t] = "block" => pc'[t] = "yield_lock"
        /\ pc[t] = "spin_release" => pc'[t] = "release"
    <3>1. CASE SpinLock(t)
      BY <1>0, <3>1 DEF SpinLock, Spins, AfterSpin, At, Goto, TypeOK, CallType
    <3>2. CASE Acquire(t) \/ Release(t)
      BY <3>2 DEF Acquire, Release, At
    <3>3. CASE Check(t) \/ Block(t)
      <4>1. ~Return(t)
        BY <1>0, <1>3
        DEF Return, Goto, TypeOK, CallType, LockLabels, LockReturns, ReadLabels, PrintLabels
      <4> QED  BY <1>0, <3>3, <4>1 DEF Check, Block, At, Goto, TypeOK, CallType
    <3> QED  BY <3>1, <3>2, <3>3 DEF LockStep
  <2>3. HasKeyboard(t) \/ Waiting(t, Keyboard) => HasKeyboard(t)' \/ Waiting(t, Keyboard)'
    BY <1>1, <1>3, <2>1, <2>2 DEF HasKeyboard, Waiting, callVars
  <2>4. pc'[t] = "block" => locks[Keyboard] # <<>> /\ Head(locks[Keyboard]) # t
    <3> SUFFICES ASSUME pc'[t] = "block" PROVE locks[Keyboard] # <<>> /\ Head(locks[Keyboard]) # t
      OBVIOUS
    <3>1. Check(t) /\ ~Return(t)
      BY <1>0, <1>3
      DEF LockStep, SpinLock, Spins, AfterSpin, Acquire, Check, Block, Release, HeapReports, At,
          Goto, Return, TypeOK, CallType, LockReturns, ReadLabels, PrintLabels
    <3>2. lockid[t] = Keyboard
      BY <3>1, LockStepFacts, TwoLocks DEF Check, At, MonitorQueue, Waiting
    <3> QED  BY <3>1, <3>2 DEF Check
  <2>5. pc'[t] \notin {"yield_key", "got_char"}  BY <1>3 DEF LockLabels
  <2> QED  BY <1>0, <1>1, <2>1, <2>3, <2>4, <2>5, LocalWakeups
<1> QED
  BY <1>0, <1>2, <1>3
  DEF LockStep, SpinLock, Acquire, Check, Block, Release, HeapReports, Goto, TypeOK, CallType,
      AfterSpin, Spins, LockLabels

\* lock() joins the queue of the keyboard, as its owner or behind the others.
LEMMA AcquireKeyboardWakeups ==
  ASSUME KernelInv, KernelInv', Wakeups, NEW t \in Tasks, LockStep(t), Acquire(t),
         lockid[t] = Keyboard, ~(locks[Keyboard] # <<>> /\ Head(locks[Keyboard]) = t)
  PROVE  Wakeups'
<1> DEFINE q == locks[Keyboard]
           r == locks'[Keyboard]
<1> USE DEF KernelInv, Wakeups
<1>0. /\ t \in Pids /\ Frame(t) /\ Tasks' = Tasks /\ Tasks \subseteq Pids
      /\ current_task = t /\ UNCHANGED <<next_pid, current_task, occupant, new_press>>
      /\ Local(t) /\ status' = status /\ pc[t] = "acquire"
  BY LockStepFacts DEF Acquire, At
<1>1. q \in Seq(Pids)  BY TwoLocks DEF TypeOK, LockType
<1>2. r = Append(q, t)
  <2>1. \/ q = <<>> /\ locks' = [locks EXCEPT ![Keyboard] = <<t>>]
        \/ q # <<>> /\ locks' = [locks EXCEPT ![Keyboard] = Append(q, t)]
    BY DEF Acquire
  <2>2. Append(<<>>, t) = <<t>>  OBVIOUS
  <2> QED  BY <2>1, <2>2, TwoLocks DEF TypeOK, LockType
<1>3. /\ Len(r) = Len(q) + 1 /\ r[Len(q) + 1] = t
      /\ \A i \in DOMAIN q : i \in DOMAIN r /\ r[i] = q[i] /\ q[i] \in Pids
      /\ \A i \in DOMAIN r : i \in DOMAIN q \/ i = Len(q) + 1
      /\ Len(q) + 1 \notin DOMAIN q
  BY <1>0, <1>1, <1>2
<1>4. ~HasKeyboard(t) /\ ~Waiting(t, Keyboard) /\ ~InReadline(t)
  BY <1>0, TwoLocks, CallerLabels DEF HasKeyboard
<1>5. HasKeyboard(t)' \/ Waiting(t, Keyboard)'
  <2>1. CASE Return(t)
    BY <1>0, <2>1, ReturnReads DEF LockLabels, AcquireLabels, HasKeyboard
  <2>2. CASE Goto(t, "spin_wait") /\ UNCHANGED callVars
    BY <1>0, <2>2 DEF Goto, callVars, Waiting, TypeOK, CallType
  <2> QED  BY <2>1, <2>2 DEF Acquire
<1>6. status[t] = Free  BY <1>0 DEF RunningFree
<1>7. pc'[t] \notin {"block", "yield_key", "got_char"}
  BY <1>0, ReturnReads DEF Acquire, Goto, TypeOK, CallType, LockLabels
<1>8. ASSUME NEW u \in Pids, u # t
      PROVE  /\ pc'[u] = pc[u] /\ lockid'[u] = lockid[u]
             /\ HasKeyboard(u)' <=> HasKeyboard(u)
             /\ InReadline(u)' <=> InReadline(u)
             /\ \A l : Waiting(u, l)' <=> Waiting(u, l)
  BY <1>0, <1>8 DEF Local, HasKeyboard, InReadline, Waiting
<1>9. KeyboardMembers'
  <2>1. \A i \in DOMAIN q : q[i] # t
    BY <1>4 DEF KeyboardMembers
  <2>2. ASSUME NEW i \in DOMAIN r, NEW u, u = r[i]
        PROVE  HasKeyboard(u)' \/ Waiting(u, Keyboard)'
    BY <1>3, <1>5, <1>8, <2>1, <2>2 DEF KeyboardMembers
  <2>3. \A i, j \in DOMAIN r : r[i] = r[j] => i = j
    BY <1>3, <2>1 DEF KeyboardMembers
  <2> QED  BY <2>2, <2>3, MembersPrimed
<1>10. OccupantReads'
  BY <1>0, <1>4, <1>8 DEF OccupantReads, TypeOK, KeyType
<1>11. IdleRunnable' /\ RunningFree'  BY <1>0, <1>6 DEF IdleRunnable, RunningFree
<1>12. ZombiesExit'  BY <1>0, <1>6, <1>8 DEF ZombiesExit, Free, Exited
<1>13. SleepsWithoutKey'  BY <1>0, <1>7, <1>8 DEF SleepsWithoutKey
<1>14. q # <<>> => r # <<>> /\ Head(r) = Head(q)
  BY <1>0, <1>1, <1>2
<1>15. BlocksInTurn'
  BY <1>0, <1>7, <1>8, <1>14 DEF BlocksInTurn
<1>16. WokenOrHung'
  <2>1. CASE HeadNotAsleep
    <3> SUFFICES ASSUME NEW l \in LockIds, NEW u \in Tasks, Waiting(u, l)',
                        locks'[l] # <<>>, Head(locks'[l]) = u
                 PROVE  status[u] = Free
      BY <1>0 DEF HeadNotAsleep, WokenOrHung
    <3>1. l = Keyboard  BY <1>0, TwoLocks DEF MonitorQueue
    <3>2. CASE q = <<>>
      <4>1. Head(r) = t  BY <1>0, <1>2, <3>2
      <4> QED  BY <1>6, <3>1, <4>1
    <3>3. CASE q # <<>>
      BY <1>0, <1>6, <1>8, <1>14, <2>1, <3>1, <3>3, TwoLocks DEF HeadNotAsleep
    <3> QED  BY <3>2, <3>3
  <2>2. CASE \E u \in Tasks : pc[u] = "heap_puts"
    BY <1>0, <1>8, <2>2 DEF WokenOrHung
  <2> QED  BY <2>1, <2>2 DEF WokenOrHung
<1> QED  BY <1>9, <1>10, <1>11, <1>12, <1>13, <1>15, <1>16

\* unlock() leaves the queue of the keyboard and wakes the next owner.
LEMMA ReleaseKeyboardWakeups ==
  ASSUME KernelInv, KernelInv', Wakeups, NEW t \in Tasks, LockStep(t), Release(t),
         lockid[t] = Keyboard
  PROVE  Wakeups'
<1> DEFINE q == locks[Keyboard]
           r == locks'[Keyboard]
<1> USE DEF KernelInv, Wakeups
<1>0. /\ t \in Pids /\ Frame(t) /\ Tasks' = Tasks /\ Tasks \subseteq Pids
      /\ current_task = t /\ UNCHANGED <<next_pid, current_task, occupant, new_press>>
      /\ Local(t) /\ pc[t] = "release"
  BY LockStepFacts DEF Release, At
<1>1. q \in Seq(Pids)  BY TwoLocks DEF TypeOK, LockType
<1>2. HasKeyboard(t) /\ q # <<>> /\ Head(q) = t
  BY <1>0 DEF HasKeyboard, KeyboardQueue
<1>3. ret[t] = "sysret" /\ ~InReadline(t)
  BY <1>0, TwoLocks DEF Frame, LockLabels, AcquireLabels, ReleaseLabels, InReadline, ReadLabels
<1>4. r = Tail(q) /\ r \in Seq(Pids)
  <2>1. \/ locks' = [locks EXCEPT ![Keyboard] = <<>>] /\ Len(q) <= 1
        \/ locks' = [locks EXCEPT ![Keyboard] = Tail(q)]
    BY <1>2 DEF Release
  <2>2. Len(q) <= 1 => Tail(q) = <<>>  BY <1>1, <1>2
  <2>3. Tail(q) \in Seq(Pids)  BY <1>1, <1>2
  <2> QED  BY <2>1, <2>2, <2>3, TwoLocks DEF TypeOK, LockType
<1>5. \A i \in DOMAIN r : i + 1 \in DOMAIN q /\ i + 1 # 1 /\ r[i] = q[i + 1] /\ r[i] \in Pids
  BY <1>1, <1>2, <1>4
<1>6. 1 \in DOMAIN q /\ q[1] = t /\ DOMAIN r \subseteq Nat
  BY <1>1, <1>2, <1>4
<1>7. \A i \in DOMAIN r : r[i] # t /\ Waiting(r[i], Keyboard) /\ r[i] \in Tasks /\ r[i] # Kernel
  <2> SUFFICES ASSUME NEW i \in DOMAIN r
               PROVE  r[i] # t /\ Waiting(r[i], Keyboard) /\ r[i] \in Tasks /\ r[i] # Kernel
    OBVIOUS
  <2>1. i + 1 \in DOMAIN q /\ i + 1 # 1 /\ r[i] = q[i + 1] /\ r[i] \in Pids  BY <1>5
  <2>2. r[i] # t  BY <1>6, <2>1 DEF KeyboardMembers
  <2>3. HasKeyboard(r[i]) \/ Waiting(r[i], Keyboard)  BY <2>1 DEF KeyboardMembers
  <2>4. r[i] \in Tasks /\ r[i] # Kernel  BY <2>1, <2>3, CallerLabels
  <2> QED  BY <1>2, <2>2, <2>3, <2>4, HolderUnique
<1>8. r # <<>> => 1 \in DOMAIN r /\ Head(r) = r[1]  BY <1>4
<1>9. /\ pc'[t] \in {"sysret", "heap_puts"}
      /\ \/ status' = status /\ (r = <<>> \/ pc'[t] = "heap_puts")
         \/ r # <<>> /\ status' = [status EXCEPT ![Head(r)] = Free]
  <2>1. CASE Len(q) <= 1
    BY <1>0, <1>1, <1>2, <1>3, <1>4, <2>1 DEF Release, Return, Goto, TypeOK, CallType
  <2>2. CASE Len(q) > 1
    <3>1. r # <<>>
      <4>1. Len(r) = Len(q) - 1  BY <1>1, <1>2, <1>4
      <4> QED  BY <1>1, <2>2, <4>1
    <3>2. Head(r) \in Tasks  BY <1>7, <1>8, <3>1
    <3>3. \/ status' = ChangeTaskStatus(Head(r), Free) /\ Return(t)
          \/ status' = status /\ HeapReports(t)
      BY <1>2, <1>4, <2>2 DEF Release
    <3> QED
      BY <1>0, <1>3, <3>1, <3>2, <3>3
      DEF ChangeTaskStatus, Return, HeapReports, Goto, TypeOK, CallType
  <2> QED  BY <1>1, <2>1, <2>2
<1>10. ASSUME NEW u \in Pids, u # t
       PROVE  /\ pc'[u] = pc[u] /\ lockid'[u] = lockid[u]
              /\ HasKeyboard(u)' <=> HasKeyboard(u)
              /\ InReadline(u)' <=> InReadline(u)
              /\ \A l : Waiting(u, l)' <=> Waiting(u, l)
  BY <1>0, <1>10 DEF Local, HasKeyboard, InReadline, Waiting
\* Nobody reads, and only the next owner changes its status.
<1>11. \A u \in Tasks : ~InReadline(u)
  BY <1>2, <1>3, ReaderHas, HolderUnique
<1>12. \A u \in Tasks : status'[u] = status[u] \/ (r # <<>> /\ u = Head(r) /\ status'[u] = Free)
  BY <1>0, <1>9 DEF TypeOK, SchedType
<1>13. KeyboardMembers'
  <2>1. ASSUME NEW i \in DOMAIN r, NEW u, u = r[i] PROVE HasKeyboard(u)' \/ Waiting(u, Keyboard)'
    BY <1>5, <1>7, <1>10, <2>1
  <2>2. ASSUME NEW i \in DOMAIN r, NEW j \in DOMAIN r, r[i] = r[j] PROVE i = j
    <3>1. i + 1 = j + 1  BY <1>5, <2>2 DEF KeyboardMembers
    <3> QED  BY <1>6, <3>1
  <2> QED  BY <2>1, <2>2, MembersPrimed
<1>14. OccupantReads'
  <2>1. occupant = 0
    <3> SUFFICES ASSUME occupant # 0 PROVE FALSE  OBVIOUS
    <3>1. InReadline(occupant) /\ occupant \in Pids  BY DEF OccupantReads, TypeOK, KeyType
    <3>2. occupant \in Tasks  BY <3>1, CallerLabels DEF HasKeyboard
    <3> QED  BY <1>11, <3>1, <3>2
  <2> QED  BY <1>0, <2>1 DEF OccupantReads
<1>15. IdleRunnable'
  BY <1>12, NotKernel DEF IdleRunnable, PreemptionInv
<1>16. status'[t] = Free
  <2>1. status[t] = Free  BY <1>0 DEF RunningFree
  <2> QED  BY <1>12, <2>1
<1>17. ZombiesExit'
  BY <1>0, <1>10, <1>12, <1>16 DEF ZombiesExit, Free, Exited
<1>18. RunningFree'  BY <1>0, <1>16 DEF RunningFree
<1>19. SleepsWithoutKey'
  BY <1>0, <1>9, <1>10, <1>11 DEF SleepsWithoutKey, InReadline, ReadLabels
<1>20. BlocksInTurn'
  BY <1>0, <1>9, <1>10, ReleaserAlone DEF BlocksInTurn, Release
<1>21. WokenOrHung'
  <2>1. CASE pc'[t] = "heap_puts"
    BY <1>0, <2>1 DEF WokenOrHung
  <2>2. CASE pc'[t] # "heap_puts"
    <3>1. r # <<>> => status'[Head(r)] = Free
      BY <1>0, <1>7, <1>8, <1>9, <2>2 DEF TypeOK, SchedType
    <3>2. \A u \in Tasks' : ~Waiting(u, Monitor)'
      BY DEF MonitorQueue
    <3>3. HeadNotAsleep'  BY <3>1, <3>2, TwoLocks DEF HeadNotAsleep
    <3> QED  BY <3>3 DEF WokenOrHung
  <2> QED  BY <2>1, <2>2
<1> QED  BY <1>13, <1>14, <1>15, <1>17, <1>18, <1>19, <1>20, <1>21

\* lock() goes to sleep, when the head is another task.
LEMMA BlockWakeups ==
  ASSUME KernelInv, KernelInv', Wakeups, NEW t \in Tasks, LockStep(t), Block(t)
  PROVE  Wakeups'
<1> USE DEF KernelInv, Wakeups
<1>0. /\ t \in Pids /\ Frame(t) /\ Tasks' = Tasks /\ Tasks \subseteq Pids
      /\ current_task = t /\ UNCHANGED <<next_pid, current_task, occupant, new_press, locks>>
      /\ Local(t) /\ pc[t] = "block" /\ pc'[t] = "yield_lock"
      /\ lockid[t] \in LockIds /\ UNCHANGED callVars
  BY LockStepFacts DEF Block, At, lockVars, Goto, TypeOK, CallType
<1>1. lockid[t] = Keyboard /\ locks[Keyboard] # <<>> /\ Head(locks[Keyboard]) # t
  BY <1>0, TwoLocks DEF MonitorQueue, Waiting, BlocksInTurn
<1>2. status' = [status EXCEPT ![t] = Blocked]
  BY DEF Block, ChangeTaskStatus
<1>3. status'[t] = Blocked /\ \A u \in Pids \ {t} : status'[u] = status[u]
  BY <1>0, <1>2 DEF TypeOK, SchedType
<1>4. ASSUME NEW u \in Pids
      PROVE  /\ HasKeyboard(u)' <=> HasKeyboard(u)
             /\ InReadline(u)' <=> InReadline(u)
             /\ \A l : Waiting(u, l)' <=> Waiting(u, l)
  BY <1>0 DEF Local, HasKeyboard, InReadline, Waiting, ReadLabels, callVars
<1>5. KeyboardMembers'
  <2>1. \A i \in DOMAIN locks[Keyboard] : locks[Keyboard][i] \in Pids
    BY TwoLocks DEF TypeOK, LockType
  <2> QED  BY <1>0, <1>4, <2>1, MembersPrimed DEF KeyboardMembers
<1>6. OccupantReads'  BY <1>0, <1>4 DEF OccupantReads, TypeOK, KeyType
<1>7. t # Kernel  BY <1>0, NotKernel DEF PreemptionInv
<1>8. IdleRunnable'  BY <1>3, <1>7, TasksArePids DEF IdleRunnable, TypeOK
<1>9. ZombiesExit'
  BY <1>0, <1>3 DEF ZombiesExit, Local, Blocked, Exited
<1>10. RunningFree'  BY <1>0 DEF RunningFree
<1>11. SleepsWithoutKey'
  BY <1>0, <1>3 DEF SleepsWithoutKey, Local
<1>12. BlocksInTurn'  BY <1>0 DEF BlocksInTurn, Local
<1>13. WokenOrHung'
  <2>1. CASE HeadNotAsleep
    <3> SUFFICES ASSUME NEW l \in LockIds, NEW u \in Tasks, Waiting(u, l)',
                        locks'[l] # <<>>, Head(locks'[l]) = u
                 PROVE  status'[u] = Free
      BY <1>0 DEF HeadNotAsleep, WokenOrHung
    <3>1. l = Keyboard  BY <1>0, TwoLocks DEF MonitorQueue
    <3> QED  BY <1>0, <1>1, <1>3, <1>4, <2>1, <3>1 DEF HeadNotAsleep
  <2>2. CASE \E u \in Tasks : pc[u] = "heap_puts"
    BY <1>0, <2>2 DEF WokenOrHung, Local
  <2> QED  BY <2>1, <2>2 DEF WokenOrHung
<1> QED  BY <1>5, <1>6, <1>8, <1>9, <1>10, <1>11, <1>12, <1>13

\* lock() and unlock() together.
LEMMA LockStepWakeups ==
  ASSUME KernelInv, KernelInv', Wakeups, NEW t \in Tasks, LockStep(t)
  PROVE  Wakeups'
<1> USE DEF KernelInv
<1>0. t \in Pids /\ lockid[t] \in LockIds  BY LockStepFacts
<1>1. CASE SpinLock(t) \/ Check(t)
  <2>1. status' = status /\ locks' = locks /\ pc[t] \notin {"release", "acquire"}
    BY <1>1 DEF SpinLock, Spins, Check, At
  <2> QED  BY <2>1, CheckStepWakeups
<1>2. CASE Acquire(t)
  <2>1. CASE lockid[t] = Keyboard /\ ~(locks[Keyboard] # <<>> /\ Head(locks[Keyboard]) = t)
    BY <1>2, <2>1, AcquireKeyboardWakeups
  <2>2. CASE lockid[t] = Keyboard /\ locks[Keyboard] # <<>> /\ Head(locks[Keyboard]) = t
    <3>1. status' = status /\ locks' = locks /\ Return(t) /\ pc[t] = "acquire"
      BY <1>2, <2>2 DEF Acquire, At
    <3>2. pc'[t] # "spin_wait"
      BY <1>0, <3>1 DEF Return, Goto, TypeOK, CallType, LockReturns, ReadLabels, PrintLabels
    <3> QED  BY <3>1, <3>2, CheckStepWakeups
  <2>3. CASE lockid[t] # Keyboard
    <3>1. status' = status /\ locks'[Keyboard] = locks[Keyboard]
      <4>1. lockid[t] = Monitor  BY <1>0, <2>3, TwoLocks
      <4> QED  BY <1>2, <4>1, TwoLocks DEF Acquire, TypeOK, LockType
    <3> QED  BY <2>3, <3>1, CheckStepWakeups
  <2> QED  BY <2>1, <2>2, <2>3
<1>3. CASE Block(t)  BY <1>3, BlockWakeups
<1>4. CASE Release(t)
  <2>1. CASE lockid[t] = Keyboard  BY <1>4, <2>1, ReleaseKeyboardWakeups
  <2>2. CASE lockid[t] # Keyboard
    <3>1. lockid[t] = Monitor  BY <1>0, <2>2, TwoLocks
    <3>2. locks[Monitor] = <<>> \/ \E u \in Tasks : locks[Monitor] = <<u>>
      BY DEF MonitorQueue
    <3>3. ~(Len(locks[Monitor]) > 1)
      <4>1. CASE locks[Monitor] = <<>>  BY <4>1
      <4>2. CASE \E u \in Tasks : locks[Monitor] = <<u>>
        <5>1. PICK u \in Tasks : locks[Monitor] = <<u>>  BY <4>2
        <5>2. Len(<<u>>) = 1  OBVIOUS
        <5> QED  BY <5>1, <5>2
      <4> QED  BY <3>2, <4>1, <4>2
    <3>4. status' = status /\ locks'[Keyboard] = locks[Keyboard]
      BY <1>4, <3>1, <3>3, TwoLocks DEF Release, TypeOK, LockType
    <3> QED  BY <2>2, <3>4, CheckStepWakeups
  <2> QED  BY <2>1, <2>2
<1> QED  BY <1>1, <1>2, <1>3, <1>4 DEF LockStep

-----------------------------------------------------------------------------
(* Steps that change a status outside the locks *)

\* A step after which everyone in the queue is where he was, and the queue is
\* what it was: the parts of Wakeups about the keyboard lock.
LEMMA SameQueue ==
  ASSUME KernelInv, KernelInv', Wakeups,
         UNCHANGED <<locks, lockid, ret>>, Tasks \subseteq Tasks', Tasks' \subseteq Pids,
         \A u \in Tasks : /\ HasKeyboard(u) => HasKeyboard(u)'
                          /\ InReadline(u) => InReadline(u)'
                          /\ Waiting(u, Keyboard) => Waiting(u, Keyboard)',
         \A u \in Tasks' : Waiting(u, Keyboard)' =>
             u \in Tasks /\ Waiting(u, Keyboard) /\ (status[u] = Free => status'[u] = Free),
         \A u \in Tasks' : pc'[u] = "block" => pc[u] = "block" /\ u \in Tasks,
         \A u \in Tasks : pc[u] = "heap_puts" => pc'[u] = "heap_puts",
         occupant' = occupant
  PROVE  KeyboardMembers' /\ OccupantReads' /\ BlocksInTurn' /\ WokenOrHung'
<1> USE DEF KernelInv, Wakeups
<1>1. KeyboardMembers'
  <2>1. \A i \in DOMAIN locks[Keyboard] : locks[Keyboard][i] \in Pids
    BY TwoLocks DEF TypeOK, LockType
  <2>2. \A i \in DOMAIN locks[Keyboard] : locks[Keyboard][i] \in Tasks
    BY <2>1, CallerLabels DEF KeyboardMembers
  <2> QED  BY <2>2, MembersPrimed DEF KeyboardMembers
<1>2. OccupantReads'
  <2> SUFFICES ASSUME occupant # 0 PROVE InReadline(occupant)'  BY DEF OccupantReads
  <2>1. InReadline(occupant) /\ occupant \in Pids  BY DEF OccupantReads, TypeOK, KeyType
  <2>2. occupant \in Tasks  BY <2>1, CallerLabels DEF HasKeyboard
  <2>3. \A u : u = occupant => InReadline(u)'  BY <2>1, <2>2
  <2> QED  BY <2>3 DEF InReadline
<1>3. BlocksInTurn'  BY DEF BlocksInTurn
<1>4. WokenOrHung'
  <2>1. CASE HeadNotAsleep
    <3> SUFFICES ASSUME NEW l \in LockIds, NEW u \in Tasks', Waiting(u, l)',
                        locks[l] # <<>>, Head(locks[l]) = u
                 PROVE  status'[u] = Free
      BY DEF HeadNotAsleep, WokenOrHung
    <3>1. l = Keyboard  BY TwoLocks DEF MonitorQueue
    <3> QED  BY <2>1, <3>1 DEF HeadNotAsleep
  <2>2. CASE \E u \in Tasks : pc[u] = "heap_puts"
    BY <2>2 DEF WokenOrHung
  <2> QED  BY <2>1, <2>2 DEF WokenOrHung
<1> QED  BY <1>1, <1>2, <1>3, <1>4

\* get_char() goes to sleep when there is no key.
LEMMA GetCharWakeups ==
  ASSUME KernelInv, KernelInv', Wakeups, NEW t \in Tasks, GetChar(t), ~new_press
  PROVE  Wakeups'
<1> USE DEF KernelInv, Wakeups
<1>0. t \in Pids /\ Tasks \subseteq Pids /\ Tasks' = Tasks
  BY TasksArePids DEF TypeOK, GetChar, Tasks
<1>1. /\ current_task = t /\ pc[t] = "get_char" /\ pc' = [pc EXCEPT ![t] = "yield_key"]
      /\ UNCHANGED <<next_pid, current_task, locks, lockid, ret, occupant, new_press>>
  BY DEF GetChar, At, Goto, lockVars, callVars, keyVars
<1>2. InReadline(t) /\ HasKeyboard(t) /\ occupant = t
  BY <1>1, ReaderHas DEF InReadline, ReadLabels
<1>3. t # Kernel  BY <1>1, NotKernel DEF PreemptionInv
<1>4. status' = [status EXCEPT ![t] = Blocked]
  BY <1>2 DEF GetChar, ChangeTaskStatus
<1>5. status'[t] = Blocked /\ \A u \in Pids \ {t} : status'[u] = status[u]
  BY <1>0, <1>4 DEF TypeOK, SchedType
<1>6. pc'[t] = "yield_key" /\ \A u \in Pids \ {t} : pc'[u] = pc[u]
  BY <1>0, <1>1 DEF TypeOK, CallType
<1>7. KeyboardMembers' /\ OccupantReads' /\ BlocksInTurn' /\ WokenOrHung'
  <2>1. \A u \in Tasks : /\ HasKeyboard(u) => HasKeyboard(u)'
                         /\ InReadline(u) => InReadline(u)'
                         /\ Waiting(u, Keyboard) => Waiting(u, Keyboard)'
    BY <1>0, <1>1, <1>6 DEF HasKeyboard, InReadline, Waiting, ReadLabels
  <2>2. \A u \in Tasks : Waiting(u, Keyboard)' =>
          Waiting(u, Keyboard) /\ (status[u] = Free => status'[u] = Free)
    BY <1>0, <1>1, <1>5, <1>6 DEF Waiting
  <2> QED  BY <1>0, <1>1, <1>6, <2>1, <2>2, SameQueue
<1>8. IdleRunnable'  BY <1>3, <1>5, TasksArePids DEF IdleRunnable, TypeOK
<1>9. ZombiesExit'  BY <1>0, <1>5, <1>6 DEF ZombiesExit, Blocked, Exited
<1>10. RunningFree'  BY <1>1, <1>6 DEF RunningFree
<1>11. SleepsWithoutKey'
  <2> SUFFICES ASSUME NEW u \in Tasks, pc'[u] \in {"yield_key", "got_char"}
               PROVE  status'[u] = Free <=> new_press
    BY <1>0, <1>1 DEF SleepsWithoutKey
  <2>1. CASE u = t  BY <1>5, <2>1 DEF Blocked, Free
  <2>2. CASE u # t
    BY <1>0, <1>5, <1>6, <2>2 DEF SleepsWithoutKey
  <2> QED  BY <2>1, <2>2
<1> QED  BY <1>7, <1>8, <1>9, <1>10, <1>11

\* exit() makes its caller a zombie.
LEMMA ExitWakeups ==
  ASSUME KernelInv, KernelInv', Wakeups, NEW t \in Tasks, Exit(t)
  PROVE  Wakeups'
<1> USE DEF KernelInv, Wakeups
<1>0. t \in Pids /\ Tasks \subseteq Pids /\ Tasks' = Tasks /\ Frame(t)
  BY TasksArePids DEF TypeOK, Exit, Tasks, Frames
<1>1. /\ current_task = t /\ pc[t] = "exit" /\ pc' = [pc EXCEPT ![t] = "yield_exit"]
      /\ UNCHANGED <<next_pid, current_task, locks, lockid, ret, occupant, new_press>>
  BY DEF Exit, At, Goto, lockVars, callVars, keyVars
<1>2. lockid[t] = NoLock /\ ret[t] = "none"  BY <1>0, <1>1 DEF Frame, LockLabels
<1>3. t # Kernel  BY <1>1, NotKernel DEF PreemptionInv
<1>4. status' = [status EXCEPT ![t] = Exited]  BY DEF Exit, ChangeTaskStatus
<1>5. \A u \in Pids \ {t} : status'[u] = status[u] /\ pc'[u] = pc[u]
  BY <1>0, <1>1, <1>4 DEF TypeOK, SchedType, CallType
<1>6. pc'[t] = "yield_exit"  BY <1>0, <1>1 DEF TypeOK, CallType
<1>7. KeyboardMembers' /\ OccupantReads' /\ BlocksInTurn' /\ WokenOrHung'
  <2>1. \A u \in Tasks : /\ HasKeyboard(u) => HasKeyboard(u)'
                         /\ InReadline(u) => InReadline(u)'
                         /\ Waiting(u, Keyboard) => Waiting(u, Keyboard)'
    BY <1>0, <1>1, <1>2, <1>5, TwoLocks DEF HasKeyboard, InReadline, Waiting, ReadLabels
  <2>2. \A u \in Tasks : Waiting(u, Keyboard)' =>
          Waiting(u, Keyboard) /\ (status[u] = Free => status'[u] = Free)
    BY <1>0, <1>1, <1>2, <1>5, TwoLocks DEF Waiting
  <2> QED  BY <1>0, <1>1, <1>5, <1>6, <2>1, <2>2, SameQueue
<1>8. IdleRunnable'  BY <1>3, <1>5, TasksArePids DEF IdleRunnable, TypeOK
<1>9. ZombiesExit'  BY <1>0, <1>5, <1>6 DEF ZombiesExit
<1>10. RunningFree'  BY <1>1, <1>6 DEF RunningFree
<1>11. SleepsWithoutKey'
  BY <1>0, <1>1, <1>5, <1>6 DEF SleepsWithoutKey
<1> QED  BY <1>7, <1>8, <1>9, <1>10, <1>11

-----------------------------------------------------------------------------
(* Forks, task switches and interrupts *)

\* The child of a fork is runnable, and neither it nor its parent uses the
\* keyboard.
LEMMA ForkWakeups ==
  ASSUME KernelInv, KernelInv', Wakeups, NEW t \in Tasks, ForkAdd(t) \/ ForkParent(t)
  PROVE  Wakeups'
<1> USE DEF KernelInv, Wakeups
<1>a. next_pid \in Nat /\ next_pid >= 1 /\ status \in [Pids -> Status]
  BY NotKernel DEF TypeOK, SchedType, PreemptionInv
<1>b. \/ /\ next_pid' = next_pid + 1 /\ next_pid \in Pids
         /\ status' = [status EXCEPT ![next_pid] = Free]
      \/ next_pid' = next_pid /\ status' = status
  BY <1>a, MaxTasksAssumption DEF ForkAdd, AddTask, ForkParent, Pids
<1>c. Tasks' = Tasks \/ (Tasks' = Tasks \union {next_pid} /\ status' = [status EXCEPT ![next_pid] = Free])
  BY <1>a, <1>b DEF Tasks
<1>0. /\ t \in Pids /\ Tasks \subseteq Pids /\ Tasks' \subseteq Pids /\ Tasks \subseteq Tasks'
      /\ next_pid - 1 \in Pids /\ Kernel \in Tasks /\ next_pid \notin Tasks
  BY <1>a, <1>b, <1>c, TasksArePids, NotKernel DEF TypeOK, PreemptionInv, Tasks
<1>1. UNCHANGED <<current_task, locks, lockid, ret, occupant, new_press>> /\ current_task = t
  BY DEF ForkAdd, ForkParent, At, lockVars, callVars, keyVars
\* The parent and the child are the only ones that move.
<1>2. \A u \in Pids : pc'[u] # pc[u] =>
        pc[u] \in {"fork_add", "fork_parent", "none"}
        /\ pc'[u] \in {"fork_parent", "hlt", "sysret", "boot"}
  BY <1>0 DEF ForkAdd, ForkParent, AddTask, At, Goto, Unborn, PreemptionInv, TypeOK, CallType
<1>3. \A u \in Tasks : status'[u] = status[u]
  BY <1>a, <1>b, <1>0
<1>4. \A u \in Tasks' \ Tasks : status'[u] = Free /\ pc[u] = "none"
  BY <1>a, <1>c, <1>0 DEF PreemptionInv, Unborn
<1>5. \A u \in Pids : pc'[u] # pc[u] \/ pc[u] = "none" => lockid[u] = NoLock /\ ret[u] = "none"
  BY <1>2 DEF Frames, Frame, LockLabels
<1>6. KeyboardMembers' /\ OccupantReads' /\ BlocksInTurn' /\ WokenOrHung'
  <2>1. \A u \in Tasks : /\ HasKeyboard(u) => HasKeyboard(u)'
                         /\ InReadline(u) => InReadline(u)'
                         /\ Waiting(u, Keyboard) => Waiting(u, Keyboard)'
    BY <1>0, <1>1, <1>2, <1>5, TwoLocks DEF HasKeyboard, InReadline, Waiting, ReadLabels
  <2>2. \A u \in Tasks' : Waiting(u, Keyboard)' =>
          u \in Tasks /\ Waiting(u, Keyboard) /\ (status[u] = Free => status'[u] = Free)
    BY <1>0, <1>1, <1>3, <1>4, <1>5, TwoLocks DEF Waiting
  <2>3. \A u \in Tasks' : pc'[u] = "block" => pc[u] = "block" /\ u \in Tasks
    BY <1>0, <1>2, <1>4
  <2>4. \A u \in Tasks : pc[u] = "heap_puts" => pc'[u] = "heap_puts"
    BY <1>0, <1>2
  <2> QED  BY <1>0, <1>1, <2>1, <2>2, <2>3, <2>4, SameQueue
<1>7. IdleRunnable'  BY <1>0, <1>3 DEF IdleRunnable
<1>8. ZombiesExit'
  BY <1>0, <1>2, <1>3, <1>4 DEF ZombiesExit, Free, Exited
<1>9. RunningFree'
  <2>1. pc[t] \in {"fork_add", "fork_parent"}  BY DEF ForkAdd, ForkParent, At
  <2> QED  BY <1>1, <1>3, <2>1 DEF RunningFree
<1>10. SleepsWithoutKey'
  BY <1>0, <1>1, <1>2, <1>3, <1>4 DEF SleepsWithoutKey
<1> QED  BY <1>6, <1>7, <1>8, <1>9, <1>10

\* switch_task picks a runnable task; the tasks stay in their queues.
LEMMA SwitchWakeups ==
  ASSUME KernelInv, KernelInv', Wakeups, next_pid' = next_pid,
         UNCHANGED <<locks, lockid, ret, occupant>>,
         \/ status' = status /\ new_press' = new_press
         \/ status' = status /\ occupant = 0
         \/ occupant # 0 /\ status' = ChangeTaskStatus(occupant, Free) /\ new_press',
         \/ SwitchTask(status')
         \/ UNCHANGED current_task /\ pc[current_task] \notin DOMAIN AfterYield
         \/ UNCHANGED <<current_task, pc>>,
         \A u \in Pids : pc'[u] # pc[u] =>
            \/ pc[u] = "sleep" /\ pc'[u] = "sleep_cli"
            \/ pc[u] \in DOMAIN AfterYield /\ pc'[u] = AfterYield[pc[u]]
  PROVE  Wakeups'
<1> USE DEF KernelInv, Wakeups
<1>0. Tasks \subseteq Pids /\ Tasks' = Tasks /\ Kernel \in Tasks /\ current_task \in Tasks
  BY TasksArePids, NotKernel DEF TypeOK, SchedType, Tasks, PreemptionInv
<1>1. \A u \in Pids : pc'[u] # pc[u] =>
         \/ pc[u] = "sleep" /\ pc'[u] = "sleep_cli"
         \/ pc[u] = "yield_lock" /\ pc'[u] = "spin_wait"
         \/ pc[u] = "yield_key" /\ pc'[u] = "got_char"
         \/ pc[u] = "yield_exit" /\ pc'[u] = "exited"
  BY DEF AfterYield
<1>2. \A u \in Tasks : status'[u] # status[u] => u = occupant /\ u # 0 /\ status'[u] = Free
  BY <1>0 DEF ChangeTaskStatus, TypeOK, SchedType
<1>3. \A u \in Tasks : status[u] = Free => status'[u] = Free  BY <1>2
<1>4. KeyboardMembers' /\ OccupantReads' /\ BlocksInTurn' /\ WokenOrHung'
  <2>1. \A u \in Tasks : /\ HasKeyboard(u) => HasKeyboard(u)'
                         /\ InReadline(u) => InReadline(u)'
                         /\ Waiting(u, Keyboard) => Waiting(u, Keyboard)'
    BY <1>0, <1>1 DEF HasKeyboard, InReadline, Waiting, ReadLabels
  <2>2. \A u \in Tasks : Waiting(u, Keyboard)' =>
          Waiting(u, Keyboard) /\ (status[u] = Free => status'[u] = Free)
    BY <1>0, <1>1, <1>3 DEF Waiting
  <2>3. \A u \in Tasks : /\ pc'[u] = "block" => pc[u] = "block"
                         /\ pc[u] = "heap_puts" => pc'[u] = "heap_puts"
    BY <1>0, <1>1
  <2> QED  BY <1>0, <2>1, <2>2, <2>3, SameQueue
<1>5. IdleRunnable'  BY <1>0, <1>3 DEF IdleRunnable
<1>6. ZombiesExit'
  BY <1>0, <1>1, <1>2 DEF ZombiesExit, Free, Exited
<1>7. RunningFree'
  <2>1. CASE SwitchTask(status')
    BY <1>0, <2>1 DEF SwitchTask, RoundRobin, RunningFree
  <2>2. CASE UNCHANGED current_task /\ pc[current_task] \notin DOMAIN AfterYield
    BY <1>0, <1>3, <2>2 DEF RunningFree, AfterYield
  <2>3. CASE UNCHANGED <<current_task, pc>>
    BY <1>0, <1>3, <2>3 DEF RunningFree
  <2> QED  BY <2>1, <2>2, <2>3
<1>8. SleepsWithoutKey'
  <2> SUFFICES ASSUME NEW u \in Tasks, pc'[u] \in {"yield_key", "got_char"}
               PROVE  status'[u] = Free <=> new_press'
    BY <1>0 DEF SleepsWithoutKey
  <2>1. pc[u] \in {"yield_key", "got_char"}  BY <1>0, <1>1
  <2>2. occupant = u /\ u # Kernel
    BY <2>1, ReaderHas, NotKernel DEF InReadline, ReadLabels, PreemptionInv
  <2>3. CASE status' = status /\ new_press' = new_press
    BY <2>1, <2>3 DEF SleepsWithoutKey
  <2>4. CASE occupant # 0 /\ status' = ChangeTaskStatus(occupant, Free) /\ new_press'
    BY <1>0, <2>2, <2>4 DEF ChangeTaskStatus, TypeOK, SchedType
  <2> QED  BY <2>2, <2>3, <2>4 DEF Kernel
<1> QED  BY <1>4, <1>5, <1>6, <1>7, <1>8

LEMMA YieldWakeups ==
  ASSUME KernelInv, KernelInv', Wakeups, NEW t \in Tasks, Yield(t)
  PROVE  Wakeups'
<1>0. t \in Pids  BY TasksArePids DEF KernelInv, TypeOK
<1>1. /\ UNCHANGED <<next_pid, locks, lockid, ret, occupant, status, new_press>>
      /\ SwitchTask(status')
  BY DEF Yield, lockVars, callVars, keyVars
<1>2. \A u \in Pids : pc'[u] # pc[u] => pc[u] \in DOMAIN AfterYield /\ pc'[u] = AfterYield[pc[u]]
  BY <1>0 DEF Yield, At, Goto, KernelInv, TypeOK, CallType
<1> QED  BY <1>1, <1>2, SwitchWakeups

\* The timer, the keyboard and the end of an interrupt.
LEMMA InterruptWakeups ==
  ASSUME KernelInv, KernelInv', Wakeups,
         Tick \/ KeyPress \/ KeyBreak \/ (\E t \in Tasks : Resume(t))
  PROVE  Wakeups'
<1>1. UNCHANGED <<next_pid, locks, lockid, ret, occupant>>
  BY DEF Tick, TimerTick, KeyPress, KeyBreak, WakeReader, Resume, Iret, lockVars, callVars,
     keyVars
<1>2. \A u \in Pids : pc'[u] # pc[u] =>
        u = current_task /\ pc[u] = "sleep" /\ pc'[u] = "sleep_cli"
  BY DEF Tick, TimerTick, KeyPress, KeyBreak, WakeReader, WakeHlt, Resume, Iret, KernelInv,
     TypeOK, CallType
<1>3. CASE Tick
  BY <1>1, <1>2, <1>3, SwitchWakeups DEF Tick, TimerTick, keyVars
<1>4. CASE KeyPress \/ KeyBreak
  <2>1. CASE occupant # 0 /\ new_press'
    BY <1>1, <1>2, <1>4, <2>1, SwitchWakeups DEF KeyPress, KeyBreak, WakeReader
  <2>2. CASE ~(occupant # 0 /\ new_press')
    <3>1. UNCHANGED <<status, current_task>> /\ (new_press' = new_press \/ occupant = 0)
      BY <1>4, <2>2 DEF KeyPress, KeyBreak, WakeReader
    <3>2. CASE pc[current_task] = "sleep"
      BY <1>1, <1>2, <3>1, <3>2, SwitchWakeups DEF AfterYield
    <3>3. CASE pc[current_task] # "sleep"
      <4>1. pc' = pc
        BY <1>4, <3>3 DEF KeyPress, KeyBreak, WakeReader, WakeHlt, KernelInv, TypeOK, CallType
      <4> QED  BY <1>1, <3>1, <4>1, SwitchWakeups
    <3> QED  BY <3>2, <3>3
  <2> QED  BY <2>1, <2>2
<1>5. CASE \E t \in Tasks : Resume(t)
  BY <1>1, <1>2, <1>5, SwitchWakeups DEF Resume, Iret, keyVars
<1> QED  BY <1>3, <1>4, <1>5

-----------------------------------------------------------------------------
(* The theorems *)

\* WakeupInv is inductive.
LEMMA NextWakeupInv ==
  ASSUME WakeupInv, [Next]_vars PROVE WakeupInv'
<1>0. KernelInv /\ Wakeups /\ KernelInv'  BY NextKernelInv DEF WakeupInv
<1>1. CASE \E t \in Tasks : UserStep(t) \/ KernelStep(t) \/ Resume(t)
  <2>1. PICK t \in Tasks : UserStep(t) \/ KernelStep(t) \/ Resume(t)  BY <1>1
  <2>2. CASE UserStep(t)  BY <1>0, <2>2, QuietStepWakeups DEF WakeupInv
  <2>3. CASE KernelStep(t)
    BY <1>0, <2>3, LockStepWakeups, QuietStepWakeups, ReadStepWakeups, GetCharWakeups,
       ExitWakeups, ForkWakeups, YieldWakeups
    DEF KernelStep, WakeupInv
  <2>4. CASE Resume(t)  BY <1>0, <2>4, InterruptWakeups DEF WakeupInv
  <2> QED  BY <2>1, <2>2, <2>3, <2>4
<1>2. CASE Tick \/ KeyPress \/ KeyBreak
  BY <1>0, <1>2, InterruptWakeups DEF WakeupInv
<1>3. CASE UNCHANGED vars
  <2>1. Wakeups'
    BY <1>0, <1>3
    DEF vars, schedVars, lockVars, callVars, printVars, keyVars, Wakeups, KeyboardMembers,
        OccupantReads, IdleRunnable, ZombiesExit, RunningFree, SleepsWithoutKey, BlocksInTurn,
        WokenOrHung, HeadNotAsleep, HasKeyboard, InReadline, Waiting, Tasks
  <2> QED  BY <1>0, <2>1 DEF WakeupInv
<1> QED  BY <1>1, <1>2, <1>3 DEF Next

\* The statuses of the tasks, the keyboard's queue and the key that waits
\* agree at every step, whatever the interleaving of tasks and interrupts.
THEOREM WakeupInvariant == Spec => []WakeupInv
<1>1. Init /\ KernelInv => WakeupInv
  <2> SUFFICES ASSUME Init, KernelInv PROVE Wakeups  BY DEF WakeupInv
  <2>0. Tasks \subseteq Pids /\ Kernel \in Pids  BY TasksArePids DEF KernelInv, TypeOK
  <2>1. \A t \in Pids : status[t] = Free /\ pc[t] \in {"fork", "none"}  BY DEF Init
  <2>2. \A l \in LockIds : locks[l] = <<>>  BY DEF Init
  <2>3. DOMAIN <<>> = {}  OBVIOUS
  <2>4. KeyboardMembers  BY <2>2, <2>3, TwoLocks DEF KeyboardMembers
  <2>5. OccupantReads  BY DEF Init, OccupantReads
  <2>6. IdleRunnable /\ ZombiesExit /\ RunningFree
    BY <2>0, <2>1
    DEF IdleRunnable, ZombiesExit, RunningFree, Free, Exited, KernelInv, TypeOK, SchedType
  <2>7. SleepsWithoutKey /\ BlocksInTurn  BY <2>0, <2>1 DEF SleepsWithoutKey, BlocksInTurn
  <2>8. WokenOrHung  BY <2>2 DEF WokenOrHung, HeadNotAsleep
  <2> QED  BY <2>4, <2>5, <2>6, <2>7, <2>8 DEF Wakeups
<1>2. WakeupInv /\ [Next]_vars => WakeupInv'  BY NextWakeupInv
<1> QED  BY <1>1, <1>2, KernelInvariant, PTL DEF Spec

\* get_char() may go on without looking at new_press again: whoever sleeps in
\* it is woken by a key and by nothing else.
THEOREM ReaderWoken == Spec => []ReaderAwakeIffKey
<1>1. WakeupInv => ReaderAwakeIffKey
  BY DEF WakeupInv, Wakeups, SleepsWithoutKey, ReaderAwakeIffKey
<1> QED  BY <1>1, WakeupInvariant, PTL

\* lock() loses no wakeup, as long as kfree does not hang unlock() before it
\* wakes the next owner.
THEOREM HeadWoken == ASSUME ~HeapPrints PROVE Spec => []HeadNotAsleep
<1>1. WakeupInv => HeadNotAsleep
  BY TasksArePids
  DEF WakeupInv, Wakeups, WokenOrHung, KernelInv, TypeOK, Frames, Frame
<1> QED  BY <1>1, WakeupInvariant, PTL

\* The kernel task is never put to sleep, so that switch_task always finds a
\* task to run.
THEOREM IdleNeverBlocked == Spec => []IdleRunnable
<1>1. WakeupInv => IdleRunnable  BY DEF WakeupInv, Wakeups
<1> QED  BY <1>1, WakeupInvariant, PTL

\* No task returns to user code, sleeps or ends with a lock, or waiting for one.
THEOREM LocksReturned == Spec => []NoLockLeak
<1>1. WakeupInv => NoLockLeak
  <2> SUFFICES ASSUME WakeupInv, NEW l \in LockIds, NEW t \in Tasks, Queued(t, l)
               PROVE  pc[t] \notin RestLabels
    BY DEF NoLockLeak
  <2> USE DEF WakeupInv, KernelInv
  <2>0. t \in Pids /\ Frame(t)  BY TasksArePids DEF TypeOK, Frames
  <2>1. CASE l = Keyboard
    <3>1. HasKeyboard(t) \/ Waiting(t, Keyboard)
      BY <2>1 DEF Queued, Wakeups, KeyboardMembers
    <3> QED  BY <2>0, <3>1, CallerLabels DEF ReadLabels, LockLabels, RestLabels
  <2>2. CASE l = Monitor
    <3>1. locks[Monitor] # <<>>  BY <2>2 DEF Queued
    <3>2. PICK u \in Tasks : locks[Monitor] = <<u>> /\ InMonitor(u)
      BY <3>1 DEF MonitorQueue
    <3>3. u = t  BY <2>2, <3>2 DEF Queued
    <3> QED
      BY <2>0, <3>2, <3>3, TwoLocks DEF InMonitor, Frame, PrintLabels, LockLabels, RestLabels
  <2> QED  BY <2>1, <2>2, TwoLocks
<1> QED  BY <1>1, WakeupInvariant, PTL

\* A task that reads or waits has not called exit().
LEMMA CallerAlive ==
  ASSUME WakeupInv, NEW u \in Pids, HasKeyboard(u) \/ Waiting(u, Keyboard)
  PROVE  u \in Tasks /\ status[u] # Exited
<1>1. u \in Tasks /\ pc[u] \in ReadLabels \union LockLabels
  BY CallerLabels DEF WakeupInv
<1> QED  BY <1>1 DEF WakeupInv, Wakeups, ZombiesExit, ReadLabels, LockLabels

\* unlock() changes the status of a task in the queue only.
LEMMA ReleaseStatus ==
  ASSUME WakeupInv, NEW t \in Tasks, LockStep(t), Release(t), NEW u \in Tasks, status[u] = Exited
  PROVE  status'[u] = Exited
<1> DEFINE q == locks[lockid[t]]
<1> USE DEF WakeupInv, KernelInv
<1>0. t \in Pids /\ lockid[t] \in LockIds /\ Tasks \subseteq Pids /\ pc[t] = "release"
  BY LockStepFacts DEF Release, At
<1>1. CASE Len(q) > 1
  <2>1. lockid[t] = Keyboard
    <3>1. ASSUME lockid[t] = Monitor, NEW v \in Tasks, locks[Monitor] = <<v>> PROVE FALSE
      <4>1. Len(<<v>>) = 1  OBVIOUS
      <4> QED  BY <1>1, <3>1, <4>1
    <3>2. ASSUME lockid[t] = Monitor, locks[Monitor] = <<>> PROVE FALSE
      <4>1. Len(<<>>) = 0  OBVIOUS
      <4> QED  BY <1>1, <3>2, <4>1
    <3> QED  BY <1>0, <3>1, <3>2, TwoLocks DEF MonitorQueue
  <2>2. q # <<>> /\ Head(q) = t
    BY <1>0, <2>1 DEF KeyboardQueue, HasKeyboard
  <2>3. q \in Seq(Pids)  BY <1>0 DEF TypeOK, LockType
  <2>4. Head(Tail(q)) = q[2] /\ 2 \in DOMAIN q /\ q[2] \in Pids
    BY <1>1, <2>2, <2>3
  <2>5. q[2] \in Tasks /\ status[q[2]] # Exited
    BY <2>1, <2>4, CallerAlive DEF Wakeups, KeyboardMembers
  <2>6. status' = status \/ status' = ChangeTaskStatus(q[2], Free)
    BY <2>2, <2>4 DEF Release
  <2> QED  BY <1>0, <2>5, <2>6 DEF ChangeTaskStatus, TypeOK, SchedType
<1>2. CASE ~(Len(q) > 1)
  BY <1>2 DEF Release
<1> QED  BY <1>1, <1>2

\* A task that called exit() stays a zombie: no unlock, no key and no sleep of
\* another task touches its status.
THEOREM ZombiesStayDead == Spec => ExitIsFinal
<1>1. WakeupInv /\ [Next]_vars => [\A t \in Tasks : status[t] = Exited => status'[t] = Exited]_vars
  <2> SUFFICES ASSUME WakeupInv, Next, NEW u \in Tasks, status[u] = Exited
               PROVE  status'[u] = Exited
    OBVIOUS
  <2> USE DEF WakeupInv, KernelInv
  <2>0. u \in Pids /\ status \in [Pids -> Status] /\ pc[u] \in {"yield_exit", "exited"}
    BY TasksArePids DEF TypeOK, SchedType, Wakeups, ZombiesExit
  <2>1. occupant # 0 => occupant # u
    BY <2>0, CallerAlive DEF Wakeups, OccupantReads, HasKeyboard, TypeOK, KeyType
  <2>2. CASE \E t \in Tasks : LockStep(t)
    <3>1. PICK t \in Tasks : LockStep(t)  BY <2>2
    <3>2. CASE Release(t)  BY <3>1, <3>2, ReleaseStatus
    <3>3. CASE Block(t)
      BY <2>0, <3>3 DEF Block, At, ChangeTaskStatus
    <3>4. CASE SpinLock(t) \/ Acquire(t) \/ Check(t)
      BY <3>4 DEF SpinLock, Acquire, Check
    <3> QED  BY <3>1, <3>2, <3>3, <3>4 DEF LockStep
  <2>3. CASE \E t \in Tasks : GetChar(t)
    <3>1. PICK t \in Tasks : GetChar(t)  BY <2>3
    <3>2. occupant = t /\ pc[t] = "get_char"
      BY <3>1, ReaderHas DEF GetChar, At, InReadline, ReadLabels
    <3> QED  BY <2>0, <3>1, <3>2 DEF GetChar, ChangeTaskStatus
  <2>4. CASE \E t \in Tasks : Exit(t)
    BY <2>0, <2>4 DEF Exit, ChangeTaskStatus
  <2>5. CASE \E t \in Tasks : ForkAdd(t)
    BY <2>0, <2>5 DEF ForkAdd, AddTask, Tasks, TypeOK, SchedType
  <2>6. CASE KeyPress \/ KeyBreak
    BY <2>0, <2>1, <2>6 DEF KeyPress, KeyBreak, WakeReader, ChangeTaskStatus
  <2>7. CASE Tick \/ \E t \in Tasks : Resume(t)
    BY <2>7 DEF Tick, TimerTick, Resume, Iret
  <2>8. ASSUME NEW t \in Tasks,
               \/ UserStep(t) \/ SysRet(t) \/ SleepCli(t) \/ Puts(t) \/ Putchar(t) \/ Putint(t)
               \/ Readline(t) \/ GotChar(t) \/ ReadlineEnd(t) \/ Fork(t) \/ ForkParent(t)
               \/ Exec(t) \/ ExecDone(t) \/ Yield(t)
        PROVE  status' = status
    BY <2>8 DEF UserStep, SysPuts, SysPutint, SysReadline, SysTask, SysOther, SysSleep, Fault,
       EnterKernel, SysRet, SleepCli, Puts, Putchar, Putint, Readline, GotChar, ReadlineEnd, Fork,
       ForkParent, Exec, ExecDone, Yield, SchedUnchanged
  <2> QED
    BY <2>2, <2>3, <2>4, <2>5, <2>6, <2>7, <2>8 DEF Next, KernelStep
<1> QED  BY <1>1, WakeupInvariant, PTL DEF Spec, ExitIsFinal

-----------------------------------------------------------------------------
(* The locks implement FifoLock *)

\* Only Acquire and Release change a queue, and they run in the current task.
LEMMA QueueStep ==
  ASSUME WakeupInv, Next
  PROVE  \/ locks' = locks
         \/ \E t \in Tasks : LockStep(t) /\ (Acquire(t) \/ Release(t))
<1>1. ASSUME NEW t \in Tasks, LockStep(t)
      PROVE  locks' = locks \/ Acquire(t) \/ Release(t)
  BY <1>1 DEF LockStep, SpinLock, Check, Block, lockVars
<1>2. ASSUME NEW t \in Tasks, UserStep(t) \/ Resume(t) \/ (KernelStep(t) /\ ~LockStep(t))
      PROVE  locks' = locks
  BY <1>2 DEF UserStep, SysPuts, SysPutint, SysReadline, SysTask, SysOther, SysSleep, Fault,
     EnterKernel, KernelStep, SysRet, SleepCli, Puts, Putchar, Putint, Readline, GetChar, GotChar,
     ReadlineEnd, Fork, ForkAdd, ForkParent, Exec, ExecDone, Exit, Yield, Resume, lockVars
<1>3. Tick \/ KeyPress \/ KeyBreak => locks' = locks
  BY DEF Tick, KeyPress, KeyBreak, WakeReader, lockVars
<1> QED  BY <1>1, <1>2, <1>3 DEF Next

\* The owner of a queue leaves it at its head.
LEMMA TailOfShort ==
  ASSUME NEW q \in Seq(Pids), q # <<>>, Len(q) <= 1 PROVE Tail(q) = <<>>
OBVIOUS

LEMMA TailOfOne ==
  ASSUME NEW t PROVE Tail(<<t>>) = <<>> /\ Head(<<t>>) = t /\ <<t>> # <<>> /\ Len(<<t>>) = 1
OBVIOUS

\* A step of the kernel is a step of the abstract keyboard lock.
LEMMA KeyboardStep ==
  ASSUME WakeupInv, Next PROVE KeyboardLock!Next
<1> DEFINE q == locks[Keyboard]
<1> USE DEF WakeupInv, KernelInv
<1>1. CASE locks' = locks  BY <1>1 DEF KeyboardLock!Next, KeyboardLock!Switch
<1>2. ASSUME NEW t \in Tasks, LockStep(t), Acquire(t) \/ Release(t)
      PROVE  KeyboardLock!Next
  <2>0. /\ t \in Pids /\ current_task = t /\ current_task' = t /\ lockid[t] \in LockIds
        /\ q \in Seq(Pids) /\ locks \in [LockIds -> Seq(Pids)]
    BY <1>2, LockStepFacts, TwoLocks DEF TypeOK, LockType
  <2>1. CASE lockid[t] = Monitor
    <3>1. locks'[Keyboard] = q  BY <1>2, <2>0, <2>1, TwoLocks DEF Acquire, Release
    <3> QED  BY <3>1 DEF KeyboardLock!Next, KeyboardLock!Switch
  <2>2. CASE lockid[t] = Keyboard /\ Acquire(t)
    <3>1. CASE locks' = locks  BY <3>1 DEF KeyboardLock!Next, KeyboardLock!Switch
    <3>2. CASE locks' # locks
      <4>1. \/ q = <<>> /\ locks' = [locks EXCEPT ![Keyboard] = <<t>>]
            \/ q # <<>> /\ locks' = [locks EXCEPT ![Keyboard] = Append(q, t)]
        BY <2>2, <3>2 DEF Acquire
      <4>2. Append(<<>>, t) = <<t>>  OBVIOUS
      <4>3. locks'[Keyboard] = Append(q, t)  BY <2>0, <4>1, <4>2, TwoLocks
      <4>4. ~(HasKeyboard(t) \/ Waiting(t, Keyboard))
        BY <2>0, <2>2, CallerLabels, TwoLocks DEF Acquire, At
      <4>5. \A i \in DOMAIN q : q[i] # t  BY <4>4 DEF Wakeups, KeyboardMembers
      <4> QED
        BY <2>0, <4>3, <4>5
        DEF KeyboardLock!Next, KeyboardLock!Ask, KeyboardLock!Asked
    <3> QED  BY <3>1, <3>2
  <2>3. CASE lockid[t] = Keyboard /\ Release(t)
    <3>1. q # <<>> /\ Head(q) = t
      BY <2>3 DEF Release, At, KeyboardQueue, HasKeyboard
    <3>2. \/ locks' = [locks EXCEPT ![Keyboard] = <<>>] /\ Len(q) <= 1
          \/ locks' = [locks EXCEPT ![Keyboard] = Tail(q)]
      BY <2>3, <3>1 DEF Release
    <3>3. locks'[Keyboard] = Tail(q)  BY <2>0, <3>1, <3>2, TwoLocks, TailOfShort
    <3> QED  BY <2>0, <3>1, <3>3 DEF KeyboardLock!Next, KeyboardLock!GiveUp
  <2> QED  BY <1>2, <2>0, <2>1, <2>2, <2>3, TwoLocks
<1> QED  BY <1>1, <1>2, QueueStep

\* A step of the kernel is a step of the abstract monitor lock: the one entry
\* that unlock() removes is its caller's, and lock() never finds another's.
LEMMA MonitorStep ==
  ASSUME WakeupInv, Next PROVE MonitorLock!Next
<1> DEFINE q == locks[Monitor]
<1> USE DEF WakeupInv, KernelInv
<1>1. CASE locks' = locks  BY <1>1 DEF MonitorLock!Next, MonitorLock!Switch
<1>2. ASSUME NEW t \in Tasks, LockStep(t), Acquire(t) \/ Release(t)
      PROVE  MonitorLock!Next
  <2>0. /\ t \in Pids /\ current_task = t /\ current_task' = t /\ lockid[t] \in LockIds
        /\ locks \in [LockIds -> Seq(Pids)]
    BY <1>2, LockStepFacts DEF TypeOK, LockType
  <2>1. CASE lockid[t] = Keyboard
    <3>1. locks'[Monitor] = q  BY <1>2, <2>0, <2>1, TwoLocks DEF Acquire, Release
    <3> QED  BY <3>1 DEF MonitorLock!Next, MonitorLock!Switch
  <2>2. CASE lockid[t] = Monitor
    <3>1. q = <<>> \/ q = <<t>>
      <4>1. InMonitor(t)  BY <2>2 DEF InMonitor
      <4> QED  BY <4>1, PrinterUnique DEF MonitorQueue, OnePrinter
    <3>2. CASE q = <<>>
      <4>1. CASE Acquire(t)
        <5>1. locks'[Monitor] = <<t>>
          BY <2>0, <2>2, <3>2, <4>1, TwoLocks DEF Acquire
        <5>2. Append(<<>>, t) = <<t>> /\ DOMAIN <<>> = {}  OBVIOUS
        <5> QED
          BY <2>0, <3>2, <5>1, <5>2 DEF MonitorLock!Next, MonitorLock!Ask, MonitorLock!Asked
      <4>2. CASE Release(t)
        <5>1. Len(<<>>) = 0  OBVIOUS
        <5>2. locks'[Monitor] = <<>>
          BY <2>0, <2>2, <3>2, <4>2, <5>1, TwoLocks DEF Release
        <5> QED  BY <3>2, <5>2 DEF MonitorLock!Next, MonitorLock!Switch
      <4> QED  BY <1>2, <4>1, <4>2
    <3>3. CASE q = <<t>>
      <4>1. CASE Acquire(t)
        <5>1. locks' = locks  BY <2>2, <3>3, <4>1, TailOfOne DEF Acquire
        <5> QED  BY <5>1 DEF MonitorLock!Next, MonitorLock!Switch
      <4>2. CASE Release(t)
        <5>1. locks'[Monitor] = <<>>
          BY <2>0, <2>2, <3>3, <4>2, TailOfOne, TwoLocks DEF Release
        <5> QED
          BY <2>0, <3>3, <5>1, TailOfOne DEF MonitorLock!Next, MonitorLock!GiveUp
      <4> QED  BY <1>2, <4>1, <4>2
    <3> QED  BY <3>1, <3>2, <3>3
  <2> QED  BY <2>0, <2>1, <2>2, TwoLocks
<1> QED  BY <1>1, <1>2, QueueStep

\* Readers are served in the order in which they called readline(), and only
\* the reader gives the keyboard up: the keyboard lock implements FifoLock.
THEOREM KeyboardServesInOrder == Spec => KeyboardFifo
<1>1. Init => KeyboardLock!Init  BY TwoLocks DEF Init, KeyboardLock!Init
<1>2. WakeupInv /\ [Next]_vars => [KeyboardLock!Next]_<<locks[Keyboard], current_task>>
  BY KeyboardStep DEF vars, schedVars, lockVars
<1> QED  BY <1>1, <1>2, WakeupInvariant, PTL DEF Spec, KeyboardFifo, KeyboardLock!Spec

\* So does the monitor lock, although unlock() does not ask whose entry it is.
THEOREM MonitorServesInOrder == Spec => MonitorFifo
<1>1. Init => MonitorLock!Init  BY TwoLocks DEF Init, MonitorLock!Init
<1>2. WakeupInv /\ [Next]_vars => [MonitorLock!Next]_<<locks[Monitor], current_task>>
  BY MonitorStep DEF vars, schedVars, lockVars
<1> QED  BY <1>1, <1>2, WakeupInvariant, PTL DEF Spec, MonitorFifo, MonitorLock!Spec
=============================================================================
