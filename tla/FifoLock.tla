------------------------------- MODULE FifoLock -------------------------------
(***************************************************************************)
(* What one lock of b_locking.c promises its callers: tasks are served in  *)
(* the order they asked, the head of the queue owns the lock, only the     *)
(* owner gives it up and only on its own time, and nobody asks twice.      *)
(***************************************************************************)
EXTENDS Sequences

VARIABLES
  queue,     \* the tasks that asked, the owner first
  running    \* the task that has the CPU

Asked == {queue[i] : i \in DOMAIN queue}

Init == queue = <<>>

\* lock(): the running task takes its place at the end of the queue.
Ask ==
  /\ running \notin Asked
  /\ queue' = Append(queue, running)
  /\ running' = running

\* unlock(): the owner leaves.
GiveUp ==
  /\ queue # <<>>
  /\ running = Head(queue)
  /\ queue' = Tail(queue)
  /\ running' = running

\* Which task runs is the scheduler's business.
Switch == queue' = queue

Next == Ask \/ GiveUp \/ Switch

Spec == Init /\ [][Next]_<<queue, running>>

=============================================================================
