------------------------------- MODULE MCKernel -------------------------------
(***************************************************************************)
(* Instances of the kernel for TLC: the kernel task, and programs forked   *)
(* from the shell up to MaxTasks tasks in all.                             *)
(***************************************************************************)
EXTENDS KernelProps
=============================================================================
