---------------------------- MODULE MCScheduler ----------------------------
(***************************************************************************)
(* Instances of Scheduler for TLC. CountRange = 16 stands for 2^32: the    *)
(* counter is never off by more than MaxTasks.                             *)
(***************************************************************************)
EXTENDS Scheduler

CONSTANTS w1, w2, c1

MCWorkers == {w1, w2}
MCCallers == {c1}
=============================================================================
