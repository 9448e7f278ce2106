------------------------ MODULE MCSchedulerLifecycle ------------------------
(***************************************************************************)
(* Small instances of SchedulerLifecycle for TLC.  Three thread objects    *)
(* per agent are enough: the registered one, one a worker still waits for, *)
(* and a fresh one.                                                        *)
(***************************************************************************)
EXTENDS SchedulerLifecycle, TLC

Symmetry == Permutations(Agents) \cup Permutations(Threads)
=============================================================================
