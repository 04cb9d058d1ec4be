---------------------------- MODULE MCScheduler ----------------------------
(***************************************************************************)
(* Instances of Scheduler for TLC.  The tasks are interchangeable.         *)
(***************************************************************************)
EXTENDS Scheduler, TLC

CONSTANTS t1, t2, f1

MCTasks   == {t1, t2}
MCFuture  == {f1}
Symmetry  == Permutations(MCTasks)

MCDelays  == {0, 1, 2}
MCNext    == {1}
=============================================================================
