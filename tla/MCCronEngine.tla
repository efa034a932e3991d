---------------------------- MODULE MCCronEngine ----------------------------
(* Instances of CronEngine for TLC; the sets of model values are in the    *)
(* configurations.                                                         *)
EXTENDS CronEngine, TLC

Symmetry == Permutations(Tasks) \cup Permutations(RunIds)
=============================================================================
