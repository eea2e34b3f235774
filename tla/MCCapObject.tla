---------------------------- MODULE MCCapObject ----------------------------
(* Instances of CapObject for TLC.                                         *)
EXTENDS CapObject, TLC

PidSymmetry == Permutations(Pids)
=============================================================================
