----------------------------- MODULE MCSnapCow -----------------------------
(* Instances of SnapCow for TLC.                                           *)
EXTENDS SnapCow, TLC

CONSTANTS s1, s2

MCOwner == (s1 :> "self") @@ (s2 :> "other")

FrameSymmetry == Permutations(Frames) \cup Permutations(Values)
=============================================================================
