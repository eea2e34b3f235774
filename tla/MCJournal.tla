----------------------------- MODULE MCJournal -----------------------------
(* Model values for the journal: a few blocks, transactions and crashes.   *)
EXTENDS Journal, TLC

BlockSymmetry == Permutations(Blocks)
=============================================================================
