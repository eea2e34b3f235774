------------------------------- MODULE MCTxn -------------------------------
(* Small instances of Txn: the task (pid 1) holds a channel to an outside   *)
(* process (pid 2) and one to itself.                                       *)
EXTENDS Txn, TLC

PeersOneOutside == "ext" :> 2 @@ "own" :> 1
=============================================================================
