------------------------------ MODULE MsgQueue ------------------------------
(***************************************************************************)
(* What a channel promises its users: a bounded first-in first-out queue   *)
(* of numbered messages with two closable ends, which a snapshot can hold  *)
(* still.  Nothing here blocks, waits or is woken; Channel implements it.  *)
(***************************************************************************)
EXTENDS Naturals, Sequences

CONSTANTS Senders, Receivers, Capacity, NoMsg

VARIABLES queue, accepted, delivered, open, held

vars == <<queue, accepted, delivered, open, held>>

Init ==
    /\ queue = <<>> /\ accepted = 0
    /\ delivered = [r \in Receivers |-> NoMsg]
    /\ open = {"read", "write"} /\ held = FALSE

Accept(s) ==
    /\ ~held /\ "write" \in open
    /\ Len(queue) < Capacity
    /\ queue' = Append(queue, [sender_pid |-> s, seq |-> accepted])
    /\ accepted' = accepted + 1
    /\ UNCHANGED <<delivered, open, held>>

Deliver(r) ==
    /\ ~held /\ "read" \in open
    /\ queue # <<>>
    /\ delivered' = [delivered EXCEPT ![r] = Head(queue)]
    /\ queue' = Tail(queue)
    /\ UNCHANGED <<accepted, open, held>>

Close(side) ==
    /\ side \in open
    /\ open' = open \ {side}
    /\ UNCHANGED <<queue, accepted, delivered, held>>

Hold == held' = ~held /\ UNCHANGED <<queue, accepted, delivered, open>>

Next ==
    \/ \E s \in Senders : Accept(s)
    \/ \E r \in Receivers : Deliver(r)
    \/ \E side \in {"read", "write"} : Close(side)
    \/ Hold

Spec == Init /\ [][Next]_vars
=============================================================================
