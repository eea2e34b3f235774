--------------------------- MODULE ChannelProofs ---------------------------
(***************************************************************************)
(* For every number of tasks, ring capacity and bound on sends, the ring   *)
(* holds exactly the undelivered messages, and receives hand them out in   *)
(* the order they were accepted.                                           *)
(***************************************************************************)
EXTENDS Channel, TLAPS

-----------------------------------------------------------------------------
(* Arithmetic modulo the capacity.                                         *)

\* A ring index is below the capacity.
LEMMA ModRange ==
    ASSUME NEW a \in Nat, NEW c \in Nat \ {0}
    PROVE  a % c \in 0..c-1
  OBVIOUS

\* Advancing an index by one is advancing the counter it stands for.
LEMMA ModSucc ==
    ASSUME NEW a \in Nat, NEW c \in Nat \ {0}
    PROVE  ((a % c) + 1) % c = (a + 1) % c
  <1> DEFINE q == a \div c
             r == a % c
  <1>1. q \in Nat /\ r \in 0..c-1 /\ a = (c * q) + r
    OBVIOUS
  <1>2. CASE r + 1 < c
    <2>1. (r + 1) % c = r + 1
      BY <1>1, <1>2
    <2>2. (c * q + (r + 1)) % c = r + 1
      BY <1>1, <1>2
    <2> QED  BY <1>1, <2>1, <2>2
  <1>3. CASE r + 1 = c
    <2>1. (r + 1) % c = 0
      BY <1>1, <1>3
    <2>2. a + 1 = c * (q + 1)
      BY <1>1, <1>3
    <2>3. (c * (q + 1)) % c = 0
      BY <1>1
    <2> QED  BY <2>1, <2>2, <2>3
  <1> QED  BY <1>1, <1>2, <1>3

\* Two counters less than a capacity apart have different slots.
LEMMA ModDistinct ==
    ASSUME NEW a \in Nat, NEW b \in Nat, NEW c \in Nat \ {0}, a < b, b < a + c
    PROVE  a % c # b % c
  <1> DEFINE p == a \div c
             q == b \div c
  <1> SUFFICES ASSUME a % c = b % c  PROVE FALSE
    OBVIOUS
  <1>1. p \in Nat /\ q \in Nat /\ a = (c * p) + (a % c) /\ b = (c * q) + (b % c)
    OBVIOUS
  <1>2. b - a = c * (q - p)
    BY <1>1
  <1>3. CASE q - p <= 0
    <2>1. c * (q - p) <= 0
      BY <1>1, <1>3
    <2> QED  BY <2>1, <1>2
  <1>4. CASE q - p >= 1
    <2>1. c * (q - p) >= c
      BY <1>1, <1>4
    <2> QED  BY <2>1, <1>2
  <1> QED  BY <1>1, <1>3, <1>4

-----------------------------------------------------------------------------
(* The inductive invariant: typing of the ring fields, and their agreement *)
(* with the counters.                                                      *)

RingTypeOK ==
    /\ ring \in [0..Capacity-1 -> Messages \cup {NoMsg}]
    /\ head \in 0..Capacity-1 /\ tail \in 0..Capacity-1 /\ msgcount \in Nat
    /\ total_sends \in Nat /\ total_recvs \in Nat

RingInv == RingTypeOK /\ RingHoldsUndelivered

\* A freshly created channel has an empty, consistent ring.
LEMMA InitRing == Init => RingInv
  BY CapacityAssumption DEF Init, RingInv, RingTypeOK, RingHoldsUndelivered

\* Installing a message at tail keeps the ring consistent: the slot written is
\* not the slot of any undelivered message.
LEMMA EnqueueRing ==
    ASSUME RingInv, NEW t \in Senders, Enqueue(t)
    PROVE  RingInv'
  <1> USE CapacityAssumption
  <1>1. total_sends < total_recvs + Capacity
    BY DEF RingInv, RingTypeOK, RingHoldsUndelivered, Enqueue, Room
  <1>2. RingTypeOK'
    <2>1. [sender_pid |-> t, seq |-> total_sends] \in Messages
      BY DEF RingInv, RingTypeOK, Messages
    <2>2. tail' \in 0..Capacity-1
      BY ModRange DEF RingInv, RingTypeOK, Enqueue, Room
    <2> QED  BY <2>1, <2>2 DEF RingInv, RingTypeOK, Enqueue, Room
  <1>3. tail' = total_sends' % Capacity
    BY ModSucc DEF RingInv, RingTypeOK, RingHoldsUndelivered, Enqueue, Room
  <1>4. ASSUME NEW k \in total_recvs'..(total_sends' - 1)
        PROVE  ring'[k % Capacity].seq = k
    <2>1. k \in Nat /\ total_recvs <= k /\ k <= total_sends /\ k % Capacity \in 0..Capacity-1
      BY ModRange DEF RingInv, RingTypeOK, Enqueue, Room
    <2>2. CASE k = total_sends
      BY <2>1, <2>2 DEF RingInv, RingTypeOK, RingHoldsUndelivered, Enqueue, Room
    <2>3. CASE k < total_sends
      <3>0. total_sends < k + Capacity /\ total_sends \in Nat
        BY <2>1, <1>1 DEF RingInv, RingTypeOK
      <3>1. k % Capacity # tail
        <4>1. k % Capacity # total_sends % Capacity
          BY <2>1, <2>3, <3>0, ModDistinct
        <4> QED  BY <4>1 DEF RingInv, RingHoldsUndelivered
      <3>2. ring'[k % Capacity] = ring[k % Capacity]
        BY <3>1, <2>1 DEF RingInv, RingTypeOK, Enqueue, Room
      <3>3. ring[k % Capacity].seq = k
        BY <2>1, <2>3 DEF RingInv, RingTypeOK, RingHoldsUndelivered
      <3> QED  BY <3>2, <3>3
    <2> QED  BY <2>1, <2>2, <2>3 DEF RingInv, RingTypeOK
  <1>5. /\ msgcount' + total_recvs' = total_sends'
        /\ msgcount' <= Capacity
        /\ head' = total_recvs' % Capacity
    BY DEF RingInv, RingTypeOK, RingHoldsUndelivered, Enqueue, Room
  <1>6. RingHoldsUndelivered'
    BY <1>3, <1>4, <1>5 DEF RingHoldsUndelivered
  <1> QED  BY <1>2, <1>6 DEF RingInv

\* Taking the message at head keeps the ring consistent.
LEMMA DequeueRing ==
    ASSUME RingInv, NEW t \in Receivers, Dequeue(t)
    PROVE  RingInv'
  <1> USE CapacityAssumption
  <1>1. head' \in 0..Capacity-1
    BY ModRange DEF RingInv, RingTypeOK, Dequeue
  <1>2. RingTypeOK'
    BY <1>1 DEF RingInv, RingTypeOK, Dequeue
  <1>3. head' = total_recvs' % Capacity
    BY ModSucc DEF RingInv, RingTypeOK, RingHoldsUndelivered, Dequeue, NextOut
  <1>4. ASSUME NEW k \in total_recvs'..(total_sends' - 1)
        PROVE  ring'[k % Capacity].seq = k
    <2>1. k \in total_recvs..(total_sends - 1)
      BY DEF RingInv, RingTypeOK, Dequeue
    <2> QED  BY <2>1 DEF RingInv, RingHoldsUndelivered, Dequeue, NextOut
  <1>5. /\ msgcount' + total_recvs' = total_sends'
        /\ msgcount' <= Capacity
        /\ tail' = total_sends' % Capacity
    BY DEF RingInv, RingTypeOK, RingHoldsUndelivered, Dequeue, NextOut
  <1>6. RingHoldsUndelivered'
    BY <1>3, <1>4, <1>5 DEF RingHoldsUndelivered
  <1> QED  BY <1>2, <1>6 DEF RingInv

\* A step that leaves the ring fields alone.
LEMMA StutterRing == RingInv /\ UNCHANGED ringVars => RingInv'
  BY DEF RingInv, RingTypeOK, RingHoldsUndelivered, ringVars

\* Every step of the channel keeps the ring consistent.
LEMMA StepRing == RingInv /\ [Next]_vars => RingInv'
  <1> SUFFICES ASSUME RingInv, [Next]_vars PROVE RingInv'
    OBVIOUS
  <1>1. ASSUME NEW t \in Tasks, SendTry(t) PROVE RingInv'
    BY <1>1, EnqueueRing, StutterRing DEF SendTry, Frozen, FoundFull
  <1>2. ASSUME NEW t \in Tasks, RecvTry(t) PROVE RingInv'
    BY <1>2, DequeueRing, StutterRing DEF RecvTry, Frozen, PeerClosed, FoundEmpty
  <1>3. ASSUME NEW t \in Tasks, NEW to \in Timeouts, Call(t, to) PROVE RingInv'
    BY <1>3, StutterRing DEF Call
  <1>4. ASSUME NEW t \in Tasks,
               TypeMismatch(t) \/ Block(t) \/ Resume(t) \/ DeadlineScan(t)
        PROVE  RingInv'
    BY <1>4, StutterRing DEF TypeMismatch, Block, Resume, DeadlineScan
  <1>5. ASSUME NEW side \in Sides, Deactivate(side) PROVE RingInv'
    BY <1>5, StutterRing DEF Deactivate
  <1>6. ASSUME NEW snap \in SnapIds, Freeze(snap) \/ Thaw(snap) PROVE RingInv'
    BY <1>6, StutterRing DEF Freeze, Thaw
  <1>7. CASE UNCHANGED vars
    BY <1>7, StutterRing DEF vars
  <1> QED  BY <1>1, <1>2, <1>3, <1>4, <1>5, <1>6, <1>7 DEF Next

\* chan_send and chan_recv keep the ring exactly the accepted and undelivered
\* messages, in the slots of their numbers, under every interleaving.
THEOREM RingSafety == Spec => []RingHoldsUndelivered
  <1>1. RingInv => RingHoldsUndelivered
    BY DEF RingInv
  <1> QED  BY InitRing, StepRing, <1>1, PTL DEF Spec
\* Each receive hands out the message whose number is the count of receives
\* before it: chan_recv neither skips, repeats nor reorders messages.
THEOREM DeliveryOrder == Spec => DeliversInOrder
  <1> DEFINE InOrder == \A t \in Receivers : got'[t] # got[t] =>
                          /\ got'[t].seq = total_recvs
                          /\ total_recvs' = total_recvs + 1
  <1>1. RingInv /\ [Next]_vars => [InOrder]_vars
    <2> SUFFICES ASSUME RingInv, Next PROVE InOrder
      BY DEF vars
    <2>1. ASSUME NEW t \in Tasks, RecvTry(t) PROVE InOrder
      <3>1. CASE Dequeue(t)
        <4>1. msgcount > 0 /\ total_recvs \in total_recvs..(total_sends - 1)
          BY <3>1 DEF RingInv, RingTypeOK, RingHoldsUndelivered, Dequeue, NextOut
        <4>2. ring[head].seq = total_recvs
          BY <4>1 DEF RingInv, RingHoldsUndelivered
        <4> QED  BY <3>1, <4>2 DEF Dequeue, NextOut
      <3> QED  BY <2>1, <3>1 DEF RecvTry, Frozen, PeerClosed, FoundEmpty
    <2>2. CASE got' = got
      BY <2>2
    <2>3. ASSUME NEW t \in Tasks, SendTry(t) PROVE got' = got
      BY <2>3 DEF SendTry, Frozen, Enqueue, FoundFull
    <2>4. ASSUME NEW t \in Tasks, NEW to \in Timeouts, Call(t, to) PROVE got' = got
      BY <2>4 DEF Call
    <2>5. ASSUME NEW t \in Tasks,
                 TypeMismatch(t) \/ Block(t) \/ Resume(t) \/ DeadlineScan(t)
          PROVE  got' = got
      BY <2>5 DEF TypeMismatch, Block, Resume, DeadlineScan, callVars
    <2>6. ASSUME NEW side \in Sides, Deactivate(side) PROVE got' = got
      BY <2>6 DEF Deactivate, callVars
    <2>7. ASSUME NEW snap \in SnapIds, Freeze(snap) \/ Thaw(snap) PROVE got' = got
      BY <2>7 DEF Freeze, Thaw, callVars
    <2> QED  BY <2>1, <2>2, <2>3, <2>4, <2>5, <2>6, <2>7 DEF Next
  <1> QED  BY <1>1, InitRing, StepRing, PTL DEF Spec, DeliversInOrder

\* No step moves the ring of a channel a snapshot holds: chan_send and
\* chan_recv test the freeze mark in the critical section that uses the ring.
THEOREM FrozenRingStill == Spec => FrozenQueueStable
  <1>1. [Next]_vars => [frozen_at_snap # 0 => UNCHANGED ringVars]_vars
    <2> SUFFICES ASSUME Next, frozen_at_snap # 0 PROVE UNCHANGED ringVars
      BY DEF vars
    <2>1. ASSUME NEW t \in Tasks, SendTry(t) PROVE UNCHANGED ringVars
      BY <2>1 DEF SendTry, Frozen, Enqueue, FoundFull, Held
    <2>2. ASSUME NEW t \in Tasks, RecvTry(t) PROVE UNCHANGED ringVars
      BY <2>2 DEF RecvTry, Frozen, Dequeue, PeerClosed, FoundEmpty, Held
    <2>3. ASSUME NEW t \in Tasks, NEW to \in Timeouts, Call(t, to)
          PROVE  UNCHANGED ringVars
      BY <2>3 DEF Call
    <2>4. ASSUME NEW t \in Tasks,
                 TypeMismatch(t) \/ Block(t) \/ Resume(t) \/ DeadlineScan(t)
          PROVE  UNCHANGED ringVars
      BY <2>4 DEF TypeMismatch, Block, Resume, DeadlineScan
    <2>5. ASSUME NEW side \in Sides, Deactivate(side) PROVE UNCHANGED ringVars
      BY <2>5 DEF Deactivate
    <2>6. ASSUME NEW snap \in SnapIds, Freeze(snap) \/ Thaw(snap)
          PROVE  UNCHANGED ringVars
      BY <2>6 DEF Freeze, Thaw
    <2> QED  BY <2>1, <2>2, <2>3, <2>4, <2>5, <2>6 DEF Next
  <1> QED  BY <1>1, PTL DEF Spec, FrozenQueueStable
=============================================================================
