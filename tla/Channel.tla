------------------------------ MODULE Channel ------------------------------
(***************************************************************************)
(* One kernel channel (kernel/ipc/channel.c) and the wait/wake primitives  *)
(* of the scheduler it is built on (arch/x86_64/cpu/sched/sched.c).        *)
(*                                                                         *)
(* A task inside chan_send or chan_recv is at one of three places:         *)
(*   "try"    about to take c->lock and look at the ring;                  *)
(*   "block"  it found the ring full (empty), has released c->lock, and    *)
(*            has not yet taken sched_lock to put itself on a waiter list; *)
(*   "wait"   it is on a waiter list, or has been taken off it, and has    *)
(*            not yet resumed inside sched_block_on_channel.               *)
(* Each of these is one step, because each is one critical section; steps  *)
(* of tasks on different CPUs interleave freely between them.              *)
(*                                                                         *)
(* Payload, handle array and message length are abstracted: a message is   *)
(* its header's sender_pid and seq.  Handle passing is left out;           *)
(* transactional routing is Txn's subject.                                 *)
(***************************************************************************)
EXTENDS Naturals, Sequences, FiniteSets

CONSTANTS
    Senders,      \* tasks that call chan_send
    Receivers,    \* tasks that call chan_recv
    Capacity,     \* c->capacity
    MaxSends,     \* bound: messages ever accepted
    Timeouts,     \* timeout_ns classes the callers use
    Modes,        \* values of c->mode
    SnapIds,      \* snapshots that may freeze the channel
    NoMsg         \* content of a ring slot never written

Tasks == Senders \cup Receivers

ASSUME CapacityAssumption == Capacity \in Nat \ {0}
ASSUME BoundAssumption == MaxSends \in Nat
ASSUME TaskAssumption == Senders \cap Receivers = {}
ASSUME TimeoutAssumption == Timeouts \subseteq {"zero", "finite", "forever"}
ASSUME ModeAssumption == Modes \subseteq {"blocking", "nonblocking"}
ASSUME SnapAssumption == SnapIds \subseteq Nat \ {0}

VARIABLES
    ring, head, tail, msgcount,    \* the message ring
    total_sends, total_recvs,      \* counters; seq_next equals total_sends
    mode, type_rejects,            \* c->mode; sends refused by the type gate (0 or 1: "some")
    endpoints,                     \* endpoint cap_objects alive; refcount is their number
    frozen_at_snap,                \* 0, or the snapshot that holds the channel
    read_waiters, write_waiters,   \* waiter lists, first element = list head
    pc, timeout,                   \* per task: place in the call, its timeout argument
    state, wait_result,            \* per task: scheduler state and wake reason
    got                            \* per receiver: the message its buffer (msg_kern) holds

ringVars == <<ring, head, tail, msgcount, total_sends, total_recvs>>
waitVars == <<read_waiters, write_waiters, state, wait_result>>
chanVars == <<mode, type_rejects, endpoints, frozen_at_snap>>
callVars == <<pc, timeout, got>>
vars == <<ringVars, waitVars, chanVars, callVars>>

Sides == {"read", "write"}
Messages == [sender_pid : Senders, seq : Nat]
SideOf(t) == IF t \in Senders THEN "write" ELSE "read"

refcount == IF endpoints = Sides THEN 2 ELSE IF endpoints = {} THEN 0 ELSE 1

-----------------------------------------------------------------------------
(* chan_create: an empty ring, both endpoints live.                        *)
Init ==
    /\ ring = [i \in 0..Capacity-1 |-> NoMsg]
    /\ head = 0 /\ tail = 0 /\ msgcount = 0
    /\ total_sends = 0 /\ total_recvs = 0
    /\ mode \in Modes
    /\ type_rejects = 0
    /\ endpoints = Sides
    /\ frozen_at_snap = 0
    /\ read_waiters = <<>> /\ write_waiters = <<>>
    /\ pc = [t \in Tasks |-> "idle"]
    /\ timeout = [t \in Tasks |-> "zero"]
    /\ state = [t \in Tasks |-> "RUNNING"]
    /\ wait_result = [t \in Tasks |-> "OK"]
    /\ got = [t \in Receivers |-> NoMsg]

-----------------------------------------------------------------------------
(* Scheduler primitives.                                                   *)

Woken(S, st) == [t \in Tasks |->
                    IF t \in S /\ st[t] = "CHAN_WAIT" THEN "READY" ELSE st[t]]

\* sched_wake_one_on_channel: the list head is popped and given the wake
\* result whether or not it still sleeps.
WakeOne(list, list_, rc) ==
    IF list = <<>>
    THEN list_ = list /\ UNCHANGED <<state, wait_result>>
    ELSE /\ list_ = Tail(list)
         /\ wait_result' = [wait_result EXCEPT ![Head(list)] = rc]
         /\ state' = Woken({Head(list)}, state)

OnList(list) == {list[i] : i \in 1..Len(list)}

\* sched_wake_all_on_channel on both lists with one wake result.
WakeAll(rc) ==
    LET S == OnList(read_waiters) \cup OnList(write_waiters) IN
    /\ read_waiters' = <<>> /\ write_waiters' = <<>>
    /\ wait_result' = [t \in Tasks |-> IF t \in S THEN rc ELSE wait_result[t]]
    /\ state' = Woken(S, state)

\* Mutant: the resuming task trusts its waker to have unlinked it.
UnlinkTrusting(list, t) == list

Unlink(list, t) == SelectSeq(list, LAMBDA x : x # t)


\* schedule(), BSP deadline scan: an expired sleeper becomes READY with
\* -ETIMEDOUT; it stays on its waiter list.
DeadlineScan(t) ==
    /\ state[t] = "CHAN_WAIT"
    /\ timeout[t] = "finite"
    /\ wait_result' = [wait_result EXCEPT ![t] = "ETIMEDOUT"]
    /\ state' = [state EXCEPT ![t] = "READY"]
    /\ UNCHANGED <<ringVars, chanVars, callVars, read_waiters, write_waiters>>

\* The call ends.  What it returns is the name of the disjunct that ends it:
\* 0 (Enqueue), the message (Dequeue), EFROZEN, EPIPE, EAGAIN, EPROTOTYPE or
\* the wake result.
Return(t) ==
    /\ pc' = [pc EXCEPT ![t] = "idle"]
    /\ timeout' = [timeout EXCEPT ![t] = "zero"]

\* The caller puts itself at the head of the list and goes to sleep.
SleepOn(t) ==
    /\ IF t \in Senders
       THEN write_waiters' = <<t>> \o write_waiters /\ UNCHANGED read_waiters
       ELSE read_waiters' = <<t>> \o read_waiters /\ UNCHANGED write_waiters
    /\ wait_result' = [wait_result EXCEPT ![t] = "OK"]
    /\ state' = [state EXCEPT ![t] = "CHAN_WAIT"]
    /\ pc' = [pc EXCEPT ![t] = "wait"]
    /\ UNCHANGED timeout

\* Full (empty) ring, c->lock released: give up or sleep.  This is the
\* second half of an iteration of the chan_send / chan_recv loop.
Block(t) ==
    /\ pc[t] = "block"
    /\ IF mode = "nonblocking" \/ timeout[t] = "zero"
       THEN Return(t) /\ UNCHANGED waitVars
       ELSE SleepOn(t)
    /\ UNCHANGED <<ringVars, chanVars, got>>

\* The tail of sched_block_on_channel once the task runs again, and the test
\* of its result by the caller: unlink, then return the error or retry.
Resume(t) ==
    /\ pc[t] = "wait" /\ state[t] # "CHAN_WAIT"
    /\ read_waiters' = Unlink(read_waiters, t)
    /\ write_waiters' = Unlink(write_waiters, t)
    /\ state' = [state EXCEPT ![t] = "RUNNING"]
    /\ IF wait_result[t] # "OK"
       THEN Return(t)
       ELSE pc' = [pc EXCEPT ![t] = "try"] /\ UNCHANGED timeout
    /\ UNCHANGED <<ringVars, chanVars, wait_result, got>>

-----------------------------------------------------------------------------
(* chan_send / chan_recv.                                                  *)

\* Bound: sends in progress and sends accepted stay within MaxSends.
SendBudget(t) == t \in Senders =>
    total_sends + Cardinality({s \in Senders : pc[s] # "idle"}) < MaxSends

\* chan_resolve_endpoint found the task's side alive and chan_check passed.
Call(t, to) ==
    /\ pc[t] = "idle"
    /\ SendBudget(t)
    /\ SideOf(t) \in endpoints
    /\ pc' = [pc EXCEPT ![t] = "try"]
    /\ timeout' = [timeout EXCEPT ![t] = to]
    /\ UNCHANGED <<ringVars, waitVars, chanVars, got>>

\* A message whose type_hash is not the channel's is refused and counted.
TypeMismatch(t) ==
    /\ t \in Senders /\ pc[t] = "idle" /\ "write" \in endpoints
    /\ type_rejects' = 1
    /\ Return(t)
    /\ UNCHANGED <<ringVars, waitVars, mode, endpoints, frozen_at_snap, got>>

Held == frozen_at_snap # 0

\* Mutant: the fullness test is off by one.
RoomOffByOne == msgcount <= Capacity

Room == msgcount < Capacity

\* Mutant: the newest message is taken instead of the oldest.
NextOutNewest == (tail + Capacity - 1) % Capacity

NextOut == head

Frozen(t) ==
    /\ Held
    /\ Return(t)
    /\ UNCHANGED <<ringVars, waitVars, got>>

Enqueue(t) ==
    /\ ~Held
    /\ Room
    /\ ring' = [ring EXCEPT ![tail] = [sender_pid |-> t, seq |-> total_sends]]
    /\ tail' = (tail + 1) % Capacity
    /\ msgcount' = msgcount + 1
    /\ total_sends' = total_sends + 1
    /\ WakeOne(read_waiters, read_waiters', "OK")
    /\ UNCHANGED write_waiters
    /\ Return(t)
    /\ UNCHANGED <<head, total_recvs, got>>

FoundFull(t) ==
    /\ ~Held
    /\ ~Room
    /\ pc' = [pc EXCEPT ![t] = "block"]
    /\ UNCHANGED <<ringVars, waitVars, timeout, got>>

SendTry(t) ==
    /\ t \in Senders /\ pc[t] = "try"
    /\ Frozen(t) \/ Enqueue(t) \/ FoundFull(t)
    /\ UNCHANGED chanVars

Dequeue(t) ==
    /\ ~Held
    /\ msgcount > 0
    /\ head' = (head + 1) % Capacity
    /\ msgcount' = msgcount - 1
    /\ total_recvs' = total_recvs + 1
    /\ WakeOne(write_waiters, write_waiters', "OK")
    /\ UNCHANGED read_waiters
    /\ got' = [got EXCEPT ![t] = ring[NextOut]]
    /\ Return(t)
    /\ UNCHANGED <<ring, tail, total_sends>>

PeerClosed(t) ==
    /\ ~Held
    /\ msgcount = 0 /\ refcount < 2
    /\ Return(t)
    /\ UNCHANGED <<ringVars, waitVars, got>>

FoundEmpty(t) ==
    /\ ~Held
    /\ msgcount = 0 /\ refcount >= 2
    /\ pc' = [pc EXCEPT ![t] = "block"]
    /\ UNCHANGED <<ringVars, waitVars, timeout, got>>

RecvTry(t) ==
    /\ t \in Receivers /\ pc[t] = "try"
    /\ Frozen(t) \/ Dequeue(t) \/ PeerClosed(t) \/ FoundEmpty(t)
    /\ UNCHANGED chanVars

-----------------------------------------------------------------------------
(* Endpoint destruction and snapshot freezing.                             *)

\* chan_endpoint_deactivate, from cap_object_destroy.  The destroyed endpoint's
\* holder is gone (owner death, rolled-back connect), so no call is in
\* progress on that side.  The channel is freed when the count reaches zero.
Deactivate(side) ==
    /\ side \in endpoints
    /\ \A t \in Tasks : SideOf(t) = side => pc[t] = "idle"
    /\ endpoints' = endpoints \ {side}
    /\ WakeAll("EPIPE")
    /\ UNCHANGED <<ringVars, callVars, mode, type_rejects, frozen_at_snap>>

\* chan_freeze_all_locked reaching this channel.
Freeze(snap) ==
    /\ endpoints # {}
    /\ frozen_at_snap \in {0, snap}
    /\ frozen_at_snap' = snap
    /\ WakeAll("EFROZEN")
    /\ UNCHANGED <<ringVars, callVars, mode, type_rejects, endpoints>>

\* chan_thaw_all_locked reaching this channel: only its own snapshot thaws it.
Thaw(snap) ==
    /\ endpoints # {}
    /\ frozen_at_snap = snap
    /\ frozen_at_snap' = 0
    /\ WakeAll("OK")
    /\ UNCHANGED <<ringVars, callVars, mode, type_rejects, endpoints>>

-----------------------------------------------------------------------------
Next ==
    \/ \E t \in Tasks, to \in Timeouts : Call(t, to)
    \/ \E t \in Tasks : \/ TypeMismatch(t) \/ SendTry(t) \/ RecvTry(t)
                        \/ Block(t) \/ Resume(t) \/ DeadlineScan(t)
    \/ \E side \in Sides : Deactivate(side)
    \/ \E snap \in SnapIds : Freeze(snap) \/ Thaw(snap)

Spec == Init /\ [][Next]_vars

\* A task inside a call keeps running when it is not asleep, and the BSP's
\* timer tick keeps scanning deadlines.  Nobody is obliged to start a call,
\* close an endpoint or take a snapshot.
Fairness == \A t \in Tasks : /\ WF_vars(SendTry(t)) /\ WF_vars(RecvTry(t))
                             /\ WF_vars(Block(t)) /\ WF_vars(Resume(t))
                             /\ WF_vars(DeadlineScan(t))

FairSpec == Spec /\ Fairness

-----------------------------------------------------------------------------
(* Properties.                                                             *)

\* Type invariant of the ring, the waiter lists and the tasks.
TypeOK ==
    /\ ring \in [0..Capacity-1 -> Messages \cup {NoMsg}]
    /\ head \in 0..Capacity-1 /\ tail \in 0..Capacity-1 /\ msgcount \in 0..Capacity
    /\ total_sends \in Nat /\ total_recvs \in Nat
    /\ mode \in Modes /\ type_rejects \in {0, 1}
    /\ endpoints \subseteq Sides /\ frozen_at_snap \in SnapIds \cup {0}
    /\ read_waiters \in Seq(Receivers) /\ write_waiters \in Seq(Senders)
    /\ pc \in [Tasks -> {"idle", "try", "block", "wait"}]
    /\ timeout \in [Tasks -> {"zero", "finite", "forever"}]
    /\ state \in [Tasks -> {"RUNNING", "READY", "CHAN_WAIT"}]
    /\ wait_result \in [Tasks -> {"OK", "ETIMEDOUT", "EPIPE", "EFROZEN"}]
    /\ got \in [Receivers -> Messages \cup {NoMsg}]

\* The counters, the indices and the ring agree: the ring holds exactly the
\* messages accepted and not yet delivered, each in the slot of its number,
\* whatever sends, receives, timeouts, closes and freezes interleaved.
RingHoldsUndelivered ==
    /\ msgcount + total_recvs = total_sends
    /\ msgcount <= Capacity
    /\ head = total_recvs % Capacity
    /\ tail = total_sends % Capacity
    /\ \A k \in total_recvs..(total_sends - 1) : ring[k % Capacity].seq = k

\* Every receive hands out the oldest accepted message that no receive has
\* handed out before: chan_recv neither skips, repeats nor reorders.
DeliversInOrder ==
    [][\A t \in Receivers : got'[t] # got[t] =>
          /\ got'[t].seq = total_recvs
          /\ total_recvs' = total_recvs + 1]_vars

\* A sleeping task can be woken: it is on the waiter list of its own
\* direction, each list names a task once, and only tasks inside
\* sched_block_on_channel are on a list.
SleepersOnList ==
    /\ \A t \in Tasks : state[t] = "CHAN_WAIT" =>
           t \in OnList(IF t \in Senders THEN write_waiters ELSE read_waiters)
    /\ \A list \in {read_waiters, write_waiters} :
           /\ Cardinality(OnList(list)) = Len(list)
           /\ \A t \in OnList(list) : pc[t] = "wait"

\* While a snapshot holds the channel its queue does not move, although tasks
\* that were already past the ring test may still be inside a call.
FrozenQueueStable == [][frozen_at_snap # 0 => UNCHANGED ringVars]_vars


\* The ring read from head, as the queue a user of the channel sees.
RingContents == [i \in 1..msgcount |-> ring[(head + i - 1) % Capacity]]

Queue == INSTANCE MsgQueue WITH
    queue <- RingContents, accepted <- total_sends, delivered <- got,
    open <- endpoints, held <- (frozen_at_snap # 0)

\* The channel implements the bounded queue: blocking, waking, timing out and
\* retrying are invisible, and each ring step is one queue operation.
ImplementsQueue == Queue!Spec

-----------------------------------------------------------------------------
(* What the comments say.                                                  *)

\* sched.h: a task blocks "until another task sends/receives, the channel is
\* destroyed (EPIPE wake), or the deadline_tsc expires".  So a receiver does
\* not stay asleep while a message waits for it.
WaitingMessageWakesReceiver ==
    \A t \in Receivers : (pc[t] = "wait" /\ msgcount > 0) ~> (pc[t] # "wait" \/ msgcount = 0)

\* channel.c, chan_endpoint_deactivate: "This ensures no task spins forever
\* after closure."
ClosureReleasesTasks ==
    \A t \in Tasks : (endpoints # Sides /\ pc[t] # "idle") ~> (pc[t] = "idle")

\* channel.h, chan_poll_probe: "bit 2 = closed-peer (EPIPE on further I/O)".
\* So no send is accepted once the read side is closed.
NoSendAfterPeerClosed == [][endpoints # Sides => total_sends' = total_sends]_vars
=============================================================================
