-------------------------------- MODULE Txn --------------------------------
(***************************************************************************)
(* Transactional speculation (kernel/txn): the transaction stack of one    *)
(* task, the routing of its channel sends into transaction buffers         *)
(* (chan_send's prologue), and the replay of a buffer at commit.           *)
(*                                                                         *)
(* Between the sends of a replay the peer may drain its ring, a channel    *)
(* may be destroyed or frozen, and the task itself may be killed:          *)
(* chan_send gives up the CPU after it wakes a peer.  The memory snapshot  *)
(* behind a transaction is SnapCow's subject.  A message is the number of  *)
(* the chan_send call that sent it.                                        *)
(***************************************************************************)
EXTENDS Naturals, Sequences, FiniteSets

CONSTANTS
    Chans,             \* channels the task holds an endpoint of
    Self,              \* the task's pid
    Peer,              \* Peer[c]: pid that holds the other endpoint
    GlobalScope,       \* pids captured by a GLOBAL_SCOPE snapshot
    TXN_MAX_NESTING,
    Slots,             \* buffer sizes (records) a begin may ask for
    RingSize,          \* ring capacity of every channel
    MaxTxns, MaxSends  \* bounds: transactions begun, sends made

Ids == 1..MaxTxns
Msgs == 1..MaxSends

ASSUME BoundAssumption == TXN_MAX_NESTING \in Nat /\ RingSize \in Nat /\ Slots \subseteq Nat
                          /\ MaxTxns \in Nat /\ MaxSends \in Nat

VARIABLES
    stack,             \* active_txn, outermost first; the last entry is current
    state,             \* txn_state_t per transaction
    scope,             \* scope_pids
    slots,             \* buffer_vmo_capacity in records
    buffer,            \* buffered records: target channel and message
    vmo,               \* buffer_vmo allocated
    cursor,            \* records replayed so far (replay_cursor, replay_delivered)
    pc,                \* "run", "replay" inside txn_commit, "dead" after exit
    backlog, alive,    \* per channel: ring occupancy, registered
    frozen,            \* channels held by a snapshot
    nsent,             \* chan_send calls made
    layers,            \* history: transactions that buffered message m
    failed,            \* history: messages whose chan_send returned an error
    wire,              \* history: messages put on each channel's ring
    audit              \* audit records written about each transaction's end

txnVars == <<stack, state, scope, slots, buffer, vmo, cursor>>
chanVars == <<backlog, alive, frozen, wire>>
sendVars == <<nsent, layers, failed>>
vars == <<txnVars, chanVars, sendVars, pc, audit>>

Frames == {stack[i] : i \in 1..Len(stack)}
current == stack[Len(stack)]
Record(k, d, r) == [kind |-> k, delivered |-> d, remaining |-> r]
OnWire == UNION {{wire[c][i] : i \in 1..Len(wire[c])} : c \in Chans}

Init ==
    /\ stack = <<>>
    /\ state = [t \in Ids |-> "INVALID"]
    /\ scope = [t \in Ids |-> {}]
    /\ slots = [t \in Ids |-> 0]
    /\ buffer = [t \in Ids |-> <<>>]
    /\ vmo = [t \in Ids |-> FALSE]
    /\ cursor = [t \in Ids |-> 0]
    /\ pc = "run"
    /\ backlog = [c \in Chans |-> 0] /\ alive = [c \in Chans |-> TRUE] /\ frozen = FALSE
    /\ nsent = 0 /\ layers = [m \in Msgs |-> {}] /\ failed = {}
    /\ wire = [c \in Chans |-> <<>>]
    /\ audit = [t \in Ids |-> {}]

-----------------------------------------------------------------------------
(* txn_begin.  A task without the SYSTEM capability never gets GLOBAL scope;*)
(* allocation failures leave no trace and are not shown.                   *)
Begin(t, pids, n) ==
    /\ pc = "run"
    /\ Len(stack) < TXN_MAX_NESTING
    /\ state[t] = "INVALID" /\ \A u \in Ids : u < t => state[u] # "INVALID"
    /\ stack' = Append(stack, t)
    /\ state' = [state EXCEPT ![t] = "ACTIVE"]
    /\ scope' = [scope EXCEPT ![t] = pids]
    /\ slots' = [slots EXCEPT ![t] = n]
    /\ UNCHANGED <<buffer, vmo, cursor, chanVars, sendVars, pc, audit>>

-----------------------------------------------------------------------------
(* chan_send.                                                              *)

\* txn_is_external_peer: the peer endpoint's holder is outside the scope.
External(c, t) == Peer[c] # Self /\ Peer[c] \notin scope[t]

Deliverable(c) == alive[c] /\ ~frozen /\ backlog[c] < RingSize

PutOnRing(c, m) ==
    /\ wire' = [wire EXCEPT ![c] = Append(@, m)]
    /\ backlog' = [backlog EXCEPT ![c] = @ + 1]
    /\ UNCHANGED <<alive, frozen>>

\* txn_buffer_append in the layers of S: the buffer is allocated on first use.
AppendTo(S, c, m) ==
    /\ buffer' = [t \in Ids |-> IF t \in S THEN Append(buffer[t], <<c, m>>) ELSE buffer[t]]
    /\ vmo' = [t \in Ids |-> vmo[t] \/ t \in S]
    /\ layers' = [layers EXCEPT ![m] = S]
    /\ UNCHANGED <<stack, state, scope, slots, cursor>>

HasRoom(t) == Len(buffer[t]) < slots[t]
ExternalLayers(c) == {t \in Frames : External(c, t)}

\* No layer keeps the message back: it goes to the live ring.
SendLive(c) ==
    /\ ExternalLayers(c) = {}
    /\ IF Deliverable(c)
       THEN PutOnRing(c, nsent + 1) /\ UNCHANGED failed
       ELSE failed' = failed \cup {nsent + 1} /\ UNCHANGED chanVars
    /\ UNCHANGED <<txnVars, layers>>

\* Mutant: the buffered message is sent to the live ring as well.
SendBufferedAndLive(c) ==
    /\ ExternalLayers(c) # {}
    /\ \A t \in ExternalLayers(c) : HasRoom(t)
    /\ AppendTo(ExternalLayers(c), c, nsent + 1)
    /\ IF Deliverable(c) THEN PutOnRing(c, nsent + 1) ELSE UNCHANGED chanVars
    /\ UNCHANGED failed

\* Every external layer has room and buffers the message.
SendBuffered(c) ==
    /\ ExternalLayers(c) # {}
    /\ \A t \in ExternalLayers(c) : HasRoom(t)
    /\ AppendTo(ExternalLayers(c), c, nsent + 1)
    /\ UNCHANGED <<chanVars, failed>>

\* Some layer is full: the walk goes from the innermost outward and returns
\* at the first full layer; the layers inside it keep the record.
SendNoSpace(c) ==
    \E i \in 1..Len(stack) :
        /\ stack[i] \in ExternalLayers(c) /\ ~HasRoom(stack[i])
        /\ \A j \in i+1..Len(stack) : stack[j] \in ExternalLayers(c) => HasRoom(stack[j])
        /\ AppendTo({stack[j] : j \in i+1..Len(stack)} \cap ExternalLayers(c), c, nsent + 1)
        /\ failed' = failed \cup {nsent + 1}
        /\ UNCHANGED chanVars

Send(c) ==
    /\ pc = "run" /\ alive[c]
    /\ nsent < MaxSends
    /\ nsent' = nsent + 1
    /\ SendLive(c) \/ SendBuffered(c) \/ SendNoSpace(c)
    /\ UNCHANGED <<pc, audit>>

-----------------------------------------------------------------------------
(* txn_commit and txn_replay_all.                                          *)

\* Mutant: a retry starts from record zero again.
ReplayFromZero == 0

\* A first attempt starts at record zero, a retry where the last one stalled.
ReplayFrom == IF state[current] = "ACTIVE" THEN 0 ELSE cursor[current]

CommitStart ==
    /\ pc = "run" /\ stack # <<>>
    /\ state[current] \in {"ACTIVE", "COMMITTING_FAILED"}
    /\ state' = [state EXCEPT ![current] = "COMMITTING"]
    /\ cursor' = [cursor EXCEPT ![current] = ReplayFrom]
    /\ pc' = "replay"
    /\ UNCHANGED <<stack, scope, slots, buffer, vmo, chanVars, sendVars, audit>>

NextRecord == buffer[current][cursor[current] + 1]
Undrained == cursor[current] < Len(buffer[current])

\* One chan_send of the replay, straight to the live ring.
ReplayOne ==
    /\ pc = "replay" /\ Undrained
    /\ Deliverable(NextRecord[1])
    /\ PutOnRing(NextRecord[1], NextRecord[2])
    /\ cursor' = [cursor EXCEPT ![current] = @ + 1]
    /\ UNCHANGED <<stack, state, scope, slots, buffer, vmo, sendVars, pc, audit>>

\* Mutant: a record that cannot be delivered is skipped.
ReplaySkip ==
    /\ pc = "replay" /\ Undrained
    /\ ~Deliverable(NextRecord[1])
    /\ cursor' = [cursor EXCEPT ![current] = @ + 1]
    /\ UNCHANGED <<stack, state, scope, slots, buffer, vmo, chanVars, sendVars, pc, audit>>

\* The target is gone, frozen or full: the commit call returns -ETXNREPLAY.
ReplayStall ==
    /\ pc = "replay" /\ Undrained
    /\ ~Deliverable(NextRecord[1])
    /\ state' = [state EXCEPT ![current] = "COMMITTING_FAILED"]
    /\ pc' = "run"
    /\ UNCHANGED <<stack, scope, slots, buffer, vmo, cursor, chanVars, sendVars, audit>>

Popped == SubSeq(stack, 1, Len(stack) - 1)

\* Drained: the snapshot is dropped, the frame popped, the record freed.
CommitFinish ==
    /\ pc = "replay" /\ ~Undrained
    /\ state' = [state EXCEPT ![current] = "COMMITTED"]
    /\ audit' = [audit EXCEPT ![current] = {Record("commit", cursor[current], 0)}]
    /\ stack' = Popped
    /\ pc' = "run"
    /\ UNCHANGED <<scope, slots, buffer, vmo, cursor, chanVars, sendVars>>

-----------------------------------------------------------------------------
(* txn_abort and task exit.                                                *)

\* Mutant: the records left are counted after the buffer is gone.
RemainingLate == 0

Remaining == Len(buffer[current]) - cursor[current]

\* The partial-external record, if a replay got anywhere, is written before
\* the buffer is dropped; the abort record after, when buffered_count is zero.
Abort ==
    /\ pc = "run" /\ stack # <<>>
    /\ state[current] \in {"ACTIVE", "COMMITTING_FAILED"}
    /\ audit' = [audit EXCEPT ![current] =
                    {Record("abort", cursor[current], 0)} \cup
                    IF cursor[current] = 0 THEN {}
                    ELSE {Record("partial", cursor[current], Remaining)}]
    /\ buffer' = [buffer EXCEPT ![current] = <<>>]
    /\ vmo' = [vmo EXCEPT ![current] = FALSE]
    /\ state' = [state EXCEPT ![current] = "ABORTED"]
    /\ stack' = Popped
    /\ UNCHANGED <<scope, slots, cursor, chanVars, sendVars, pc>>

\* txn_task_exit_cleanup: txn_force_drop on every frame.  The record is
\* written after the buffer was dropped, with delivered = 0.
Exit ==
    /\ pc # "dead"
    /\ pc' = "dead"
    /\ buffer' = [t \in Ids |-> IF t \in Frames THEN <<>> ELSE buffer[t]]
    /\ vmo' = [t \in Ids |-> vmo[t] /\ t \notin Frames]
    /\ state' = [t \in Ids |-> IF t \in Frames THEN "ABORTED" ELSE state[t]]
    /\ audit' = [t \in Ids |-> IF t \in Frames THEN {Record("force_drop", 0, 0)} ELSE audit[t]]
    /\ stack' = <<>>
    /\ UNCHANGED <<scope, slots, cursor, chanVars, sendVars>>

-----------------------------------------------------------------------------
(* The rest of the system: peers receive, channels go away, snapshots       *)
(* freeze and thaw.                                                        *)
PeerRecv(c) ==
    /\ alive[c] /\ ~frozen /\ backlog[c] > 0
    /\ backlog' = [backlog EXCEPT ![c] = @ - 1]
    /\ UNCHANGED <<txnVars, sendVars, alive, frozen, wire, pc, audit>>

DestroyChannel(c) ==
    /\ alive[c]
    /\ alive' = [alive EXCEPT ![c] = FALSE]
    /\ UNCHANGED <<txnVars, sendVars, backlog, frozen, wire, pc, audit>>

FreezeThaw ==
    /\ frozen' = ~frozen
    /\ UNCHANGED <<txnVars, sendVars, backlog, alive, wire, pc, audit>>

Next ==
    \/ \E t \in Ids, pids \in {{Self}, GlobalScope}, n \in Slots : Begin(t, pids, n)
    \/ \E c \in Chans : Send(c) \/ PeerRecv(c) \/ DestroyChannel(c)
    \/ CommitStart \/ ReplayOne \/ ReplayStall \/ CommitFinish
    \/ Abort \/ Exit \/ FreezeThaw

Spec == Init /\ [][Next]_vars

-----------------------------------------------------------------------------
(* Properties.                                                             *)

\* Type invariant.
TypeOK ==
    /\ stack \in Seq(Ids) /\ Len(stack) <= TXN_MAX_NESTING
    /\ state \in [Ids -> {"INVALID", "ACTIVE", "COMMITTING", "COMMITTED",
                          "COMMITTING_FAILED", "ABORTED"}]
    /\ buffer \in [Ids -> Seq(Chans \X Msgs)]
    /\ vmo \in [Ids -> BOOLEAN]
    /\ \A t \in Ids : cursor[t] \in Nat /\ (t \in Frames => cursor[t] <= Len(buffer[t]))
    /\ \A t \in Ids : t \in Frames <=>
           state[t] \in {"ACTIVE", "COMMITTING", "COMMITTING_FAILED"}
    /\ pc \in {"run", "replay", "dead"}
    /\ backlog \in [Chans -> 0..RingSize] /\ alive \in [Chans -> BOOLEAN] /\ frozen \in BOOLEAN
    /\ nsent \in 0..MaxSends /\ failed \subseteq Msgs

Layers(t) == {m \in Msgs : t \in layers[m]}

\* Atomicity, first half: a transaction that reports success has put every
\* message it buffered on its channel, however often its replay stalled.
CommittedDelivered ==
    \A t \in Ids : state[t] = "COMMITTED" => Layers(t) \subseteq OnWire

\* Atomicity, second half: a message whose layers are all open or aborted,
\* none of them after a replay that got anywhere, is not on any channel.
UncommittedInvisible ==
    \A m \in Msgs :
        /\ layers[m] # {}
        /\ \A t \in layers[m] : state[t] \in {"ACTIVE", "ABORTED"} /\ cursor[t] = 0
        => m \notin OnWire

\* A replay never sends a record twice, nor out of order: each channel carries
\* the messages that it accepted and at most one transaction buffered in the
\* order of the chan_send calls.  A message that several nested layers
\* buffered is sent by each of them, once.
WireInSendOrder ==
    \A c \in Chans :
        LET Single == {m \in Msgs \ failed : Cardinality(layers[m]) <= 1}
            sent == wire[c]
        IN  /\ \A i, j \in 1..Len(sent) :
                   i < j /\ {sent[i], sent[j]} \subseteq Single => sent[i] < sent[j]
            /\ \A m \in Msgs : layers[m] # {} =>
                   Cardinality({i \in 1..Len(sent) : sent[i] = m}) <= Cardinality(layers[m])

\* The partial-external record of an aborted transaction counts what is on
\* the wire and what was thrown away, if no other layer shared its messages.
PartialRecordTruthful ==
    \A t \in Ids : \A r \in audit[t] :
        r.kind = "partial" /\ (\A m \in Layers(t) : layers[m] = {t}) =>
        /\ r.delivered = Cardinality(Layers(t) \cap OnWire)
        /\ r.remaining = Cardinality(Layers(t) \ OnWire)

-----------------------------------------------------------------------------
(* What the comments say.                                                  *)

\* channel.c, chan_send: "receiver sees nothing until the outermost commit
\* replays".
NothingBeforeOutermostCommit ==
    \A m \in Msgs : (\E t \in layers[m] : state[t] = "ACTIVE" /\ t = stack[1]) => m \notin OnWire

\* transaction.h: txn_buffer_free_drop is "Called from txn_commit
\* (post-replay), txn_abort, txn_force_drop".
BufferOnlyWhileOpen == \A t \in Ids : vmo[t] => t \in Frames

\* audit.h: in an abort record "remaining is the count dropped from the
\* buffer on abort".
AbortRecordTruthful ==
    \A t \in Ids : \A r \in audit[t] : r.kind = "abort" =>
        r.remaining = Cardinality(Layers(t)) - cursor[t]

\* audit.h: a partial-external record is written when "task_exit-mid-txn leaves
\* messages already on the wire that cannot be recalled", so it counts them.
DropRecordTruthful ==
    \A t \in Ids : \A r \in audit[t] : r.kind = "force_drop" => r.delivered = cursor[t]

\* channel.c, chan_send: a full buffer is reported "so caller can either
\* commit/abort the txn and retry", so the refused message is not delivered.
RefusedNotDelivered == failed \cap OnWire = {}
=============================================================================
