------------------------------ MODULE Journal ------------------------------
(***************************************************************************)
(* The full-data journal of GrahaFS v2 (kernel/fs/journal.c) on a device   *)
(* with a volatile write cache.                                            *)
(*                                                                         *)
(* A commit writes a begin block, the payloads and a commit block at the   *)
(* start of the journal area, flushes, copies the payloads to their home   *)
(* blocks and flushes again.  append_lock serialises transactions, so      *)
(* there is one transaction at a time and every one starts at the base of  *)
(* the area.  A mount replays the transaction it finds there.              *)
(*                                                                         *)
(* The device (external) is modelled by the sequence of writes each block  *)
(* may still hold: a read sees the last, a flush leaves only the last, and *)
(* a power failure leaves any one of them, chosen per block, so unflushed  *)
(* writes are lost or reordered at will.  A transaction's payload is its   *)
(* serial number, and a CRC is the contents it covers (no collisions).     *)
(***************************************************************************)
EXTENDS Naturals, FiniteSets, Sequences, SequencesExt

CONSTANTS
    Blocks,      \* home blocks (main-area LBAs)
    MaxRefs,     \* GRAHAFS_V2_JOURNAL_BLOCK_REFS_MAX
    SbInterval,  \* JOURNAL_SB_PERSIST_INTERVAL
    MaxTxns,     \* bound: transactions begun
    MaxCrashes,  \* bound: power failures of a device without faults
    FaultSets    \* kinds of device: the operations that may fail on it

ASSUME ConstantsOK ==
    /\ MaxRefs \in Nat \ {0}
    /\ SbInterval \in Nat \ {0}
    /\ MaxTxns \in Nat
    /\ MaxCrashes \in Nat \ {0}
    /\ FaultSets \subseteq SUBSET {"write", "flush", "read"}

VARIABLES
    area,      \* journal blocks, as sequences of writes not yet ordered
    home,      \* main-area blocks, likewise
    sb,        \* last_txn_id in the on-disk superblock, likewise
    pc,        \* where the task holding append_lock is
    txn,       \* the open transaction: its id, serial number and targets
    i,         \* loop index of the payload, checkpoint and replay loops
    nextId,    \* g_v2_journal.next_txn_id
    mountId,   \* last_txn_id in the in-memory superblock g_v2_sb
    sinceSb,   \* g_v2_journal_commits_since_sb
    serial,    \* transactions begun so far
    targets,   \* history: the home blocks of each transaction
    outcome,   \* history: how each transaction's commit ended
    crashes,   \* history: power failures so far
    faults     \* the operations of this device that may fail

disk == <<area, home, sb>>
history == <<serial, targets, outcome, crashes>>
vars == <<area, home, sb, pc, txn, i, nextId, mountId, sinceSb, serial,
          targets, outcome, crashes, faults>>

Slots == 0 .. MaxRefs + 1

Zero == [kind |-> "zero"]
BeginBlock(t) == [kind |-> "begin", id |-> t.id, refs |-> t.refs]
DataBlock(t) == [kind |-> "data", val |-> t.n]
Checksum(begin, payloads) == <<begin, payloads>>
CommitBlock(t) ==
    [kind |-> "commit", id |-> t.id,
     crc |-> Checksum(BeginBlock(t), [k \in 1..Len(t.refs) |-> DataBlock(t)])]

\* Transactions stage each home block at most once here; the code's repeated
\* references to one block are applied in order, so the last one stands.
Refs == {r \in SeqOf(Blocks, MaxRefs) : IsInjective(r)}
NoTxn == [id |-> 0, n |-> 0, refs |-> <<>>]

Init ==
    /\ area = [s \in Slots |-> <<Zero>>]
    /\ home = [b \in Blocks |-> <<0>>]
    /\ sb = <<0>>
    /\ pc = "down"
    /\ txn = NoTxn
    /\ i = 1
    /\ nextId = 0
    /\ mountId = 0
    /\ sinceSb = 0
    /\ serial = 0
    /\ targets = [n \in 1..MaxTxns |-> {}]
    /\ outcome = [n \in 1..MaxTxns |-> "open"]
    /\ crashes = 0
    /\ faults \in FaultSets

-----------------------------------------------------------------------------
(* The device.                                                             *)

Current(block) == Last(block)

Flushed(blocks) == [b \in DOMAIN blocks |-> <<Last(blocks[b])>>]

\* The last write to a block is what a read returns; of several writes of one
\* value only the last matters.
Write(block, value) ==
    Append(SelectSeq(block, LAMBDA v : v # value), value)

\* A write that reports failure may have reached the device all the same.
FailedWrite(block, value) ==
    IF "write" \in faults THEN {block, Write(block, value)} ELSE {}

Barrier ==
    /\ area' = Flushed(area)
    /\ home' = Flushed(home)
    /\ sb' = <<Current(sb)>>

FailedBarrier == "flush" \in faults /\ UNCHANGED disk

-----------------------------------------------------------------------------
(* Transactions.                                                           *)

\* journal_txn_begin and journal_txn_add_block: the staged blocks.
TxnBegin(refs) ==
    /\ pc = "idle"
    /\ serial < MaxTxns
    /\ pc' = "staged"
    /\ serial' = serial + 1
    /\ txn' = [id |-> nextId, n |-> serial + 1, refs |-> refs]
    /\ nextId' = nextId + 1
    /\ targets' = [targets EXCEPT ![serial + 1] = Range(refs)]
    /\ UNCHANGED <<disk, i, mountId, sinceSb, outcome, crashes>>

\* The end of every commit and abort: free the transaction, drop the lock.
Release(result) ==
    /\ pc' = "idle"
    /\ txn' = NoTxn
    /\ i' = 1
    /\ outcome' = [outcome EXCEPT ![txn.n] = result]

\* journal_txn_abort by the caller, and the commit of an empty transaction.
TxnAbort ==
    /\ pc = "staged"
    /\ Release("aborted")
    /\ UNCHANGED <<disk, nextId, mountId, sinceSb, serial, targets, crashes>>

Goto(next, index) ==
    /\ pc' = next
    /\ i' = index
    /\ UNCHANGED <<txn, outcome>>

CommitFrame == UNCHANGED <<nextId, mountId, serial, targets, crashes>>

\* One block written to the journal area; on an error the commit gives up.
WriteArea(slot, value, next, index) ==
    /\ UNCHANGED <<home, sb, sinceSb>>
    /\ CommitFrame
    /\ \/ /\ area' = [area EXCEPT ![slot] = Write(@, value)]
          /\ Goto(next, index)
       \/ \E w \in FailedWrite(area[slot], value) :
              area' = [area EXCEPT ![slot] = w]
          /\ Release("failed")

WriteBegin ==
    /\ pc = "staged"
    /\ txn.refs # <<>>
    /\ WriteArea(0, BeginBlock(txn), "payload", 1)

WritePayload ==
    /\ pc = "payload"
    /\ WriteArea(i, DataBlock(txn),
                 IF i = Len(txn.refs) THEN "commit" ELSE "payload", i + 1)

WriteCommit ==
    /\ pc = "commit"
    /\ WriteArea(Len(txn.refs) + 1, CommitBlock(txn), "barrier", 1)

\* Mutant: the checkpoint starts without waiting for the journal to be durable.
NoJournalBarrier ==
    /\ pc = "barrier"
    /\ Goto("checkpoint", 1)
    /\ UNCHANGED <<disk, sinceSb>>
    /\ CommitFrame

JournalBarrier ==
    /\ pc = "barrier"
    /\ \/ Barrier /\ Goto("checkpoint", 1)
       \/ FailedBarrier /\ Release("failed")
    /\ UNCHANGED sinceSb
    /\ CommitFrame

Checkpoint ==
    /\ pc = "checkpoint"
    /\ LET b == txn.refs[i] IN
       \/ /\ home' = [home EXCEPT ![b] = Write(@, txn.n)]
          /\ Goto(IF i = Len(txn.refs) THEN "settle" ELSE "checkpoint", i + 1)
       \/ \E w \in FailedWrite(home[b], txn.n) :
              home' = [home EXCEPT ![b] = w]
          /\ Release("unapplied")
    /\ UNCHANGED <<area, sb, sinceSb>>
    /\ CommitFrame

\* Mutant: success is reported before the home writes are durable.
NoCheckpointBarrier ==
    /\ pc = "settle"
    /\ Goto("advance", 1)
    /\ UNCHANGED <<disk, sinceSb>>
    /\ CommitFrame

CheckpointBarrier ==
    /\ pc = "settle"
    /\ \/ Barrier /\ Goto("advance", 1)
       \/ FailedBarrier /\ Release("failed")
    /\ UNCHANGED sinceSb
    /\ CommitFrame

\* head and tail go back to the base; the superblock is written every
\* SbInterval commits, and an error of that write is ignored.
Advance ==
    /\ pc = "advance"
    /\ Release("committed")
    /\ IF sinceSb + 1 >= SbInterval
       THEN /\ sinceSb' = 0
            /\ sb' \in {Write(sb, nextId)} \cup FailedWrite(sb, nextId)
       ELSE /\ sinceSb' = sinceSb + 1
            /\ UNCHANGED sb
    /\ UNCHANGED <<area, home>>
    /\ CommitFrame

\* v2_write_superblock, called by the file operations after their commit:
\* it writes the copy read at mount, whose last_txn_id nobody updates.
WriteSuperblock ==
    /\ pc = "idle"
    /\ Current(sb) # mountId
    /\ sb' \in {Write(sb, mountId)} \cup FailedWrite(sb, mountId)
    /\ UNCHANGED <<area, home, pc, txn, i, nextId, mountId, sinceSb, history>>

-----------------------------------------------------------------------------
(* Power failure, mount and replay.                                        *)

Survivors(blocks) ==
    {f \in [DOMAIN blocks -> UNION {Range(blocks[b]) : b \in DOMAIN blocks}] :
        \A b \in DOMAIN blocks : f[b] \in Range(blocks[b])}

\* Bound: a device with faults has one power failure fewer.
CrashBudget == IF faults = {} THEN MaxCrashes ELSE MaxCrashes - 1

Crash ==
    /\ crashes < CrashBudget
    /\ pc # "down"
    /\ \E f \in Survivors(area) : area' = [s \in Slots |-> <<f[s]>>]
    /\ \E f \in Survivors(home) : home' = [b \in Blocks |-> <<f[b]>>]
    /\ \E id \in Range(sb) : sb' = <<id>>
    /\ pc' = "down"
    /\ txn' = NoTxn
    /\ i' = 1
    /\ nextId' = 0
    /\ mountId' = 0
    /\ sinceSb' = 0
    /\ crashes' = crashes + 1
    /\ UNCHANGED <<serial, targets, outcome>>

\* grahafs_v2_mount reads the superblock and starts the journal.
Mount ==
    /\ pc = "down"
    /\ mountId' = Current(sb)
    /\ nextId' = Current(sb) + 1
    /\ pc' = "scan"
    /\ UNCHANGED <<disk, txn, i, sinceSb, history>>

\* The contents of the area as replay reads it.
FoundBegin == Current(area[0])
FoundCommit == Current(area[Len(FoundBegin.refs) + 1])
FoundPayload(k) == Current(area[k])

\* Mutant: replay trusts the transaction id of the commit block alone.
ReplayableById ==
    /\ FoundBegin.kind = "begin"
    /\ FoundCommit.kind = "commit"
    /\ FoundCommit.id = FoundBegin.id
    /\ \A k \in 1..Len(FoundBegin.refs) : FoundPayload(k).kind = "data"

Replayable ==
    /\ FoundBegin.kind = "begin"
    /\ FoundCommit.kind = "commit"
    /\ FoundCommit.id = FoundBegin.id
    /\ FoundCommit.crc =
           Checksum(FoundBegin,
                    [k \in 1..Len(FoundBegin.refs) |-> FoundPayload(k)])

\* journal_replay up to the point where it applies or discards what it found.
ReplayScan ==
    /\ pc = "scan"
    /\ \/ Replayable /\ pc' = "apply"
       \/ ~Replayable /\ pc' = "reset"
       \/ "read" \in faults /\ pc' = "reset"
    /\ UNCHANGED <<disk, txn, i, nextId, mountId, sinceSb, history>>

\* One home block rewritten from the journal.  An error ends the loop, not
\* the mount.
ReplayApply ==
    /\ pc = "apply"
    /\ LET b == FoundBegin.refs[i]
           v == FoundPayload(i).val
           last == i = Len(FoundBegin.refs)
       IN  \/ /\ home' = [home EXCEPT ![b] = Write(@, v)]
              /\ pc' = IF last THEN "reset" ELSE "apply"
              /\ i' = IF last THEN 1 ELSE i + 1
           \/ /\ \/ \E w \in FailedWrite(home[b], v) :
                        home' = [home EXCEPT ![b] = w]
                 \/ "read" \in faults /\ UNCHANGED home
              /\ pc' = "reset"
              /\ i' = 1
    /\ UNCHANGED <<area, sb, txn, nextId, mountId, sinceSb, history>>

\* The end of journal_replay: the superblock is written and the volume is up;
\* if that write fails the mount fails.
ReplayReset ==
    /\ pc = "reset"
    /\ \/ sb' = Write(sb, mountId) /\ pc' = "idle"
       \/ sb' \in FailedWrite(sb, mountId) /\ pc' = "down"
    /\ UNCHANGED <<area, home, txn, i, nextId, mountId, sinceSb, history>>

-----------------------------------------------------------------------------
Step ==
    \/ \E r \in Refs : TxnBegin(r)
    \/ TxnAbort \/ WriteBegin \/ WritePayload \/ WriteCommit \/ JournalBarrier
    \/ Checkpoint \/ CheckpointBarrier \/ Advance \/ WriteSuperblock
    \/ Crash \/ Mount \/ ReplayScan \/ ReplayApply \/ ReplayReset

Next == Step /\ UNCHANGED faults

Spec == Init /\ [][Next]_vars

-----------------------------------------------------------------------------
(* Properties.                                                             *)

Visible(b) == Current(home[b])

\* Types of the journal's variables.
TypeOK ==
    /\ \A s \in Slots : area[s] # <<>>
    /\ home \in [Blocks -> Seq(0..MaxTxns) \ {<<>>}]
    /\ pc \in {"down", "scan", "apply", "reset", "idle", "staged", "payload",
               "commit", "barrier", "checkpoint", "settle", "advance"}
    /\ txn.refs \in Refs
    /\ i \in 1 .. MaxRefs + 1
    /\ serial \in 0..MaxTxns
    /\ outcome \in [1..MaxTxns ->
                       {"open", "aborted", "failed", "unapplied", "committed"}]

\* Once journal_txn_commit has returned 0, every block of the transaction
\* holds its data or a later transaction's whenever the volume is mounted,
\* whatever crashes and failed commits came after.
CommittedDurable ==
    pc = "idle" =>
        \A n \in 1..MaxTxns : outcome[n] = "committed" =>
            \A b \in targets[n] : Visible(b) >= n

\* journal_replay never copies a payload to a block the transaction did not
\* name, although the area mixes blocks of several transactions whose ids
\* repeat after a crash.
NothingMisplaced ==
    \A b \in Blocks : Visible(b) # 0 => b \in targets[Visible(b)]

\* No step but a power failure takes a home block back to an older
\* transaction's data: replaying what is found in the area at every mount is
\* harmless because it is never older than the main area.
NeverBackwards ==
    [][crashes' = crashes => \A b \in Blocks : Visible(b) <= Visible(b)']_vars

Torn(n) ==
    /\ \E b \in targets[n] : Visible(b) = n
    /\ \E b \in targets[n] : Visible(b) < n

\* A mounted volume shows all of a transaction or nothing of it: the begin,
\* payload and commit blocks make it "atomically durable-or-discarded".
AtomicAfterMount ==
    pc = "idle" => \A n \in 1..MaxTxns :
        outcome[n] \in {"open", "committed"} => ~Torn(n)

\* The same on a device without faults, through the first power failure,
\* which no replay has preceded.
AtomicAfterFirstCrash == crashes <= 1 /\ faults = {} => AtomicAfterMount

\* journal.h: after a failed commit "NO blocks were applied to main area".
FailedNotApplied ==
    pc = "idle" =>
        \A n \in 1..MaxTxns : outcome[n] \in {"failed", "unapplied"} =>
            \A b \in Blocks : Visible(b) # n

\* journal.c on a failed checkpoint: "Journal has the data; replay on next
\* mount will recover."  So when a mount completes no such transaction is
\* half applied.
RecoveredByReplay ==
    [][pc = "reset" /\ pc' = "idle" =>
           \A n \in 1..MaxTxns : outcome[n] = "unapplied" => ~Torn(n)']_vars
=============================================================================
