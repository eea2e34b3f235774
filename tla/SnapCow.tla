------------------------------ MODULE SnapCow ------------------------------
(***************************************************************************)
(* Copy-on-write snapshots of one task's memory (kernel/snap/capture.c,    *)
(* cow_fault.c, restore.c, snapshot.c) over the frame reference counts of  *)
(* arch/x86_64/mm/pmm.c.  A snapshot of the task is taken by the task      *)
(* ("self", SNAP_SCOPE_SELF or a transaction) or by another task ("other", *)
(* SNAP_SCOPE_GLOBAL).  Taking and restoring run inside the scheduler      *)
(* barrier and are one step each; a write fault and a deletion are not,    *)
(* and interleave.  System calls run with interrupts masked, so a task     *)
(* inside a fault or a deletion holds the barrier off.                     *)
(***************************************************************************)
EXTENDS Integers, FiniteSets

CONSTANTS
    NPages,      \* user pages 1..NPages, in the order of the page table walk
    Stack,       \* the page the user stack pointer is in
    Frames,      \* physical frames
    Values,      \* page contents
    Snaps,       \* bound: the snapshots taken over the task's life
    Owner,       \* per snapshot: who takes it, the task or another
    NONE,
    RefMax,      \* 255: a frame's count saturates there
    TrackerMax   \* bound on a frame's tracker count

ASSUME PageAssumption == NPages \in Nat \ {0} /\ Stack \in 1..NPages
Actors == {"self", "other"}
ASSUME OwnerAssumption == Owner \in [Snaps -> Actors]
ASSUME NoneAssumption == NONE \notin Frames
ASSUME RefAssumption == RefMax \in Nat \ {0}

Pages == 1..NPages

VARIABLES
    pte,        \* per page: the frame and the writable bit, or NONE
    mem,        \* per frame: its contents (NONE once the frame is free)
    ref,        \* per frame: pp_refcounts, 0 if the frame is free
    tracker,    \* per frame: cow_page_tracker refcount, 0 if there is none
    snap,       \* per snapshot: its state and captured pages, or NONE
    seen,       \* history: the task's memory when the snapshot was taken
    task,       \* "run"; the write fault's steps "fault", "lookup", "copy"; how it
                \* died: "segv", "oom"; "gone" once it is reaped
    flt,        \* page of the write fault, and its frame once the handler read it
    del,        \* per actor: the deletion in progress, or NONE
    reopened    \* history: frames made writable by the deletion of one snapshot
                \* while another had captured them

vars == <<pte, mem, ref, tracker, snap, seen, task, flt, del, reopened>>

Alive == task \in {"run", "fault", "lookup", "copy"}
Mapped == {v \in Pages : pte[v] # NONE}
Captured(s) == IF snap[s] = NONE THEN {} ELSE {v \in Pages : snap[s].pages[v] # NONE}
Active(s) == snap[s] # NONE /\ snap[s].state = "active"

NoPages == [v \in Pages |-> NONE]
NoFault == [page |-> NONE, frame |-> NONE]

\* pmm_page_ref saturates; pmm_free_page counts down from wherever it is.
Up(r) == IF r < RefMax THEN r + 1 ELSE r
Down(r) == IF r > 0 THEN r - 1 ELSE r

\* What the model keeps of a frame ends when the frame is freed.
Contents(m, r) == [g \in Frames |-> IF r[g] > 0 THEN m[g] ELSE NONE]
Forget == reopened' = {g \in reopened : ref'[g] > 0}

Init ==
    /\ \E f \in [Pages -> Frames] :
         /\ \A v, w \in Pages : v # w => f[v] # f[w]
         /\ pte = [v \in Pages |-> [frame |-> f[v], w |-> TRUE]]
         /\ ref = [g \in Frames |-> IF \E v \in Pages : f[v] = g THEN 1 ELSE 0]
    /\ \E x \in Values : mem = [g \in Frames |-> IF ref[g] > 0 THEN x ELSE NONE]
    /\ tracker = [g \in Frames |-> 0]
    /\ snap = [s \in Snaps |-> NONE]
    /\ seen = [s \in Snaps |-> NoPages]
    /\ task = "run" /\ flt = NoFault
    /\ del = [a \in Actors |-> NONE]
    /\ reopened = {}

-----------------------------------------------------------------------------
(* The task.                                                               *)

\* The task runs user code or is about to enter a system call.
InUser == task = "run" /\ del["self"] = NONE

Write(v, x) ==
    /\ InUser /\ pte[v] # NONE /\ pte[v].w
    /\ mem[pte[v].frame] # x
    /\ mem' = [mem EXCEPT ![pte[v].frame] = x]
    /\ UNCHANGED <<pte, ref, tracker, snap, seen, task, flt, del, reopened>>

\* A write to a read-only page traps; it is retried once the fault is resolved.
Fault(v) ==
    /\ InUser /\ pte[v] # NONE /\ ~pte[v].w
    /\ task' = "fault" /\ flt' = [NoFault EXCEPT !.page = v]
    /\ UNCHANGED <<pte, mem, ref, tracker, snap, seen, del, reopened>>

\* snap_cow_pf_dispatch and cow_fault_handle up to the reading of the entry:
\* without any tracker, or if the entry is writable by now, the fault is not
\* resolved and the task is killed.
FaultPte ==
    /\ task = "fault"
    /\ IF (\A g \in Frames : tracker[g] = 0) \/ pte[flt.page].w
       THEN task' = "segv" /\ flt' = NoFault
       ELSE task' = "lookup" /\ flt' = [flt EXCEPT !.frame = pte[flt.page].frame]
    /\ UNCHANGED <<pte, mem, ref, tracker, snap, seen, del, reopened>>

\* cow_lookup_locked.
FaultLookup ==
    /\ task = "lookup"
    /\ IF tracker[flt.frame] = 0
       THEN task' = "segv" /\ flt' = NoFault
       ELSE task' = "copy" /\ flt' = flt
    /\ UNCHANGED <<pte, mem, ref, tracker, snap, seen, del, reopened>>


\* pmm_page_unref of the frame the task no longer maps.
Leave(r, old) == [r EXCEPT ![old] = Down(@)]

\* cow_fault_handle: the page moves to a private copy.  The tracker stays.
FaultCopy(new) ==
    /\ task = "copy" /\ ref[new] = 0
    /\ pte' = [pte EXCEPT ![flt.page] = [frame |-> new, w |-> TRUE]]
    /\ ref' = [Leave(ref, flt.frame) EXCEPT ![new] = 1]
    /\ mem' = Contents([mem EXCEPT ![new] = mem[flt.frame]], ref')
    /\ Forget
    /\ task' = "run" /\ flt' = NoFault
    /\ UNCHANGED <<tracker, snap, seen, del>>

\* pmm_alloc_page finds no frame.
FaultOom ==
    /\ task = "copy" /\ \A g \in Frames : ref[g] > 0
    /\ task' = "oom" /\ flt' = NoFault
    /\ UNCHANGED <<pte, mem, ref, tracker, snap, seen, del, reopened>>

\* SYS_BRK by one page in either direction.  A new page is not
\* cleared: it holds whatever was in the frame.
Grow(v, new, x) ==
    /\ InUser /\ v # Stack /\ pte[v] = NONE /\ ref[new] = 0
    /\ pte' = [pte EXCEPT ![v] = [frame |-> new, w |-> TRUE]]
    /\ ref' = [ref EXCEPT ![new] = 1]
    /\ mem' = [mem EXCEPT ![new] = x]
    /\ UNCHANGED <<tracker, snap, seen, task, flt, del, reopened>>

Shrink(v) ==
    /\ InUser /\ v # Stack /\ pte[v] # NONE
    /\ pte' = [pte EXCEPT ![v] = NONE]
    /\ ref' = [ref EXCEPT ![pte[v].frame] = Down(@)]
    /\ mem' = Contents(mem, ref') /\ Forget
    /\ UNCHANGED <<tracker, snap, seen, task, flt, del>>

\* The parent reaps the dead task: vmm_destroy_address_space.
Reap ==
    /\ task \in {"segv", "oom"}
    /\ pte' = NoPages
    /\ ref' = [g \in Frames |-> IF \E v \in Mapped : pte[v].frame = g THEN Down(ref[g]) ELSE ref[g]]
    /\ mem' = Contents(mem, ref') /\ Forget
    /\ task' = "gone"
    /\ UNCHANGED <<tracker, snap, seen, flt, del>>

-----------------------------------------------------------------------------
(* Snapshots.                                                              *)

\* Everybody else is parked: nobody is inside a fault or a deletion.
Barrier == task \in {"run", "segv", "oom", "gone"} /\ \A b \in Actors : del[b] = NONE

\* A task that takes or restores a snapshot is alive; the other actor is.
Calls(a) == a = "self" => task = "run"

\* Mutant: the page stays writable.
ProtectNot(e) == e

\* vmm_protect_page_by_cr3 without PTE_WRITABLE.
Protect(e) == [e EXCEPT !.w = FALSE]

\* snap_walk_user_half over the mapped pages of set: record, count and
\* write-protect each.
Capture(s, set, state) ==
    /\ snap' = [snap EXCEPT ![s] = [state |-> state,
                  pages |-> [v \in Pages |-> IF v \in set THEN pte[v] ELSE NONE]]]
    /\ seen' = [seen EXCEPT ![s] = [v \in Pages |-> IF v \in set THEN mem[pte[v].frame] ELSE NONE]]
    /\ pte' = [v \in Pages |-> IF v \in set THEN Protect(pte[v]) ELSE pte[v]]
    /\ LET shared == {pte[v].frame : v \in set}
       IN  /\ ref' = [g \in Frames |-> IF g \in shared THEN Up(ref[g]) ELSE ref[g]]
           /\ tracker' = [g \in Frames |-> IF g \in shared THEN tracker[g] + 1 ELSE tracker[g]]

\* snap_create_internal.  A task that exited is not captured
\* (snap_pid_filter_cb); a snapshot without it is of no interest here.
Create(s) ==
    /\ Barrier /\ Calls(Owner[s]) /\ task = "run" /\ snap[s] = NONE
    /\ \A v \in Mapped : tracker[pte[v].frame] < TrackerMax
    /\ Capture(s, Mapped, "active")
    /\ UNCHANGED <<mem, task, flt, del, reopened>>

\* The capture fails at page n (the page list cannot grow): the barrier ends
\* and snap_destroy_captures undoes the pages before n.
CreateFails(s, n) ==
    /\ Barrier /\ Calls(Owner[s]) /\ task = "run" /\ snap[s] = NONE /\ n \in Mapped
    /\ \A v \in Mapped : tracker[pte[v].frame] < TrackerMax
    /\ Capture(s, {v \in Mapped : v < n}, "deleted")
    /\ del' = [del EXCEPT ![Owner[s]] = [snap |-> s, page |-> 1, step |-> "protect"]]
    /\ UNCHANGED <<mem, task, flt, reopened>>

\* Mutant: a page the task has unmapped since is not brought back.
ToReplaceMapped(s, set) == {v \in set \cap Mapped : pte[v].frame # snap[s].pages[v].frame}

\* restore_pages: the pages whose live entry is not the captured frame.
ToReplace(s, set) ==
    {v \in set : pte[v] = NONE \/ pte[v].frame # snap[s].pages[v].frame}

\* snap_restore_internal: the captured frames are mapped again, read-only.
\* The caller keeps its stack page; a task that is gone is skipped.
Restore(s) ==
    /\ Barrier /\ Active(s) /\ Calls(Owner[s]) /\ task = "run"
    /\ LET set == Captured(s) \ (IF Owner[s] = "self" THEN {Stack} ELSE {})
           new == ToReplace(s, set)
           back == {snap[s].pages[v].frame : v \in new}
           left == {pte[v].frame : v \in new \cap Mapped}
       IN  /\ \A g \in back : tracker[g] < TrackerMax
           /\ pte' = [v \in Pages |->
                        IF v \in new THEN Protect(snap[s].pages[v])
                        ELSE IF v \in set \cap Mapped THEN Protect(pte[v]) ELSE pte[v]]
           /\ ref' = [g \in Frames |-> IF g \in back THEN Up(ref[g])
                                       ELSE IF g \in left THEN Down(ref[g]) ELSE ref[g]]
           /\ tracker' = [g \in Frames |-> IF g \in back THEN tracker[g] + 1 ELSE tracker[g]]
    /\ mem' = Contents(mem, ref') /\ Forget
    /\ UNCHANGED <<snap, seen, task, flt, del>>

\* snap_delete or snap_destroy_internal by the task that took it.
Delete(s) ==
    /\ Active(s) /\ LET a == Owner[s]
                    IN  /\ a = "self" => InUser
                        /\ del[a] = NONE
                        /\ snap' = [snap EXCEPT ![s].state = "deleted"]
                        /\ del' = [del EXCEPT ![a] = [snap |-> s, page |-> 1, step |-> "protect"]]
    /\ UNCHANGED <<pte, mem, ref, tracker, seen, task, flt, reopened>>


\* snap_destroy_task_entry: the task still maps the captured frame, which was
\* writable when it was captured.
Rearmed(e, cap) == e # NONE /\ e.frame = cap.frame /\ cap.w /\ ~e.w

DeleteProtect(a) ==
    /\ del[a] # NONE /\ del[a].step = "protect" /\ del[a].page <= NPages
    /\ LET s == del[a].snap
           v == del[a].page
           cap == snap[s].pages[v]
       IN  IF cap # NONE /\ Rearmed(pte[v], cap)
           THEN /\ pte' = [pte EXCEPT ![v].w = TRUE]
                /\ reopened' = reopened \cup
                     {g \in {cap.frame} : \E t \in Snaps \ {s} : v \in Captured(t) /\ snap[t].pages[v].frame = g}
           ELSE UNCHANGED <<pte, reopened>>
    /\ del' = [del EXCEPT ![a].step = "drop"]
    /\ UNCHANGED <<mem, ref, tracker, snap, seen, task, flt>>


\* cow_page_tracker_put.
Put(t, g) == [t EXCEPT ![g] = Down(@)]

DeleteDrop(a) ==
    /\ del[a] # NONE /\ del[a].step = "drop"
    /\ LET s == del[a].snap
           v == del[a].page
           cap == snap[s].pages[v]
       IN  /\ IF cap = NONE THEN UNCHANGED <<ref, tracker>>
              ELSE /\ tracker' = Put(tracker, cap.frame)
                   /\ ref' = [ref EXCEPT ![cap.frame] = Down(@)]
           /\ snap' = [snap EXCEPT ![s].pages[v] = NONE]
    /\ mem' = Contents(mem, ref') /\ Forget
    /\ del' = [del EXCEPT ![a].step = "protect", ![a].page = @ + 1]
    /\ UNCHANGED <<pte, seen, task, flt>>

\* The body of the snapshot is freed.
DeleteDone(a) ==
    /\ del[a] # NONE /\ del[a].page > NPages
    /\ snap' = [snap EXCEPT ![del[a].snap].state = "freed"]
    /\ seen' = [seen EXCEPT ![del[a].snap] = NoPages]
    /\ del' = [del EXCEPT ![a] = NONE]
    /\ UNCHANGED <<pte, mem, ref, tracker, task, flt, reopened>>

Next ==
    \/ \E v \in Pages : Fault(v) \/ Shrink(v) \/ \E x \in Values : Write(v, x)
    \/ FaultPte \/ FaultLookup \/ FaultOom \/ Reap
    \/ \E g \in Frames : FaultCopy(g) \/ \E v \in Pages, x \in Values : Grow(v, g, x)
    \/ \E s \in Snaps : Create(s) \/ Restore(s) \/ Delete(s) \/ \E n \in Pages : CreateFails(s, n)
    \/ \E a \in Actors : DeleteProtect(a) \/ DeleteDrop(a) \/ DeleteDone(a)

Spec == Init /\ [][Next]_vars

-----------------------------------------------------------------------------
(* Properties.                                                             *)

Entries == [frame : Frames, w : BOOLEAN] \cup {NONE}

\* Page table entries, counts and snapshot records keep their types.
TypeOK ==
    /\ pte \in [Pages -> Entries]
    /\ mem \in [Frames -> Values \cup {NONE}]
    /\ ref \in [Frames -> 0..RefMax]
    /\ tracker \in [Frames -> 0..TrackerMax]
    /\ snap \in [Snaps -> [state : {"active", "deleted", "freed"}, pages : [Pages -> Entries]] \cup {NONE}]
    /\ seen \in [Snaps -> [Pages -> Values \cup {NONE}]]
    /\ task \in {"run", "fault", "lookup", "copy", "segv", "oom", "gone"}
    /\ flt \in [page : Pages \cup {NONE}, frame : Frames \cup {NONE}]
    /\ del \in [Actors -> [snap : Snaps, page : 1..NPages + 1, step : {"protect", "drop"}] \cup {NONE}]
    /\ reopened \subseteq Frames

Mappers(g) == {v \in Mapped : pte[v].frame = g}
Holders(g) == {s \in Snaps : \E v \in Captured(s) : snap[s].pages[v].frame = g}


\* What a snapshot captured stays as it was however the task writes, faults,
\* grows, shrinks or is restored from other snapshots, unless the deletion
\* of another snapshot of the same frame made it writable (cow_fault_handle
\* always copies; snap_destroy_task_entry).
CapturesIntact ==
    \A s \in Snaps : \A v \in Captured(s) :
        Active(s) /\ snap[s].pages[v].frame \notin reopened => mem[snap[s].pages[v].frame] = seen[s][v]

\* Restoring an active snapshot brings back the contents of every page it
\* captured, also of those unmapped since, except the caller's stack page
\* (restore_pages).
RestoreBringsBack ==
    [][\A s \in Snaps : Restore(s) =>
          \A v \in Captured(s) :
              \/ v = Stack /\ Owner[s] = "self"
              \/ snap[s].pages[v].frame \in reopened
              \/ pte'[v] # NONE /\ mem'[pte'[v].frame] = seen[s][v]]_vars



-----------------------------------------------------------------------------
(* What comments say, and the code does not do.                            *)

\* "promoting it in place would change content visible through the
\* snapshot's captured_pages entry": a capture never changes.
SnapshotImmutable ==
    \A s \in Snaps : Active(s) => \A v \in Captured(s) : mem[snap[s].pages[v].frame] = seen[s][v]

\* "Restore the original flags ... so post-delete writes succeed without a
\* fault": no deletion kills the task.
WritesNeverKill == task # "segv"

\* "drops cow_page_tracker refs (frees trackers when refcount hits 0)": a
\* tracker does not outlive the snapshots of its frame.
TrackersReaped == (\A s \in Snaps : Captured(s) = {}) => \A g \in Frames : tracker[g] = 0

\* "Sharing a page 256-ways pins it forever": a frame in use is not free.
SharedFramesPinned == \A g \in Frames : Mappers(g) # {} \/ Holders(g) # {} => ref[g] > 0
=============================================================================
