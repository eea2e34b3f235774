---------------------------- MODULE HandleTable ----------------------------
(***************************************************************************)
(* A task's capability handle table (kernel/cap/handle_table.c): an array  *)
(* of slots that doubles when it is full, with the free slots threaded     *)
(* into a list through their next_free fields.  Every operation runs under *)
(* t->lock and is one step; the callers are the task itself and tasks that *)
(* grant it a capability.                                                  *)
(***************************************************************************)
EXTENDS Naturals, FiniteSets

CONSTANTS
    Objects,       \* object indices that are inserted
    NONE,          \* CAP_OBJECT_IDX_NONE and CAP_HANDLE_SLOT_NONE
    InitialCap,    \* CAP_HANDLE_INITIAL_CAPACITY
    MaxCap,        \* CAP_HANDLE_MAX
    MaxInserts,    \* bound: insertions over the table's life
    Failures       \* subset of {"init", "late"}: the first allocation may fail; an
                   \* insertion may reach the table after it was freed

ASSUME ObjectAssumption == NONE \notin Objects
ASSUME SlotAssumption == NONE \notin Nat
ASSUME CapAssumption == InitialCap \in Nat \ {0} /\ MaxCap \in Nat /\ InitialCap <= MaxCap
ASSUME BoundAssumption == MaxInserts \in Nat
ASSUME FailureAssumption == Failures \subseteq {"init", "late"}

VARIABLES
    capacity, count,     \* t->capacity, t->count
    object_idx,          \* per slot: the object, or NONE if the slot is free
    local_generation,    \* per slot
    link,                \* per slot: entries[slot].next_free
    next_free,           \* head of the free list
    phase,               \* "live" or "freed"
    inserts,             \* number of insertions so far
    issued,              \* handles returned: slot, generation, and which insertion
    stray                \* an entry outside the array was written

vars == <<capacity, count, object_idx, local_generation, link, next_free,
          phase, inserts, issued, stray>>

Slots == 0..capacity - 1
Free == {s \in Slots : object_idx[s] = NONE}
Used == {s \in Slots : object_idx[s] # NONE}

Least(a, b) == IF a <= b THEN a ELSE b

\* rebuild_free_list_in_range: slots lo..hi-1 are chained in ascending order
\* in front of the list that began at head.
Threaded(old, lo, hi, head) ==
    [s \in 0..hi - 1 |-> IF s < lo THEN old[s] ELSE IF s = hi - 1 THEN head ELSE s + 1]

\* cap_handle_table_init.  The callers ignore a failed allocation, which
\* leaves a table without slots.
Init ==
    /\ capacity \in {InitialCap} \cup (IF "init" \in Failures THEN {0} ELSE {})
    /\ count = 0
    /\ object_idx = [s \in Slots |-> NONE]
    /\ local_generation = [s \in Slots |-> 1]
    /\ link = [s \in Slots |-> IF s = capacity - 1 THEN NONE ELSE s + 1]
    /\ next_free = IF capacity = 0 THEN NONE ELSE 0
    /\ phase = "live"
    /\ inserts = 0
    /\ issued = {}
    /\ stray = FALSE

\* Mutant: the list head is not advanced.
AfterItself(links, s) == s

\* Mutant: the list is taken to end at the slot.
AfterNothing(links, s) == NONE

After(links, s) == links[s]

\* Slot s leaves the free list for object o; its generation is the handle's.
Take(s, o, objects, gens, links) ==
    /\ object_idx' = [objects EXCEPT ![s] = o]
    /\ local_generation' = gens
    /\ next_free' = After(links, s)
    /\ link' = [links EXCEPT ![s] = NONE]
    /\ count' = count + 1
    /\ inserts' = inserts + 1
    /\ issued' = issued \cup {[slot |-> s, gen |-> gens[s], nr |-> inserts + 1]}

\* cap_handle_insert with a free slot at hand.
Insert(o) ==
    /\ phase = "live"
    /\ inserts < MaxInserts
    /\ next_free # NONE
    /\ Take(next_free, o, object_idx, local_generation, link)
    /\ UNCHANGED <<capacity, phase, stray>>

\* cap_handle_grow copies the entries and initialises the new ones.
Grown(old, n, empty) == [s \in 0..n - 1 |-> IF s < capacity THEN old[s] ELSE empty]

\* cap_handle_insert on a full table: cap_handle_grow copies the entries
\* into an array of twice the size and threads the new slots, then the
\* insertion takes the first of them.
GrowInsert(o) ==
    /\ phase = "live" /\ inserts < MaxInserts
    /\ next_free = NONE /\ 0 < capacity /\ capacity < MaxCap
    /\ LET n == Least(2 * capacity, MaxCap)
       IN  /\ capacity' = n
           /\ Take(capacity, o, Grown(object_idx, n, NONE), Grown(local_generation, n, 1),
                   Threaded(link, capacity, n, next_free))
    /\ UNCHANGED <<phase, stray>>

\* cap_handle_insert on a table without slots (initialisation failed, or the
\* table was freed): twice zero is zero, so growing succeeds and adds no
\* slot, and the entry at CAP_HANDLE_SLOT_NONE is written.
InsertNowhere(o) ==
    /\ inserts < MaxInserts
    /\ capacity = 0
    /\ phase = "live" \/ "late" \in Failures
    /\ stray' = TRUE
    /\ inserts' = inserts + 1
    /\ count' = count + 1
    /\ UNCHANGED <<capacity, object_idx, local_generation, link, next_free, phase, issued>>

\* Mutant: a slot is freed with the generation it had.
SameGeneration(g) == g

NextGeneration(g) == g + 1

\* cap_handle_remove of a slot in use; any other slot is refused.
Remove(s) ==
    /\ phase = "live" /\ object_idx[s] # NONE
    /\ object_idx' = [object_idx EXCEPT ![s] = NONE]
    /\ local_generation' = [local_generation EXCEPT ![s] = NextGeneration(@)]
    /\ link' = [link EXCEPT ![s] = next_free]
    /\ next_free' = s
    /\ count' = count - 1
    /\ UNCHANGED <<capacity, phase, inserts, issued, stray>>

\* cap_handle_table_free, when the task is reaped.
TableFree ==
    /\ phase = "live"
    /\ phase' = "freed"
    /\ capacity' = 0 /\ count' = 0 /\ next_free' = NONE
    /\ object_idx' = [s \in {} |-> NONE]
    /\ local_generation' = [s \in {} |-> 1]
    /\ link' = [s \in {} |-> NONE]
    /\ UNCHANGED <<inserts, issued, stray>>

Next ==
    \/ \E o \in Objects : Insert(o) \/ GrowInsert(o) \/ InsertNowhere(o)
    \/ \E s \in Slots : Remove(s)
    \/ TableFree

Spec == Init /\ [][Next]_vars

-----------------------------------------------------------------------------
(* Properties.                                                             *)

\* The fields of cap_handle_table_t keep their types, and the entry arrays
\* have exactly capacity slots.
TypeOK ==
    /\ capacity \in 0..MaxCap
    /\ count \in Nat
    /\ object_idx \in [Slots -> Objects \cup {NONE}]
    /\ local_generation \in [Slots -> Nat \ {0}]
    /\ link \in [Slots -> Slots \cup {NONE}]
    /\ next_free \in Slots \cup {NONE}
    /\ phase \in {"live", "freed"}
    /\ inserts \in Nat
    /\ issued \in SUBSET [slot : 0..MaxCap - 1, gen : Nat \ {0}, nr : 1..inserts]
    /\ stray \in BOOLEAN

\* The slots reached from the list head in capacity steps.
Reached ==
    LET at[k \in 0..capacity] ==
          IF k = 0 THEN next_free
          ELSE IF at[k - 1] = NONE THEN NONE ELSE link[at[k - 1]]
    IN  {at[k] : k \in 0..capacity} \ {NONE}

\* No slot is lost and none is handed out twice: the free list holds exactly
\* the slots that are not in use, and count is the number in use
\* (cap_handle_insert, cap_handle_remove, cap_handle_grow).
NoSlotLost ==
    stray \/ (Reached = Free /\ count = Cardinality(Used))

\* Slot and generation together never name two insertions: a slot that is
\* reused gets a generation no earlier handle had (the local_generation bump
\* of cap_handle_remove, kept across cap_handle_grow).
HandlesUnique ==
    \A h, k \in issued : h.slot = k.slot /\ h.gen = k.gen => h.nr = k.nr

\* The object in a slot changes only by a removal that empties the slot, or
\* with the whole table: no insertion, with or without growth, replaces a
\* handle in use (cap_handle_insert pops the slot it fills).
NoOverwrite ==
    [][\A s \in Slots : s < capacity' /\ object_idx[s] # NONE
          => object_idx'[s] \in {object_idx[s], NONE}]_vars

-----------------------------------------------------------------------------
(* What comments say, and the code does not do.                            *)

\* cap_handle_lookup(slot) is "not invalid" for a handle of insertion nr
\* only while that insertion's object is in the slot ("bumped on close so
\* reused slots invalidate stale tokens").
LookupFinds(h) == phase = "live" /\ h.slot \in Slots /\ object_idx[h.slot] # NONE
StaleHandleFails ==
    \A h, k \in issued : h.slot = k.slot /\ h.nr < k.nr => ~LookupFinds(h)

\* "Returns negative CAP_V2_* on failure": an insertion that succeeds has a
\* slot inside the array (cap_handle_insert on a table of capacity 0).
InsertInBounds == ~stray
=============================================================================
