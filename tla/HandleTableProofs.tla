------------------------- MODULE HandleTableProofs -------------------------
(***************************************************************************)
(* What HandleTable guarantees for every table size, every set of objects  *)
(* and any number of insertions.                                           *)
(*                                                                         *)
(* A free list is a recursive notion, but what the table relies on is not: *)
(* the head is free, a free slot links to a free slot, no two free slots   *)
(* link to one slot, and none links to the head.  These four facts are     *)
(* preserved by a pop, a push and the threading of new slots, and the      *)
(* first of them says that an insertion fills a free slot.                 *)
(***************************************************************************)
EXTENDS HandleTable, FiniteSetTheorems, TLAPS

HeadFree == next_free # NONE => object_idx[next_free] = NONE
LinksFree ==
    \A s \in Slots : object_idx[s] = NONE /\ link[s] # NONE => object_idx[link[s]] = NONE
LinksDistinct ==
    \A s, r \in Slots :
        /\ object_idx[s] = NONE /\ object_idx[r] = NONE
        /\ link[s] = link[r] /\ link[s] # NONE
        => s = r
HeadUnlinked ==
    \A s \in Slots : object_idx[s] = NONE /\ next_free # NONE => link[s] # next_free
FreeListOK == HeadFree /\ LinksFree /\ LinksDistinct /\ HeadUnlinked

\* Handles name slots of the table, with a generation the slot has had; the
\* generation of a free slot is one no handle has.
GenerationsFresh ==
    phase = "live" =>
        \A h \in issued :
            /\ h.slot \in Slots
            /\ h.gen <= local_generation[h.slot]
            /\ object_idx[h.slot] = NONE => h.gen < local_generation[h.slot]

\* count is the number of slots in use, as long as the table has slots.
CountOK == capacity > 0 => count = Cardinality(Used)

Freed == phase = "freed" => capacity = 0

IInv == TypeOK /\ CountOK /\ Freed /\ FreeListOK /\ GenerationsFresh /\ HandlesUnique

USE ObjectAssumption, SlotAssumption, CapAssumption, BoundAssumption, FailureAssumption

LEMMA UsedFinite == TypeOK => IsFiniteSet(Used) /\ Cardinality(Used) \in Nat
<1> SUFFICES ASSUME TypeOK PROVE IsFiniteSet(Used) /\ Cardinality(Used) \in Nat
  OBVIOUS
<1>1. IsFiniteSet(Slots)
  BY FS_Interval DEF TypeOK, Slots
<1>2. Used \in SUBSET Slots
  BY DEF Used
<1> QED
  BY <1>1, <1>2, FS_Subset, FS_CardinalityType

LEMMA InitIInv == Init => IInv
<1> SUFFICES ASSUME Init PROVE IInv
  OBVIOUS
<1>1. capacity \in 0..MaxCap
  BY DEF Init
<1>2. TypeOK
  <2>1. issued \subseteq [slot : 0..MaxCap - 1, gen : Nat \ {0}, nr : 1..inserts]
    BY DEF Init
  <2>2. next_free \in Slots \cup {NONE} /\ link \in [Slots -> Slots \cup {NONE}]
    BY <1>1 DEF Init, Slots
  <2>3. stray \in BOOLEAN
    BY DEF Init
  <2> QED
    BY <1>1, <2>1, <2>2, <2>3 DEF Init, TypeOK, Slots
<1>3. FreeListOK
  BY <1>1 DEF Init, FreeListOK, HeadFree, LinksFree, LinksDistinct, HeadUnlinked, Slots
<1>4. Freed /\ GenerationsFresh /\ HandlesUnique
  BY DEF Init, Freed, GenerationsFresh, HandlesUnique
<1>5. CountOK
  <2>1. Used = {}
    BY DEF Init, Used
  <2> QED
    BY <2>1, FS_EmptySet DEF Init, CountOK
<1> QED
  BY <1>2, <1>3, <1>4, <1>5 DEF IInv

\* Arrays of n slots with a well-formed free list whose head is s, holding
\* the handles in use now.
Takeable(n, s, objects, gens, links) ==
    /\ n \in 1..MaxCap
    /\ objects \in [0..n - 1 -> Objects \cup {NONE}]
    /\ gens \in [0..n - 1 -> Nat \ {0}]
    /\ links \in [0..n - 1 -> (0..n - 1) \cup {NONE}]
    /\ s \in 0..n - 1
    /\ objects[s] = NONE
    /\ \A r \in 0..n - 1 : objects[r] = NONE /\ links[r] # NONE => objects[links[r]] = NONE
    /\ \A q, r \in 0..n - 1 :
          objects[q] = NONE /\ objects[r] = NONE /\ links[q] = links[r] /\ links[q] # NONE
              => q = r
    /\ \A r \in 0..n - 1 : objects[r] = NONE => links[r] # s
    /\ \A h \in issued : /\ h.slot \in 0..n - 1
                         /\ h.gen <= gens[h.slot]
                         /\ objects[h.slot] = NONE => h.gen < gens[h.slot]
    /\ {r \in 0..n - 1 : objects[r] # NONE} = Used

\* Filling the head of a well-formed free list keeps the invariant.
LEMMA TakeIInv ==
    ASSUME NEW o \in Objects, NEW n, NEW s, NEW objects, NEW gens, NEW links,
           IInv, phase = "live", capacity > 0,
           Takeable(n, s, objects, gens, links),
           capacity' = n,
           Take(s, o, objects, gens, links),
           UNCHANGED <<phase, stray>>
    PROVE  IInv'
<1> USE DEF Takeable
<1>1. Slots' = 0..n - 1
  BY DEF Slots
<1>2. TypeOK'
  <2>1. issued' \in SUBSET [slot : 0..MaxCap - 1, gen : Nat \ {0}, nr : 1..inserts']
    <3>1. [slot |-> s, gen |-> gens[s], nr |-> inserts + 1]
              \in [slot : 0..MaxCap - 1, gen : Nat \ {0}, nr : 1..inserts + 1]
      BY DEF IInv, TypeOK
    <3>2. issued \subseteq [slot : 0..MaxCap - 1, gen : Nat \ {0}, nr : 1..inserts + 1]
      BY DEF IInv, TypeOK
    <3> QED
      BY <3>1, <3>2 DEF Take
  <2>2. capacity' \in 0..MaxCap /\ count' \in Nat /\ inserts' \in Nat
    BY DEF IInv, TypeOK, Take
  <2>3. /\ object_idx' \in [Slots' -> Objects \cup {NONE}]
        /\ local_generation' \in [Slots' -> Nat \ {0}]
        /\ link' \in [Slots' -> Slots' \cup {NONE}]
        /\ next_free' \in Slots' \cup {NONE}
    BY <1>1 DEF Take, After
  <2> QED
    BY <2>1, <2>2, <2>3 DEF IInv, TypeOK
<1>3. FreeListOK'
  <2>1. HeadFree'
    BY <1>1 DEF HeadFree, Take, After
  <2>2. LinksFree'
    BY <1>1 DEF LinksFree, Take, After
  <2>3. LinksDistinct'
    BY <1>1 DEF LinksDistinct, Take, After
  <2>4. HeadUnlinked'
    BY <1>1 DEF HeadUnlinked, Take, After
  <2> QED
    BY <2>1, <2>2, <2>3, <2>4 DEF FreeListOK
<1>4. Freed'
  BY DEF Freed
<1>5. GenerationsFresh'
  <2> SUFFICES ASSUME NEW h \in issued'
               PROVE  /\ h.slot \in 0..n - 1
                      /\ h.gen <= gens[h.slot]
                      /\ object_idx'[h.slot] = NONE => h.gen < gens[h.slot]
    BY <1>1 DEF GenerationsFresh, Take
  <2>1. CASE h \in issued
    BY <2>1 DEF Take
  <2>2. CASE h = [slot |-> s, gen |-> gens[s], nr |-> inserts + 1]
    BY <2>2 DEF Take
  <2> QED
    BY <2>1, <2>2 DEF Take
<1>6. HandlesUnique'
  <2>1. \A h \in issued : ~(h.slot = s /\ h.gen = gens[s])
    BY DEF IInv, TypeOK
  <2> QED
    BY <2>1 DEF IInv, HandlesUnique, Take
<1>7. CountOK'
  <2>1. Used' = Used \cup {s}
    BY <1>1 DEF Used, Take
  <2>2. s \notin Used
    OBVIOUS
  <2>3. Cardinality(Used') = Cardinality(Used) + 1
    BY <2>1, <2>2, UsedFinite, FS_AddElement DEF IInv
  <2> QED
    BY <2>3 DEF IInv, CountOK, Take
<1> QED
  BY <1>2, <1>3, <1>4, <1>5, <1>6, <1>7 DEF IInv

LEMMA NextIInv == IInv /\ [Next]_vars => IInv'
<1> SUFFICES ASSUME IInv, [Next]_vars PROVE IInv'
  OBVIOUS
<1> USE DEF IInv
<1>1. ASSUME NEW o \in Objects, Insert(o) PROVE IInv'
  <2>1. next_free \in 0..capacity - 1 /\ capacity \in 1..MaxCap
    BY <1>1 DEF Insert, TypeOK, Slots
  <2>2. object_idx[next_free] = NONE
    BY <1>1 DEF Insert, FreeListOK, HeadFree
  <2>3. /\ object_idx \in [0..capacity - 1 -> Objects \cup {NONE}]
        /\ local_generation \in [0..capacity - 1 -> Nat \ {0}]
        /\ link \in [0..capacity - 1 -> (0..capacity - 1) \cup {NONE}]
    BY DEF TypeOK, Slots
  <2>4. \A h \in issued :
            /\ h.slot \in 0..capacity - 1
            /\ h.gen <= local_generation[h.slot]
            /\ object_idx[h.slot] = NONE => h.gen < local_generation[h.slot]
    BY <1>1 DEF Insert, GenerationsFresh, Slots
  <2>5. /\ phase = "live" /\ capacity' = capacity /\ UNCHANGED <<phase, stray>>
        /\ Take(next_free, o, object_idx, local_generation, link)
    BY <1>1 DEF Insert
  <2>6. /\ \A r \in 0..capacity - 1 :
              object_idx[r] = NONE /\ link[r] # NONE => object_idx[link[r]] = NONE
        /\ \A q, r \in 0..capacity - 1 :
              object_idx[q] = NONE /\ object_idx[r] = NONE /\ link[q] = link[r] /\ link[q] # NONE
                  => q = r
        /\ \A r \in 0..capacity - 1 : object_idx[r] = NONE => link[r] # next_free
    BY <1>1 DEF Insert, FreeListOK, LinksFree, LinksDistinct, HeadUnlinked, Slots
  <2>7. {r \in 0..capacity - 1 : object_idx[r] # NONE} = Used
    BY DEF Used, Slots
  <2>8. Takeable(capacity, next_free, object_idx, local_generation, link)
    BY <2>1, <2>2, <2>3, <2>4, <2>6, <2>7 DEF Takeable
  <2> HIDE DEF IInv
  <2> QED
    BY <2>1, <2>5, <2>8, TakeIInv
<1>2. ASSUME NEW o \in Objects, GrowInsert(o) PROVE IInv'
  <2> DEFINE n == Least(2 * capacity, MaxCap)
             objects == [s \in 0..n - 1 |-> IF s < capacity THEN object_idx[s] ELSE NONE]
             gens == [s \in 0..n - 1 |-> IF s < capacity THEN local_generation[s] ELSE 1]
             links == Threaded(link, capacity, n, next_free)
  <2>1. /\ capacity \in Nat /\ 0 < capacity /\ capacity < MaxCap /\ next_free = NONE
        /\ phase = "live" /\ UNCHANGED <<phase, stray>>
    BY <1>2 DEF GrowInsert, TypeOK
  <2>2. n \in 1..MaxCap /\ n > capacity
    BY <2>1 DEF Least
  <2>3. capacity' = n /\ Take(capacity, o, objects, gens, links)
    BY <1>2 DEF GrowInsert, Grown
  <2>4. \A s \in 0..n - 1 :
            links[s] = IF s < capacity THEN link[s] ELSE IF s = n - 1 THEN NONE ELSE s + 1
    BY <2>1 DEF Threaded
  <2>5. /\ object_idx \in [0..capacity - 1 -> Objects \cup {NONE}]
        /\ local_generation \in [0..capacity - 1 -> Nat \ {0}]
        /\ link \in [0..capacity - 1 -> (0..capacity - 1) \cup {NONE}]
    BY DEF TypeOK, Slots
  <2>6. /\ objects \in [0..n - 1 -> Objects \cup {NONE}]
        /\ gens \in [0..n - 1 -> Nat \ {0}]
        /\ capacity \in 0..n - 1
        /\ objects[capacity] = NONE
    BY <2>1, <2>2, <2>5
  <2>7. links \in [0..n - 1 -> (0..n - 1) \cup {NONE}]
    BY <2>1, <2>2, <2>4, <2>5 DEF Threaded
  <2>8. /\ \A r \in 0..capacity - 1 :
              object_idx[r] = NONE /\ link[r] # NONE => object_idx[link[r]] = NONE
        /\ \A q, r \in 0..capacity - 1 :
              object_idx[q] = NONE /\ object_idx[r] = NONE /\ link[q] = link[r] /\ link[q] # NONE
                  => q = r
    BY DEF FreeListOK, LinksFree, LinksDistinct, Slots
  <2>9. \A r \in 0..n - 1 : objects[r] = NONE /\ links[r] # NONE => objects[links[r]] = NONE
    <3> SUFFICES ASSUME NEW r \in 0..n - 1, objects[r] = NONE, links[r] # NONE
                 PROVE  objects[links[r]] = NONE
      OBVIOUS
    <3>1. CASE r < capacity
      <4>1. links[r] = link[r] /\ object_idx[r] = NONE
        BY <2>1, <2>2, <2>4, <3>1
      <4>2. link[r] \in 0..capacity - 1 /\ object_idx[link[r]] = NONE
        BY <2>1, <2>2, <2>5, <2>8, <3>1, <4>1
      <4> QED
        BY <2>1, <2>2, <4>1, <4>2
    <3>2. CASE ~(r < capacity)
      <4>1. links[r] = r + 1 /\ r + 1 \in 0..n - 1 /\ ~(r + 1 < capacity)
        BY <2>1, <2>2, <2>4, <3>2
      <4> QED
        BY <2>1, <2>2, <4>1
    <3> QED
      BY <3>1, <3>2
  <2>10. \A q, r \in 0..n - 1 :
            objects[q] = NONE /\ objects[r] = NONE /\ links[q] = links[r] /\ links[q] # NONE
                => q = r
    BY <2>1, <2>2, <2>4, <2>5, <2>8
  <2>11. \A r \in 0..n - 1 : objects[r] = NONE => links[r] # capacity
    BY <2>1, <2>2, <2>4, <2>5
  <2>12. \A h \in issued : /\ h.slot \in 0..n - 1
                           /\ h.gen <= gens[h.slot]
                           /\ objects[h.slot] = NONE => h.gen < gens[h.slot]
    BY <2>1, <2>2 DEF GenerationsFresh, Slots
  <2>13. {r \in 0..n - 1 : objects[r] # NONE} = Used
    BY <2>1, <2>2 DEF Used, Slots
  <2> HIDE DEF n, objects, gens, links
  <2>14. Takeable(n, capacity, objects, gens, links)
    BY <2>2, <2>6, <2>7, <2>9, <2>10, <2>11, <2>12, <2>13 DEF Takeable
  <2> HIDE DEF IInv
  <2> QED
    BY <2>1, <2>3, <2>14, TakeIInv
<1>3. ASSUME NEW o \in Objects, InsertNowhere(o) PROVE IInv'
  <2>1. TypeOK'
    BY <1>3 DEF InsertNowhere, TypeOK, Slots
  <2> QED
    BY <1>3, <2>1 DEF InsertNowhere, Freed, FreeListOK, HeadFree, LinksFree, LinksDistinct,
        HeadUnlinked, CountOK, GenerationsFresh, HandlesUnique, Slots, Used
<1>4. ASSUME NEW s \in Slots, Remove(s) PROVE IInv'
  <2>1. Slots' = Slots
    BY <1>4 DEF Remove, Slots
  <2>2. CountOK' /\ count' \in Nat
    <3>1. Used' = Used \ {s} /\ s \in Used
      BY <1>4, <2>1 DEF Remove, Used, TypeOK
    <3>2. Cardinality(Used') = Cardinality(Used) - 1 /\ Cardinality(Used) \in Nat
      BY <3>1, UsedFinite, FS_RemoveElement
    <3>3. IsFiniteSet(Used') /\ Cardinality(Used') \in Nat
      BY <3>1, UsedFinite, FS_RemoveElement, FS_CardinalityType
    <3>4. capacity > 0
      BY DEF TypeOK, Slots
    <3> QED
      BY <1>4, <3>2, <3>3, <3>4 DEF Remove, CountOK
  <2>5. TypeOK'
    BY <1>4, <2>1, <2>2 DEF Remove, NextGeneration, TypeOK
  <2>3. FreeListOK'
    BY <1>4, <2>1 DEF Remove, TypeOK, FreeListOK, HeadFree, LinksFree, LinksDistinct, HeadUnlinked
  <2>4. GenerationsFresh'
    BY <1>4, <2>1 DEF Remove, NextGeneration, TypeOK, GenerationsFresh
  <2> QED
    BY <1>4, <2>2, <2>3, <2>4, <2>5 DEF Remove, Freed, HandlesUnique
<1>5. ASSUME TableFree PROVE IInv'
  <2>1. TypeOK'
    BY <1>5 DEF TableFree, TypeOK, Slots
  <2> QED
    BY <1>5, <2>1 DEF TableFree, Freed, FreeListOK, HeadFree, LinksFree, LinksDistinct,
        HeadUnlinked, CountOK, GenerationsFresh, HandlesUnique, Slots, Used
<1>6. CASE UNCHANGED vars
  BY <1>6 DEF vars, TypeOK, Freed, FreeListOK, HeadFree, LinksFree, LinksDistinct,
      HeadUnlinked, CountOK, GenerationsFresh, HandlesUnique, Slots, Used
<1> QED
  BY <1>1, <1>2, <1>3, <1>4, <1>5, <1>6 DEF Next

\* The fields of cap_handle_table_t keep their types for every capacity: in
\* particular every link and the list head stay inside the array, whatever
\* insertions, growths and removals came before.
THEOREM TypeCorrect == Spec => []TypeOK
<1>1. IInv => TypeOK
  BY DEF IInv
<1> QED
  BY InitIInv, NextIInv, <1>1, PTL DEF Spec

\* Slot and local_generation name one insertion at most, for ever and for
\* every capacity: removal bumps the generation, growth keeps it
\* (cap_handle_insert, cap_handle_remove, cap_handle_grow).
THEOREM HandlesNeverReused == Spec => []HandlesUnique
<1>1. IInv => HandlesUnique
  BY DEF IInv
<1> QED
  BY InitIInv, NextIInv, <1>1, PTL DEF Spec

\* No insertion overwrites a handle in use, whatever sequence of insertions,
\* growths and removals came before (cap_handle_insert).
THEOREM InsertionsNeverOverwrite == Spec => NoOverwrite
<1> DEFINE Step == \A s \in Slots : s < capacity' /\ object_idx[s] # NONE
                       => object_idx'[s] \in {object_idx[s], NONE}
<1>1. IInv /\ [Next]_vars => [Step]_vars
  <2> SUFFICES ASSUME IInv, Next PROVE Step
    BY DEF vars
  <2> USE DEF IInv
  <2>1. ASSUME NEW o \in Objects, Insert(o) PROVE Step
    BY <2>1 DEF Insert, Take, TypeOK, FreeListOK, HeadFree, Slots
  <2>2. ASSUME NEW o \in Objects, GrowInsert(o) PROVE Step
    BY <2>2 DEF GrowInsert, Grown, Take, TypeOK, Slots, Least
  <2>3. ASSUME NEW o \in Objects, InsertNowhere(o) PROVE Step
    BY <2>3 DEF InsertNowhere
  <2>4. ASSUME NEW s \in Slots, Remove(s) PROVE Step
    BY <2>4 DEF Remove, TypeOK
  <2>5. ASSUME TableFree PROVE Step
    BY <2>5 DEF TableFree, Slots, TypeOK
  <2> QED
    BY <2>1, <2>2, <2>3, <2>4, <2>5 DEF Next
<1> QED
  BY InitIInv, NextIInv, <1>1, PTL DEF Spec, NoOverwrite
=============================================================================
