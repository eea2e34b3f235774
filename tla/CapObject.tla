----------------------------- MODULE CapObject -----------------------------
(***************************************************************************)
(* The capability object registry (kernel/cap/object.c), the revocation    *)
(* cascade and the collection of a dead task's objects                     *)
(* (kernel/cap/revoke.c), and the capability system calls that use them.   *)
(*                                                                         *)
(* g_cap_object_lock protects one look at the registry at a time, so each  *)
(* critical section is one step, and every system call is several: a token *)
(* is resolved without the lock, the parent's rights are checked without   *)
(* it, the new object is published under it and linked to its parent under *)
(* it again; a cascade takes it once per object it visits.                 *)
(*                                                                         *)
(* An object keeps a serial number for its whole life, which the code does *)
(* not have: it tells apart two objects that use one registry slot one     *)
(* after the other.                                                        *)
(***************************************************************************)
EXTENDS Naturals, Sequences, FiniteSets

CONSTANTS
    Pids,          \* tasks that make capability system calls
    Capacity,      \* CAP_OBJECT_CAPACITY - 1: usable registry slots
    CascadeMax,    \* REVOKE_CASCADE_MAX
    MaxObjects,    \* bound: objects ever created
    RightSets,     \* sets of rights the callers ask for
    Audiences,     \* audience arguments: sets of pids, possibly with PUBLIC
    FlagSets,      \* flags arguments
    Destroyed,     \* which objects are destroyed: subset of {"root", "child"}
    PUBLIC         \* PID_PUBLIC

ASSUME CapacityAssumption == Capacity \in Nat \ {0}
ASSUME CascadeAssumption == CascadeMax \in Nat \ {0}
ASSUME BoundAssumption == MaxObjects \in Nat \ {0}
ASSUME RightsAssumption == RightSets \subseteq SUBSET {"DERIVE", "REVOKE", "USE"}
ASSUME AudienceAssumption == Audiences \subseteq SUBSET (Pids \cup {PUBLIC})
ASSUME FlagAssumption ==
    FlagSets \subseteq SUBSET {"PUBLIC", "EAGER_REVOKE", "IMMORTAL",
                               "INHERITABLE", "RECURSIVE_INHERIT"}
ASSUME DestroyAssumption == Destroyed \subseteq {"root", "child"}
ASSUME PublicAssumption == PUBLIC \notin Pids

NONE == 0    \* CAP_OBJECT_IDX_NONE as a link, and the empty registry slot
Slots == 1..Capacity
Serials == 1..MaxObjects

VARIABLES
    ptrs,      \* g_cap_object_ptrs: the serial of the object in each slot, or NONE
    obj,       \* the objects ever created, by serial
    tokens,    \* tokens handed out; "names" is the object it was minted for
    pc, call,  \* per task: place in its call, and the call's locals
    work,      \* per task: locals of revoke_cascade
    done       \* what completed cascades stand for: the root and its linked descendants

vars == <<ptrs, obj, tokens, pc, call, work, done>>

At(s) == obj[ptrs[s]]
Live(u) == ptrs[obj[u].slot] = u
NoCall == [idx |-> NONE, names |-> NONE, rights |-> {}, aud |-> {}, flags |-> {},
           expand |-> FALSE, reap |-> NONE]
NoWork == [root |-> NONE, names |-> NONE, queue |-> <<>>, enqueued |-> 0,
           truncated |-> FALSE, goal |-> {}]

Init ==
    /\ ptrs = [s \in Slots |-> NONE]
    /\ obj = <<>>
    /\ tokens = {}
    /\ pc = [p \in Pids |-> "idle"]
    /\ call = [p \in Pids |-> NoCall]
    /\ work = [p \in Pids |-> NoWork]
    /\ done = {}

-----------------------------------------------------------------------------
(* Resolution and creation.                                                *)

InAudience(o, p) == "PUBLIC" \in o.flags \/ p \in o.aud

\* cap_token_resolve: slot in use, not deleted, same generation, caller in
\* the audience, every required right present.
Resolves(p, tok, need) ==
    /\ ptrs[tok.idx] # NONE
    /\ ~At(tok.idx).deleted
    /\ At(tok.idx).generation = tok.gen
    /\ InAudience(At(tok.idx), p)
    /\ need \subseteq At(tok.idx).rights

FreeSlots == {s \in Slots : ptrs[s] = NONE}
FirstFree == CHOOSE s \in FreeSlots : \A r \in FreeSlots : s <= r

\* cap_object_create up to the release of the lock: a fresh object of
\* generation 1 in the lowest free slot.  PID_PUBLIC in the audience sets the
\* PUBLIC flag.  "from" is the object whose rights the derivation was checked
\* against.
Publish(owner, rights, aud, flags, parent, from) ==
    LET u == Len(obj) + 1 IN
    /\ Len(obj) < MaxObjects
    /\ FreeSlots # {}
    /\ ptrs' = [ptrs EXCEPT ![FirstFree] = u]
    /\ obj' = Append(obj,
         [slot |-> FirstFree, generation |-> 1, deleted |-> FALSE, rights |-> rights,
          aud |-> aud, owner |-> owner, parent |-> parent, from |-> from,
          flags |-> flags \cup (IF PUBLIC \in aud THEN {"PUBLIC"} ELSE {}),
          first_child |-> NONE, next_sibling |-> NONE])

TokenOf(u) == [gen |-> obj[u].generation, idx |-> obj[u].slot, names |-> u]

\* cap_object_create of a root object by a kernel service for its caller.
Create(p, rights, aud, flags) ==
    /\ pc[p] = "idle"
    /\ Publish(p, rights, IF aud = {} THEN {p} ELSE aud, flags, NONE, NONE)
    /\ tokens' = tokens \cup {[gen |-> 1, idx |-> FirstFree, names |-> Len(obj) + 1]}
    /\ UNCHANGED <<pc, call, work, done>>

-----------------------------------------------------------------------------
(* SYS_CAP_DERIVE, and the inheritance walk of a spawn.                    *)

\* The caller's token is resolved for RIGHT_DERIVE.  From here on only its
\* idx is used.
DeriveResolve(p, tok, rights, aud, flags) ==
    /\ pc[p] = "idle"
    /\ Resolves(p, tok, {"DERIVE"})
    /\ call' = [call EXCEPT ![p] = [NoCall EXCEPT
           !.idx = tok.idx, !.names = tok.names, !.rights = rights,
           !.aud = IF aud = {} THEN {p} ELSE aud, !.flags = flags]]
    /\ pc' = [pc EXCEPT ![p] = "derive"]
    /\ UNCHANGED <<ptrs, obj, tokens, work, done>>

\* sched_create_user_process: an INHERITABLE object of the parent task is
\* derived with all its rights and flags; RECURSIVE_INHERIT adds the child.
InheritResolve(p, child, s) ==
    /\ pc[p] = "idle" /\ child # p
    /\ ptrs[s] # NONE /\ ~At(s).deleted
    /\ "INHERITABLE" \in At(s).flags
    /\ LET recursive == "RECURSIVE_INHERIT" \in At(s).flags IN
       call' = [call EXCEPT ![p] = [NoCall EXCEPT
           !.idx = s, !.names = ptrs[s], !.rights = At(s).rights,
           !.aud = At(s).aud \cup (IF recursive THEN {child} ELSE {}),
           !.flags = At(s).flags, !.expand = recursive]]
    /\ pc' = [pc EXCEPT ![p] = "derive"]
    /\ UNCHANGED <<ptrs, obj, tokens, work, done>>

AudienceSubset(o, aud) == "PUBLIC" \in o.flags \/ aud \subseteq o.aud

\* Mutant: the rights of the request are not compared with the parent's.
AnyRights(o, c) == TRUE

RightsSubset(o, c) == c.rights \subseteq o.rights

\* The checks of cap_object_derive_inner on the object now in the slot.
DeriveAllows(o, p, c) ==
    /\ ~o.deleted
    /\ InAudience(o, p)
    /\ "DERIVE" \in o.rights
    /\ RightsSubset(o, c)
    /\ c.flags \cap {"PUBLIC", "IMMORTAL"} \subseteq o.flags
    /\ "TRUNCATED" \notin c.flags
    /\ c.expand \/ AudienceSubset(o, c.aud)

Return(p) ==
    /\ pc' = [pc EXCEPT ![p] = "idle"]
    /\ call' = [call EXCEPT ![p] = NoCall]

DeriveCheck(p) ==
    /\ pc[p] = "derive"
    /\ IF ptrs[call[p].idx] # NONE /\ DeriveAllows(At(call[p].idx), p, call[p])
       THEN /\ pc' = [pc EXCEPT ![p] = "publish"]
            /\ call' = [call EXCEPT ![p].names = ptrs[call[p].idx]]
       ELSE Return(p)
    /\ UNCHANGED <<ptrs, obj, tokens, work, done>>

DerivePublish(p) ==
    LET c == call[p] IN
    /\ pc[p] = "publish"
    /\ IF FreeSlots = {}
       THEN Return(p) /\ UNCHANGED <<ptrs, obj>>
       ELSE /\ Publish(p, c.rights, c.aud, c.flags, c.idx, c.names)
            /\ pc' = [pc EXCEPT ![p] = "link"]
            /\ UNCHANGED call
    /\ UNCHANGED <<tokens, work, done>>

\* The child this task has just published.
Published(p) ==
    CHOOSE u \in 1..Len(obj) :
        /\ obj[u].owner = p /\ obj[u].parent # NONE
        /\ \A v \in 1..Len(obj) : obj[v].owner = p => v <= u

\* cap_object_link_child: head insertion, if both slots are in use.
Linked(o, par, ch) ==
    IF par = NONE THEN o
    ELSE [o EXCEPT ![ch].next_sibling = o[par].first_child,
                   ![par].first_child = o[ch].slot]

DeriveLink(p) ==
    /\ pc[p] = "link"
    /\ obj' = Linked(obj, ptrs[call[p].idx], Published(p))
    /\ pc' = [pc EXCEPT ![p] = "insert"]
    /\ UNCHANGED <<ptrs, tokens, call, work, done>>

\* The handle is inserted, and the token built from the object's generation.
DeriveReturn(p) ==
    /\ pc[p] = "insert"
    /\ tokens' = tokens \cup {TokenOf(Published(p))}
    /\ Return(p)
    /\ UNCHANGED <<ptrs, obj, work, done>>

\* The handle table is full: the child, already linked, is destroyed.
DeriveUndo(p) ==
    /\ pc[p] = "insert"
    /\ "child" \in Destroyed
    /\ ptrs' = [ptrs EXCEPT ![obj[Published(p)].slot] = NONE]
    /\ Return(p)
    /\ UNCHANGED <<obj, tokens, work, done>>

-----------------------------------------------------------------------------
(* Revocation.                                                             *)

\* The slots on the sibling list that starts at "first", as revoke_cascade
\* walks it: at most "room" of them, and nothing after an empty slot.
Walk(first, room) ==
    LET at[k \in 1..room + 1] ==
          IF k = 1 THEN first
          ELSE IF at[k - 1] = NONE \/ ptrs[at[k - 1]] = NONE THEN NONE
          ELSE At(at[k - 1]).next_sibling
    IN  at
Steps(at, room) == {k \in 1..room : at[k] # NONE}
Taken(at, room) == [k \in 1..Cardinality(Steps(at, room)) |-> at[k]]

\* Objects a cascade from slot s must reach: linked below it now, with no
\* IMMORTAL object between.
Children(S) ==
    {ptrs[x] : x \in UNION {LET at == Walk(obj[u].first_child, Capacity)
                            IN {at[k] : k \in Steps(at, Capacity)} : u \in S}}
        \ {NONE}
Mortal(S) == {u \in S : "IMMORTAL" \notin obj[u].flags}
Below(u) ==
    LET level[n \in 0..Capacity] ==
          IF n = 0 THEN {u} ELSE level[n - 1] \cup Mortal(Children(level[n - 1]))
    IN  level[Capacity] \ {u}

\* SYS_CAP_REVOKE_V2: the token is resolved for RIGHT_REVOKE.
RevokeResolve(p, tok) ==
    /\ pc[p] = "idle"
    /\ Resolves(p, tok, {"REVOKE"})
    /\ call' = [call EXCEPT ![p] = [NoCall EXCEPT !.idx = tok.idx, !.names = tok.names]]
    /\ pc' = [pc EXCEPT ![p] = "revoke"]
    /\ UNCHANGED <<ptrs, obj, tokens, work, done>>

Revoked(o, u) == [o EXCEPT ![u].deleted = TRUE, ![u].generation = @ + 1]

\* A finished revocation returns to the caller, or to the reaper's scan.
Back(p) ==
    IF call[p].reap # NONE
    THEN pc' = [pc EXCEPT ![p] = "reap"] /\ UNCHANGED call
    ELSE Return(p)

StartCascade(p, s) ==
    work' = [work EXCEPT ![p] = [NoWork EXCEPT
                 !.root = s, !.names = ptrs[s], !.goal = Below(ptrs[s])]]

\* cap_object_revoke under the lock: refused for an empty slot, an IMMORTAL
\* object and a deleted one.
RevokeMark(p) ==
    LET s == call[p].idx IN
    /\ pc[p] = "revoke"
    /\ IF ptrs[s] = NONE \/ "IMMORTAL" \in At(s).flags \/ At(s).deleted
       THEN Return(p) /\ UNCHANGED <<obj, work>>
       ELSE /\ obj' = Revoked(obj, ptrs[s])
            /\ IF "EAGER_REVOKE" \in At(s).flags
               THEN /\ pc' = [pc EXCEPT ![p] = "seed"]
                    /\ StartCascade(p, s)
                    /\ UNCHANGED call
               ELSE Return(p) /\ UNCHANGED work
    /\ UNCHANGED <<ptrs, tokens, done>>

\* Mutant: running out of queue space is not noticed.
NeverFull(at, room) == FALSE

\* More siblings than the queue had room for.
QueueFull(at, room) == at[room + 1] # NONE

\* revoke_cascade, first section: the root's children fill the queue.
CascadeSeed(p) ==
    LET s == work[p].root
        at == Walk(At(s).first_child, CascadeMax)
        n == Cardinality(Steps(at, CascadeMax))
        hole == n > 0 /\ ptrs[at[n]] = NONE
    IN
    /\ pc[p] = "seed"
    /\ IF ptrs[s] = NONE
       THEN Back(p) /\ work' = [work EXCEPT ![p] = NoWork]
       ELSE /\ pc' = [pc EXCEPT ![p] = "visit"]
            /\ UNCHANGED call
            /\ work' = [work EXCEPT
                  ![p].queue = Taken(at, CascadeMax), ![p].enqueued = n,
                  ![p].truncated = QueueFull(at, CascadeMax) \/ hole]
    /\ UNCHANGED <<ptrs, obj, tokens, done>>


\* An empty slot and an IMMORTAL object end their branch of the walk.
BranchEnds(s) == ptrs[s] = NONE \/ "IMMORTAL" \in At(s).flags

\* revoke_cascade, one round: an IMMORTAL object ends its branch; a revoked
\* one is left as it is but its children are queued.  The queue is an array
\* that is never reused, so what was ever queued counts against its size.
CascadeVisit(p) ==
    LET w == work[p]  s == Head(w.queue)  room == CascadeMax - w.enqueued
        at == Walk(At(s).first_child, room)
    IN
    /\ pc[p] = "visit" /\ w.queue # <<>>
    /\ IF BranchEnds(s)
       THEN work' = [work EXCEPT ![p].queue = Tail(@)] /\ UNCHANGED obj
       ELSE /\ obj' = IF At(s).deleted THEN obj ELSE Revoked(obj, ptrs[s])
            /\ work' = [work EXCEPT
                  ![p].queue = Tail(@) \o Taken(at, room),
                  ![p].enqueued = @ + Cardinality(Steps(at, room)),
                  ![p].truncated = @ \/ QueueFull(at, room)]
    /\ UNCHANGED <<ptrs, tokens, pc, call, done>>

\* The end of revoke_cascade: truncation is recorded on the root.
CascadeEnd(p) ==
    LET w == work[p]  r == ptrs[w.root] IN
    /\ pc[p] = "visit" /\ w.queue = <<>>
    /\ obj' = IF w.truncated /\ r # NONE
              THEN [obj EXCEPT ![r].flags = @ \cup {"TRUNCATED"}] ELSE obj
    /\ done' = IF w.truncated THEN done
               ELSE done \cup {[root |-> w.names, goal |-> w.goal]}
    /\ work' = [work EXCEPT ![p] = NoWork]
    /\ Back(p)
    /\ UNCHANGED <<ptrs, tokens>>

-----------------------------------------------------------------------------
(* Death of a task, and destruction of objects.                            *)

\* g_cap_object_count: one more than the highest slot ever used.
HighWater == CHOOSE n \in 1..Capacity + 1 :
    /\ \A u \in 1..Len(obj) : obj[u].slot < n
    /\ n = 1 \/ \E u \in 1..Len(obj) : obj[u].slot = n - 1

\* sched_reap_zombie calls revoke_collect_orphans; the task makes no more
\* calls.  The scan covers the slots below the count read here.
Reap(p) ==
    /\ pc[p] = "idle"
    /\ call' = [call EXCEPT ![p] = [NoCall EXCEPT !.idx = HighWater, !.reap = 1]]
    /\ pc' = [pc EXCEPT ![p] = "reap"]
    /\ UNCHANGED <<ptrs, obj, tokens, work, done>>

\* Mutant: eager objects are left to a cascade.
OrphanUnlessEager(s, p) ==
    /\ ptrs[s] # NONE /\ At(s).owner = p /\ ~At(s).deleted
    /\ {"IMMORTAL", "EAGER_REVOKE"} \cap At(s).flags = {}

Orphan(s, p) ==
    /\ ptrs[s] # NONE /\ At(s).owner = p /\ ~At(s).deleted
    /\ "IMMORTAL" \notin At(s).flags

\* revoke_collect_orphans, one slot.
ReapSlot(p) ==
    LET s == call[p].reap IN
    /\ pc[p] = "reap"
    /\ IF s >= call[p].idx
       THEN /\ pc' = [pc EXCEPT ![p] = "dead"]
            /\ call' = [call EXCEPT ![p] = NoCall]
            /\ UNCHANGED <<obj, work>>
       ELSE /\ call' = [call EXCEPT ![p].reap = s + 1]
            /\ IF Orphan(s, p)
               THEN /\ obj' = Revoked(obj, ptrs[s])
                    /\ IF "EAGER_REVOKE" \in At(s).flags
                       THEN pc' = [pc EXCEPT ![p] = "seed"] /\ StartCascade(p, s)
                       ELSE UNCHANGED <<pc, work>>
               ELSE UNCHANGED <<obj, pc, work>>
    /\ UNCHANGED <<ptrs, tokens, done>>

\* cap_object_destroy by the service that created the object (a transaction
\* or snapshot that ends, a capability that is unregistered): the slot is
\* emptied, and no link to it is removed.
Destroy(p, s) ==
    /\ pc[p] = "idle"
    /\ "root" \in Destroyed
    /\ ptrs[s] # NONE /\ At(s).parent = NONE /\ At(s).owner = p
    /\ ptrs' = [ptrs EXCEPT ![s] = NONE]
    /\ UNCHANGED <<obj, tokens, pc, call, work, done>>

-----------------------------------------------------------------------------
Next == \E p \in Pids :
    \/ \E r \in RightSets, a \in Audiences, f \in FlagSets : Create(p, r, a, f)
    \/ \E tok \in tokens, r \in RightSets, a \in Audiences, f \in FlagSets :
          DeriveResolve(p, tok, r, a, f)
    \/ \E child \in Pids, s \in Slots : InheritResolve(p, child, s)
    \/ DeriveCheck(p) \/ DerivePublish(p) \/ DeriveLink(p)
    \/ DeriveReturn(p) \/ DeriveUndo(p)
    \/ \E tok \in tokens : RevokeResolve(p, tok)
    \/ RevokeMark(p) \/ CascadeSeed(p) \/ CascadeVisit(p) \/ CascadeEnd(p)
    \/ Reap(p) \/ ReapSlot(p)
    \/ \E s \in Slots : Destroy(p, s)

Spec == Init /\ [][Next]_vars

-----------------------------------------------------------------------------
(* Properties.                                                             *)

\* Every variable keeps its type; an occupied slot holds an object that
\* knows it is there, and links are slots (the fields of cap_object_t).
TypeOK ==
    /\ ptrs \in [Slots -> 0..Len(obj)]
    /\ \A s \in Slots : ptrs[s] # NONE => At(s).slot = s
    /\ \A u \in 1..Len(obj) :
          /\ obj[u].generation \in 1..2
          /\ obj[u].deleted = (obj[u].generation = 2)
          /\ {obj[u].first_child, obj[u].next_sibling} \subseteq 0..Capacity
    /\ \A p \in Pids : work[p].enqueued <= CascadeMax

\* Ancestors of an object, by the objects its derivations were checked against.
Ancestors(u) ==
    LET up[n \in 0..MaxObjects] ==
          IF n = 0 THEN {u} ELSE up[n - 1] \cup {obj[v].from : v \in up[n - 1] \ {NONE}}
    IN  up[MaxObjects] \ {u, NONE}

\* Authority only ever shrinks along a chain of derivations: a right, the
\* PUBLIC or IMMORTAL flag, or a place in the audience that an object has,
\* all its ancestors have.  The inheritance walk may add to the audience of
\* objects marked for it (cap_object_derive_inner's subset checks).
AuthorityShrinks ==
    \A u \in 1..Len(obj) : \A a \in Ancestors(u) :
        /\ obj[u].rights \subseteq obj[a].rights
        /\ obj[u].flags \cap {"PUBLIC", "IMMORTAL"} \subseteq obj[a].flags
        /\ \/ AudienceSubset(obj[a], obj[u].aud)
           \/ \E v \in {u} \cup Ancestors(u) : "RECURSIVE_INHERIT" \in obj[v].flags

\* When an eager revocation has returned and did not report truncation,
\* everything that was linked below its target when it began is revoked or
\* destroyed, whatever other cascades and derivations ran meanwhile (revoke_cascade).
CascadeComplete ==
    \A d \in done : \A u \in d.goal : obj[u].deleted \/ ~Live(u)

\* Once a dead task has been reaped, nothing it owned can be used, except
\* IMMORTAL objects (revoke_collect_orphans).
OrphansRevoked ==
    \A p \in Pids : pc[p] = "dead" =>
        \A u \in 1..Len(obj) :
            obj[u].owner = p /\ Live(u) => obj[u].deleted \/ "IMMORTAL" \in obj[u].flags

-----------------------------------------------------------------------------
(* What comments and documents say, and the code does not do.              *)

\* "the gen is incremented on revoke so a stale token resolves to a
\* different cap_object_t and fails": a token resolves only to the object it
\* was minted for (cap_token_resolve on a reused slot).
StaleTokenFails ==
    \A tok \in tokens, p \in Pids :
        Resolves(p, tok, {}) => ptrs[tok.idx] = tok.names

\* The cascade "bumps every descendant's generation": after it, no mortal
\* object derived from the root can be used (revoke_cascade against a
\* derivation in progress).
NoLiveDescendant ==
    \A d \in done : \A u \in 1..Len(obj) :
        (obj[u].from = d.root /\ Live(u) /\ "IMMORTAL" \notin obj[u].flags) => obj[u].deleted

\* The cascade "BFS-walks the descendant tree": it revokes descendants of
\* its root only (revoke_cascade over the links left by cap_object_destroy).
OnlyDescendantsRevoked ==
    [][\A p \in Pids : pc[p] = "visit" =>
          \A u \in 1..Len(obj) :
              (obj'[u].deleted /\ ~obj[u].deleted /\ work'[p] # work[p])
                  => work[p].names \in Ancestors(u)]_vars
=============================================================================
