------------------------------- MODULE Sched -------------------------------
(***************************************************************************)
(* The scheduler (arch/x86_64/cpu/sched): per-CPU run queues with work     *)
(* stealing, blocking and waking on wait lists with deadlines, CPU budgets *)
(* with a starved list and an epoch refill, exit, kill, signals and reaping,*)
(* and the snapshot barrier (kernel/snap/barrier.c) that parks every other *)
(* CPU's task.                                                             *)
(*                                                                         *)
(* A CPU runs the code of its current task (a step per critical section)   *)
(* or is inside schedule(), which is split where another CPU can get in    *)
(* between.  System calls run with interrupts masked; kernel threads do    *)
(* not.  A reaped task_t's memory is not given to another task.            *)
(***************************************************************************)
EXTENDS Naturals, FiniteSets, Sequences, SequencesExt

CONSTANTS
    NCpus,        \* g_cpu_count; CPU 0 is the boot CPU
    NTasks,       \* tasks are 1..NTasks, in the order of task_ptrs
    Pin,          \* cpu_pinned: a CPU for pinned tasks, -1 (here NCpus) otherwise
    KThread,      \* a pinned kernel thread: the epoch task, and a worker that wakes others
    Parent,       \* the task that waits for the others' exit
    Budgeted,     \* tasks with a CPU budget
    Sleepers,     \* tasks that block on a channel
    Mortal,       \* children of Parent: may exit, be killed or signalled
    Snappers,     \* tasks that take snapshots
    MaxDeaths,    \* bound: SIGKILLs and signals sent
    MaxBarriers,  \* bound: barriers begun
    PromptYield   \* timing: a task that blocks has saved its registers before a
                  \* third CPU steals it

Cpus == 0..NCpus - 1
Tasks == 1..NTasks
NoPin == NCpus
idle == 0          \* the CPU's own idle task, on no queue
none == 0
Lists == {"chan", "kids"}

ASSUME CountAssumption == NCpus \in Nat \ {0} /\ NTasks \in Nat \ {0}
ASSUME PinAssumption == Pin \in [Tasks -> Cpus \cup {NoPin}] /\ Pin[KThread] = 0
ASSUME RoleAssumption ==
    /\ KThread \in Tasks /\ Parent \in Tasks
    /\ Budgeted \cup Sleepers \cup Mortal \cup Snappers \subseteq Tasks \ {KThread}
    /\ Parent \notin Mortal
ASSUME BoundAssumption == MaxDeaths \in Nat /\ MaxBarriers \in Nat /\ PromptYield \in BOOLEAN

VARIABLES
    state,      \* task: task_state_t
    op,         \* task: where its kernel code stands
    saved,      \* task: regs hold the point where it stopped
    last_ran,   \* task: last_ran_cpu, NCpus before the first dispatch
    deadline,   \* task: "none", "set", or "due" once the ticks have passed it
    on,         \* task: the wait list it blocks on
    carried,    \* task: tasks it took off a list and has still to enqueue
    pending,    \* task: a signal with the default action is pending
    reaped,     \* tasks reaped
    waitq,      \* list: its waiters, the newest first
    ready,      \* CPU: ready list
    starved,    \* CPU: starved list
    current,    \* CPU: runq.current
    pc,         \* CPU: "run", or where it stands in schedule()
    active,     \* CPU: barrier_active, as schedule() read it
    held,       \* CPU: the task schedule() dequeued
    flag, owner, parked,    \* g_snap_barrier
    deaths, barriers        \* counters of the bounds

taskVars == <<state, op, saved, last_ran, deadline, on, carried, pending, reaped>>
cpuVars == <<ready, starved, current, pc, active, held>>
barrierVars == <<flag, owner, parked, barriers>>
vars == <<taskVars, waitq, cpuVars, barrierVars, deaths>>

-----------------------------------------------------------------------------
Init ==
    /\ state = [t \in Tasks |-> "READY"]
    /\ op = [t \in Tasks |-> "user"]
    /\ saved = [t \in Tasks |-> TRUE]
    /\ last_ran = [t \in Tasks |-> NCpus]
    /\ deadline = [t \in Tasks |-> "none"]
    /\ on = [t \in Tasks |-> "chan"]
    /\ carried = [t \in Tasks |-> <<>>]
    /\ pending = [t \in Tasks |-> FALSE]
    /\ reaped = {}
    /\ waitq = [l \in Lists |-> <<>>]
    /\ ready = [c \in Cpus |->
                  SelectSeq([t \in Tasks |-> t], LAMBDA t : Pin[t] = c \/ (c = 0 /\ Pin[t] = NoPin))]
    /\ starved = [c \in Cpus |-> <<>>]
    /\ current = [c \in Cpus |-> idle]
    /\ pc = [c \in Cpus |-> "run"]
    /\ active = [c \in Cpus |-> FALSE]
    /\ held = [c \in Cpus |-> none]
    /\ flag = FALSE /\ owner = none /\ parked = <<>>
    /\ deaths = 0 /\ barriers = 0

\* sched_enqueue_ready: the CPU a task that becomes READY is queued on.
Home(t) ==
    IF Pin[t] # NoPin THEN Pin[t] ELSE IF last_ran[t] # NCpus THEN last_ran[t] ELSE 0

\* Mutant: a task is put in front of the list.
EnqueuedFirst(s) == [c \in Cpus |-> SelectSeq(s, LAMBDA t : Home(t) = c) \o ready[c]]

\* The ready lists after the tasks of s are enqueued in that order.
Enqueued(s) == [c \in Cpus |-> ready[c] \o SelectSeq(s, LAMBDA t : Home(t) = c)]


\* sched_wake_one_on_channel: the newest waiter leaves list l; it is made
\* READY if it still waits there (its deadline may have woken it before).
Woken(l) == IF waitq[l] # <<>> /\ state[Head(waitq[l])] = "CHAN_WAIT" THEN <<Head(waitq[l])>> ELSE <<>>
Popped(l) == [waitq EXCEPT ![l] = IF @ = <<>> THEN @ ELSE Tail(@)]

Readied(s) == [t \in Tasks |-> IF t \in Range(s) THEN "READY" ELSE state[t]]

-----------------------------------------------------------------------------
(* schedule().                                                             *)

\* The timer and the wake-up interrupt reach user code, the idle task and
\* kernel threads; a blocking task enters by int 49.
Interruptible(t) ==
    t \notin {idle, KThread} =>
        op[t] \in (IF state[t] = "RUNNING" THEN {"user", "done"} ELSE {"user", "done", "blocked"})

\* Entry.  CPU 0 first makes every waiter whose deadline has passed READY;
\* the waiter stays on its wait list.
Tick(c) ==
    /\ pc[c] = "run" /\ Interruptible(current[c])
    /\ pc' = [pc EXCEPT ![c] = "enter"]
    /\ LET late == IF c = 0 THEN {t \in Tasks \ reaped : state[t] = "CHAN_WAIT" /\ deadline[t] = "due"} ELSE {}
           s == SetToSortSeq(late, <)
       IN  /\ state' = Readied(s)
           /\ ready' = Enqueued(s)
    /\ UNCHANGED <<op, saved, last_ran, deadline, on, carried, pending, reaped,
                   waitq, starved, current, active, held, barrierVars, deaths>>

\* The barrier flag is read and the outgoing task's registers are saved.
\* The barrier's owner is not preempted.
Enter(c) ==
    /\ pc[c] = "enter"
    /\ LET cur == current[c]
           stay == flag /\ owner # none /\ cur = owner
           next == IF stay THEN "run" ELSE IF cur # idle /\ state[cur] = "RUNNING" THEN "put" ELSE "pick"
       IN  /\ pc' = [pc EXCEPT ![c] = next]
           /\ active' = [active EXCEPT ![c] = flag /\ ~stay]
           /\ saved' = [t \in Tasks |-> saved[t] \/ (t = cur /\ ~stay)]
    /\ UNCHANGED <<state, op, last_ran, deadline, on, carried, pending, reaped,
                   waitq, ready, starved, current, held, barrierVars, deaths>>

\* The outgoing task was RUNNING: under a barrier it is parked, with its
\* budget spent it is starved, otherwise it is READY again.
PutAway(c, t) ==
    \/ /\ active[c]
       /\ state' = [state EXCEPT ![t] = "BARRIER_WAIT"]
       /\ parked' = <<t>> \o parked
       /\ UNCHANGED <<ready, starved>>
    \/ /\ ~active[c] /\ t \in Budgeted
       /\ state' = [state EXCEPT ![t] = "STARVED"]
       /\ starved' = [starved EXCEPT ![c] = <<t>> \o @]
       /\ UNCHANGED <<ready, parked>>
    \/ /\ ~active[c]
       /\ state' = [state EXCEPT ![t] = "READY"]
       /\ ready' = Enqueued(<<t>>)
       /\ UNCHANGED <<starved, parked>>

Put(c) ==
    /\ pc[c] = "put"
    /\ pc' = [pc EXCEPT ![c] = "pick"]
    /\ PutAway(c, current[c])
    /\ UNCHANGED <<op, saved, last_ran, deadline, on, carried, pending, reaped,
                   waitq, current, active, held, flag, owner, barriers, deaths>>

\* Mutant: a thief takes tasks that are pinned to their CPU.
StealableAny(t, c) == TRUE

\* splice_tail_to_thief passes over tasks pinned to another CPU.
Stealable(t, c) == Pin[t] \in {NoPin, c}

\* pick_busiest: the peer with the longest ready list, if that has two tasks.
Busiest(c) ==
    {v \in Cpus \ {c} : /\ Len(ready[v]) > 1
                        /\ \A w \in Cpus \ {c} : Len(ready[w]) < Len(ready[v])
                                              \/ (Len(ready[w]) = Len(ready[v]) /\ v <= w)}

\* The positions of ready[v] that CPU c takes: the last ones it may, up to
\* half the list.
Taken(v, c) ==
    LET can == {i \in DOMAIN ready[v] : Stealable(ready[v][i], c)}
    IN  {i \in can : Cardinality({j \in can : j >= i}) <= Len(ready[v]) \div 2}


Kept(v, c) == [i \in 1..Len(ready[v]) - Cardinality(Taken(v, c)) |->
    ready[v][SetToSortSeq(DOMAIN ready[v] \ Taken(v, c), <)[i]]]

Loot(v, c) == [i \in 1..Cardinality(Taken(v, c)) |-> ready[v][SetToSortSeq(Taken(v, c), <)[i]]]

\* sched_steal_from_busiest: the loot goes to the thief's list in the order
\* it had, and the first of it is dequeued.
Steal(c, v) ==
    /\ Taken(v, c) # {}
    /\ PromptYield => \A i \in Taken(v, c) : saved[ready[v][i]]
    /\ ready' = [ready EXCEPT ![v] = Kept(v, c), ![c] = Tail(Loot(v, c))]
    /\ held' = [held EXCEPT ![c] = Head(Loot(v, c))]

\* The next task is taken under the run queue's lock, unless a barrier was
\* seen.  Stealing gives up when the victim's lock stays taken.
Pick(c) ==
    /\ pc[c] = "pick"
    /\ pc' = [pc EXCEPT ![c] = "install"]
    /\ \/ /\ ~active[c] /\ ready[c] # <<>>
          /\ held' = [held EXCEPT ![c] = Head(ready[c])]
          /\ ready' = [ready EXCEPT ![c] = Tail(@)]
       \/ /\ ~active[c] /\ ready[c] = <<>>
          /\ \E v \in Busiest(c) : Steal(c, v)
       \/ /\ ~active[c] => ready[c] = <<>>
          /\ UNCHANGED <<held, ready>>
    /\ UNCHANGED <<taskVars, waitq, starved, current, active, barrierVars, deaths>>

\* A task that was killed on its queue is dropped for the idle task.
Install(c) ==
    /\ pc[c] = "install"
    /\ LET t == IF held[c] # none /\ state[held[c]] = "ZOMBIE" THEN idle ELSE held[c]
           dies == t # idle /\ pending[t]
           kids == IF dies THEN Woken("kids") ELSE <<>>
           rest == Enqueued(kids)
           subst == IF rest[c] = <<>> THEN idle ELSE Head(rest[c])
           next == IF dies THEN subst ELSE t
       IN  /\ current' = [current EXCEPT ![c] = next]
           /\ state' = [u \in Tasks |-> IF u = next THEN "RUNNING"
                                        ELSE IF dies /\ u = t THEN "ZOMBIE" ELSE Readied(kids)[u]]
           /\ saved' = [u \in Tasks |-> saved[u] /\ u # next]
           /\ last_ran' = [u \in Tasks |-> IF u = t THEN c ELSE last_ran[u]]
           /\ pending' = [u \in Tasks |-> pending[u] /\ u # t]
           /\ waitq' = IF dies THEN Popped("kids") ELSE waitq
           /\ ready' = IF dies THEN [rest EXCEPT ![c] = IF @ = <<>> THEN @ ELSE Tail(@)] ELSE ready
    /\ pc' = [pc EXCEPT ![c] = "run"]
    /\ held' = [held EXCEPT ![c] = none]
    /\ active' = [active EXCEPT ![c] = FALSE]
    /\ UNCHANGED <<op, deadline, on, carried, reaped, starved, barrierVars, deaths>>

-----------------------------------------------------------------------------
(* What the current task of a CPU does.                                    *)

Runs(c, t, at) == pc[c] = "run" /\ current[c] = t /\ t # idle /\ op[t] \in at

\* sched_block_on_channel up to int 49: the task links itself in front of
\* the list and leaves RUNNING.
BlockOn(t, l, d) ==
    /\ waitq' = [waitq EXCEPT ![l] = <<t>> \o @]
    /\ state' = [state EXCEPT ![t] = "CHAN_WAIT"]
    /\ op' = [op EXCEPT ![t] = "blocked"]
    /\ on' = [on EXCEPT ![t] = l]
    /\ deadline' = [deadline EXCEPT ![t] = d]

Block(c, t) ==
    /\ Runs(c, t, {"user"}) /\ t \in Sleepers
    /\ \E d \in {"none", "set"} : BlockOn(t, "chan", d)
    /\ UNCHANGED <<saved, last_ran, carried, pending, reaped, cpuVars, barrierVars, deaths>>

\* sched_block_on_channel after it was dispatched again: the task unlinks
\* itself, which a waker may have done already.  SYS_WAIT looks again.
Resume(c, t) ==
    /\ Runs(c, t, {"blocked"}) /\ state[t] = "RUNNING"
    /\ waitq' = [waitq EXCEPT ![on[t]] = SelectSeq(@, LAMBDA u : u # t)]
    /\ op' = [op EXCEPT ![t] = IF on[t] = "kids" THEN "wait" ELSE "user"]
    /\ on' = [on EXCEPT ![t] = "chan"]
    /\ deadline' = [deadline EXCEPT ![t] = "none"]
    /\ UNCHANGED <<state, saved, last_ran, carried, pending, reaped, cpuVars, barrierVars, deaths>>

Zombies == {z \in Mortal \ reaped : state[z] = "ZOMBIE"}

\* Mutant: a zombie that is still some CPU's current task is freed.
ReapableNow(z) == TRUE

\* sched_reap_zombie: not while the task is some CPU's current task.
Reapable(z) == \A c \in Cpus : current[c] # z

\* SYS_WAIT looks for a zombie child under sched_lock and reaps the first
\* one, or it goes to sleep; without children it returns with no effect (no step).
Wait(c) ==
    /\ Runs(c, Parent, {"user", "wait"})
    /\ LET z == IF Zombies = {} THEN none ELSE CHOOSE x \in Zombies : \A y \in Zombies : x <= y
       IN  \/ /\ z # none /\ Reapable(z)
              /\ reaped' = reaped \cup {z}
              /\ op' = [op EXCEPT ![Parent] = "user"]
           \/ /\ Mortal \ reaped # {}
              /\ z # none => ~Reapable(z)
              /\ op' = [op EXCEPT ![Parent] = "doze"]
              /\ UNCHANGED reaped
    /\ UNCHANGED <<state, saved, last_ran, deadline, on, carried, pending, waitq, cpuVars,
                   barrierVars, deaths>>

\* Mutant: SYS_WAIT sleeps without a timeout.
ForEver == "none"

OneTick == "set"

\* It blocks on its own list for a tick and looks again.
Doze(c) ==
    /\ Runs(c, Parent, {"doze"})
    /\ BlockOn(Parent, "kids", OneTick)
    /\ UNCHANGED <<saved, last_ran, carried, pending, reaped, cpuVars, barrierVars, deaths>>

\* The sched_lock part of a wake-up: the tasks s leave the list READY and
\* are enqueued after the lock is released.
TakeOff(t, s, rest, then) ==
    /\ state' = Readied(s)
    /\ waitq' = rest
    /\ carried' = [carried EXCEPT ![t] = s]
    /\ op' = [op EXCEPT ![t] = then]

\* sched_wake_one_on_channel and sched_wake_all_on_channel.
Wake(c, t) ==
    /\ Runs(c, t, {"user"}) /\ waitq["chan"] # <<>>
    /\ \/ TakeOff(t, Woken("chan"), Popped("chan"), IF Woken("chan") = <<>> THEN "user" ELSE "wake")
       \/ LET s == SelectSeq(waitq["chan"], LAMBDA u : state[u] = "CHAN_WAIT")
          IN  TakeOff(t, s, [waitq EXCEPT !["chan"] = <<>>], IF s = <<>> THEN "user" ELSE "wake")
    /\ UNCHANGED <<saved, last_ran, deadline, on, pending, reaped, cpuVars, barrierVars, deaths>>

\* sched_enqueue_ready of the next task taken off; runq_enqueue_ready makes
\* it READY whatever it was.
Hand(c, t) ==
    /\ Runs(c, t, {"wake", "bye"})
    /\ ready' = Enqueued(<<Head(carried[t])>>)
    /\ state' = [state EXCEPT ![Head(carried[t])] = "READY"]
    /\ carried' = [carried EXCEPT ![t] = Tail(@)]
    /\ op' = IF Len(carried[t]) > 1 THEN op
             ELSE [op EXCEPT ![t] = IF @ = "bye" THEN "done" ELSE "user"]
    /\ UNCHANGED <<saved, last_ran, deadline, on, pending, reaped, waitq, starved,
                   current, pc, active, held, barrierVars, deaths>>

\* SYS_EXIT: the task is a zombie first, and then wakes its parent.  It
\* keeps its CPU until the next interrupt.
Exit(c, t) ==
    /\ Runs(c, t, {"user"}) /\ t \in Mortal /\ state[t] # "ZOMBIE"
    /\ state' = [state EXCEPT ![t] = "ZOMBIE"]
    /\ op' = [op EXCEPT ![t] = "exit"]
    /\ UNCHANGED <<saved, last_ran, deadline, on, carried, pending, reaped, waitq,
                   cpuVars, barrierVars, deaths>>

\* wake_waiting_parent.
NotifyParent(c, t) ==
    /\ Runs(c, t, {"exit"})
    /\ TakeOff(t, Woken("kids"), Popped("kids"), IF Woken("kids") = <<>> THEN "done" ELSE "bye")
    /\ UNCHANGED <<saved, last_ran, deadline, on, pending, reaped, cpuVars, barrierVars, deaths>>

\* sched_send_signal by the parent.  SIGKILL wakes the parent and makes the
\* target a zombie wherever it is; another signal waits for its dispatch.
Kill(c, t) ==
    /\ Runs(c, Parent, {"user"}) /\ t \in Mortal \ reaped
    /\ state[t] # "ZOMBIE" /\ deaths < MaxDeaths
    /\ deaths' = deaths + 1
    /\ \/ /\ state' = [Readied(Woken("kids")) EXCEPT ![t] = "ZOMBIE"]
          /\ waitq' = Popped("kids")
          /\ ready' = Enqueued(Woken("kids"))
          /\ UNCHANGED pending
       \/ /\ pending' = [pending EXCEPT ![t] = TRUE]
          /\ UNCHANGED <<state, waitq, ready>>
    /\ UNCHANGED <<op, saved, last_ran, deadline, on, carried, reaped, starved, current, pc,
                   active, held, barrierVars>>

\* Mutant: the drained tasks are not linked into the ready list.
RefilledNot(c) == ready[c]

\* runq_refill_starved
Refilled(c) == ready[c] \o starved[c]

\* Mutant: only the boot CPU's list is drained.
DrainedBoot == {0}

Drained == Cpus

\* rlimit_epoch_tick: budgets are full again and every starved list is
\* drained into its CPU's ready list.
EpochTick(c) ==
    /\ Runs(c, KThread, {"user"})
    /\ \E d \in Drained : starved[d] # <<>>
    /\ ready' = [d \in Cpus |-> IF d \in Drained THEN Refilled(d) ELSE ready[d]]
    /\ state' = [t \in Tasks |-> IF \E d \in Drained : t \in Range(starved[d]) THEN "READY" ELSE state[t]]
    /\ starved' = [d \in Cpus |-> IF d \in Drained THEN <<>> ELSE starved[d]]
    /\ UNCHANGED <<op, saved, last_ran, deadline, on, carried, pending, reaped, waitq,
                   current, pc, active, held, barrierVars, deaths>>

\* The tick counter passes the deadlines that are set.
Clock ==
    /\ \E t \in Tasks : deadline[t] = "set"
    /\ deadline' = [t \in Tasks |-> IF deadline[t] = "set" THEN "due" ELSE deadline[t]]
    /\ UNCHANGED <<state, op, saved, last_ran, on, carried, pending, reaped, waitq, cpuVars,
                   barrierVars, deaths>>

-----------------------------------------------------------------------------
(* The snapshot barrier.                                                   *)

\* snap_begin_barrier: the flag is taken; -EBUSY changes nothing.
BeginBarrier(c, t) ==
    /\ Runs(c, t, {"user"}) /\ t \in Snappers
    /\ ~flag /\ barriers < MaxBarriers
    /\ flag' = TRUE /\ barriers' = barriers + 1
    /\ op' = [op EXCEPT ![t] = "begin"]
    /\ UNCHANGED <<state, saved, last_ran, deadline, on, carried, pending, reaped, waitq,
                   cpuVars, owner, parked, deaths>>

\* Then the parked list is emptied and the owner recorded, under the lock.
ResetBarrier(c, t) ==
    /\ Runs(c, t, {"begin"})
    /\ parked' = <<>> /\ owner' = t
    /\ op' = [op EXCEPT ![t] = "poll"]
    /\ UNCHANGED <<state, saved, last_ran, deadline, on, carried, pending, reaped, waitq,
                   cpuVars, flag, barriers, deaths>>

OthersIdle(c) == \A d \in Cpus \ {c} : current[d] = idle

\* The poll ends when every other CPU's current task is its idle task, or
\* when the watchdog fires, which only clears the flag.
Poll(c, t) ==
    /\ Runs(c, t, {"poll"})
    /\ flag' = OthersIdle(c)
    /\ op' = [op EXCEPT ![t] = IF OthersIdle(c) THEN "window" ELSE "user"]
    /\ UNCHANGED <<state, saved, last_ran, deadline, on, carried, pending, reaped, waitq,
                   cpuVars, owner, parked, barriers, deaths>>

\* snap_end_barrier takes the parked list,
DrainBarrier(c, t) ==
    /\ Runs(c, t, {"window"})
    /\ carried' = [carried EXCEPT ![t] = parked]
    /\ parked' = <<>> /\ owner' = none
    /\ op' = [op EXCEPT ![t] = "drained"]
    /\ UNCHANGED <<state, saved, last_ran, deadline, on, pending, reaped, waitq, cpuVars,
                   flag, barriers, deaths>>

\* clears the flag and enqueues the tasks one by one.
ClearBarrier(c, t) ==
    /\ Runs(c, t, {"drained"})
    /\ flag' = FALSE
    /\ op' = [op EXCEPT ![t] = IF carried[t] = <<>> THEN "user" ELSE "wake"]
    /\ UNCHANGED <<state, saved, last_ran, deadline, on, carried, pending, reaped, waitq,
                   cpuVars, owner, parked, barriers, deaths>>

-----------------------------------------------------------------------------
Schedule(c) == Tick(c) \/ Enter(c) \/ Put(c) \/ Pick(c) \/ Install(c)

\* The rest of an operation that its task has begun.
Continue(c, t) ==
    \/ Resume(c, t) \/ Hand(c, t) \/ NotifyParent(c, t)
    \/ ResetBarrier(c, t) \/ Poll(c, t) \/ DrainBarrier(c, t) \/ ClearBarrier(c, t)

\* A CPU inside schedule() or an operation makes its next step.
Proceed(c) ==
    \/ Enter(c) \/ Put(c) \/ Pick(c) \/ Install(c)
    \/ op[Parent] = "wait" /\ Wait(c)
    \/ Doze(c)
    \/ \E t \in Tasks : Continue(c, t)

Start(c, t) ==
    \/ Block(c, t) \/ Wake(c, t) \/ Exit(c, t) \/ Kill(c, t) \/ BeginBarrier(c, t)

Next ==
    \/ \E c \in Cpus : Schedule(c) \/ Wait(c) \/ Doze(c) \/ EpochTick(c)
    \/ \E c \in Cpus, t \in Tasks : Continue(c, t) \/ Start(c, t)
    \/ Clock

Spec == Init /\ [][Next]_vars

\* A timer interrupt stays pending while interrupts are masked, so a CPU that
\* keeps unmasking them takes it; schedule() and an operation that has begun
\* go on; the clock runs; a kernel thread that keeps being dispatched gets on.
Fairness ==
    /\ \A c \in Cpus : SF_vars(Tick(c)) /\ WF_vars(Proceed(c))
    /\ SF_vars(\E c \in Cpus : EpochTick(c)) /\ SF_vars(\E c \in Cpus : Hand(c, KThread))
    /\ WF_vars(Clock)

FairSpec == Spec /\ Fairness

-----------------------------------------------------------------------------
(* Properties.                                                             *)

TaskStates == {"READY", "RUNNING", "CHAN_WAIT", "STARVED", "BARRIER_WAIT", "ZOMBIE"}

\* The task, run queue and barrier fields keep their types.
TypeOK ==
    /\ state \in [Tasks -> TaskStates]
    /\ op \in [Tasks -> {"user", "blocked", "wait", "doze", "wake", "exit", "bye", "done",
                         "begin", "poll", "window", "drained"}]
    /\ saved \in [Tasks -> BOOLEAN] /\ pending \in [Tasks -> BOOLEAN]
    /\ last_ran \in [Tasks -> Cpus \cup {NCpus}]
    /\ deadline \in [Tasks -> {"none", "set", "due"}] /\ on \in [Tasks -> Lists]
    /\ carried \in [Tasks -> Seq(Tasks)] /\ reaped \subseteq Mortal
    /\ waitq \in [Lists -> Seq(Tasks)]
    /\ ready \in [Cpus -> Seq(Tasks)] /\ starved \in [Cpus -> Seq(Tasks)]
    /\ current \in [Cpus -> Tasks \cup {idle}] /\ held \in [Cpus -> Tasks \cup {none}]
    /\ pc \in [Cpus -> {"run", "enter", "put", "pick", "install"}]
    /\ active \in [Cpus -> BOOLEAN] /\ flag \in BOOLEAN
    /\ owner \in Tasks \cup {none} /\ parked \in Seq(Tasks)

Executes(c, t) == current[c] = t /\ pc[c] \in {"run", "enter"}

\* The number of places that may dispatch t or hand it on: executing CPUs,
\* run queues, starved lists, the barrier's list, and tasks in transit.
Count(s, t) == Cardinality({i \in DOMAIN s : s[i] = t})
Places(t) ==
    LET sum(f) == FoldFunctionOnSet(+, 0, f, DOMAIN f) IN
    sum([c \in Cpus |-> Count(ready[c], t) + Count(starved[c], t)
                         + (IF held[c] = t THEN 1 ELSE 0) + (IF pc[c] = "put" /\ current[c] = t THEN 1 ELSE 0)])
    + sum([u \in Tasks |-> Count(carried[u], t)]) + Count(parked, t)



\* A runnable task is never forgotten: READY means queued, taken by a CPU or
\* on its way to a queue; STARVED means on a starved list that the epoch
\* task drains.  Holds through stealing, wake-ups that race the deadline
\* scan, kills and barriers.
RunnableQueued ==
    \A t \in Tasks :
      /\ state[t] = "READY" => Places(t) = 1
      /\ state[t] = "STARVED" => \E c \in Cpus : t \in Range(starved[c])

\* A pinned task is queued, starved and run on its own CPU only: kernel
\* threads use per-CPU data (splice_tail_to_thief, sched_enqueue_ready).
PinnedStays ==
    \A t \in Tasks, c \in Cpus :
      Pin[t] # NoPin /\ (current[c] = t \/ held[c] = t \/ t \in Range(ready[c]) \/ t \in Range(starved[c]))
        => c = Pin[t]

\* A task that exited by itself is reaped only when nothing refers to it any
\* more: it is no CPU's current task and on no list (sched_reap_zombie defers
\* while the task is current).  With kills it may be; see ReapedUnlinked.
Unreferenced(t) ==
    /\ Places(t) = 0
    /\ \A c \in Cpus : current[c] # t
    /\ \A l \in Lists : t \notin Range(waitq[l])
ExitedUnreferenced == deaths = 0 => \A t \in reaped : Unreferenced(t)

\* Tasks parked by a barrier that no barrier in progress will resume.
Stranded ==
    {t \in Tasks : /\ state[t] = "BARRIER_WAIT"
                   /\ t \in Range(parked) => ~flag
                   /\ \A u \in Tasks : t \notin Range(carried[u])}

\* Every READY task is dispatched, unless a barrier stranded a task
\* (round robin of runq_dequeue_ready and runq_enqueue_ready; stolen tasks
\* run first).
ReadyRuns == \A t \in Tasks : []<>(state[t] # "READY" \/ Stranded # {})

\* Every starved task is released by a later epoch, unless a barrier
\* stranded a task, for instance the epoch thread (rlimit_epoch_tick).
StarvedReleased == \A t \in Tasks : []<>(state[t] # "STARVED" \/ Stranded # {})

\* A parent in SYS_WAIT comes back to reap a child that has exited, although
\* the exit may fall between its look at the children and its sleep: the
\* deadline scan makes up for the lost wake-up.
WaitReaps ==
    []<>(op[Parent] \notin {"blocked", "wait", "doze"} \/ Zombies = {} \/ Stranded # {})

-----------------------------------------------------------------------------
(* What comments say, and the code does not do.                            *)

\* "Clear flag so the system recovers": every parked task is resumed.
ParkedResume == Stranded = {}

\* "snap_create's captures rely on every other CPU being idle."
CaptureAlone ==
    \A c \in Cpus, t \in Tasks : Runs(c, t, {"window"}) => OthersIdle(c)

\* "a ZOMBIE is never re-enqueued": a killed task stays dead.
KilledStaysDead == [][\A t \in Tasks : state[t] = "ZOMBIE" => state'[t] = "ZOMBIE"]_vars

\* A reaped task is on no list, killed or not (its task_t went back to the
\* slab).
ReapedUnlinked == \A t \in reaped : Unreferenced(t)
=============================================================================
