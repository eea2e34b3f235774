------------------------------- MODULE Stream -------------------------------
(***************************************************************************)
(* A submission stream (kernel/io/stream.c, submit.c, worker.c) with the   *)
(* I/O token bucket of its owner (kernel/resource/rlimit.c).               *)
(*                                                                         *)
(* Three actors: the owner, which fills the submission ring, submits,      *)
(* reaps, consumes completions and destroys; the one kernel worker, which  *)
(* runs the jobs of all streams in order; and the timer.  The audience of  *)
(* a stream handle is its owner alone and a process has one thread, so the *)
(* owner's system calls never overlap each other; they overlap the worker  *)
(* everywhere.  stream_post_cqe takes no lock, so it is two steps: the     *)
(* head is read and the room checked, then entry and head are written.     *)
(***************************************************************************)
EXTENDS Naturals, Sequences, FiniteSets

CONSTANTS
    MaxSqes,      \* bound: submission entries written over the stream's life
    Kinds,        \* what the owner submits: subset of {"bad", "msg", "bulk"}
    SQEntries, CQEntries,
    Rate,         \* io_rate_bytes_per_sec of the owner
    Length,       \* bytes a bulk operation moves
    Waits         \* reap timeouts used: subset of {"probe", "timed", "forever"}

ASSUME BoundAssumption == MaxSqes \in Nat \ {0}
ASSUME KindAssumption == Kinds \subseteq {"bad", "msg", "bulk"}
ASSUME RingAssumption == SQEntries \in Nat \ {0} /\ CQEntries \in Nat /\ CQEntries >= SQEntries
ASSUME RateAssumption == Rate \in Nat \ {0} /\ Length \in Nat \ {0}
ASSUME WaitAssumption == Waits \subseteq {"probe", "timed", "forever"}

Cookies == 1..MaxSqes
Posters == {"owner", "worker"}
NONE == 0
REFILL_DIVISOR == 100    \* RLIMIT_IO_REFILL_DIVISOR

VARIABLES
    state,            \* s->state; stream_destroy is the only transition
    kind,             \* what each entry written so far asks for
    sq,               \* entries written and not consumed
    ring, cq_head, cq_tail,  \* the completion ring
    job,              \* state of each job on s->jobs_head, or "none"
    queue,            \* g_worker_queue
    pending,          \* the owner's io_pending_head: a stack
    io_tokens,
    at,               \* per actor: place in its code
    cur,              \* per actor: the entry it is completing and its result
    seen,             \* per poster: the head it read
    left,             \* owner: entries still to take in this batch
    reap,             \* owner: min_complete, kind of timeout, deadline passed
    \* What the code does not keep:
    posted,           \* completions published, in order
    dropped,          \* completions refused because the ring was full
    raced,            \* two posts overlapped
    overcommitted,    \* the owner had more unread entries out than the ring holds
    doomed            \* jobs marked for cancellation while they ran

vars == <<state, kind, sq, ring, cq_head, cq_tail, job, queue, pending, io_tokens, at,
          cur, seen, left, reap, posted, dropped, raced, overcommitted, doomed>>
cqVars == <<ring, cq_head, cq_tail, posted, dropped, raced>>
jobVars == <<job, queue, pending, io_tokens, doomed>>
userVars == <<state, kind, sq, left, reap, overcommitted>>

NoReap == [min |-> 0, wait |-> "probe", expired |-> FALSE]
Nothing == [cookie |-> NONE, result |-> "none"]

Init ==
    /\ state = "ACTIVE"
    /\ kind = <<>> /\ sq = <<>>
    /\ ring = [k \in 0..CQEntries - 1 |-> Nothing] /\ cq_head = 0 /\ cq_tail = 0
    /\ job = [c \in Cookies |-> "none"]
    /\ queue = <<>> /\ pending = <<>>
    /\ io_tokens = Rate
    /\ at = [owner |-> "user", worker |-> "pop"]
    /\ cur = [a \in Posters |-> Nothing]
    /\ seen = [a \in Posters |-> 0]
    /\ left = 0 /\ reap = NoReap
    /\ posted = <<>> /\ dropped = {}
    /\ raced = FALSE /\ overcommitted = FALSE /\ doomed = {}

Goto(a, place) == at' = [at EXCEPT ![a] = place]
Ready == cq_head - cq_tail

-----------------------------------------------------------------------------
(* Posting a completion: stream_post_cqe.                                  *)

\* Mutant: one entry is kept free.
CqFullEarly == Ready >= CQEntries - 1

\* Mutant: the check comes one entry late.
CqFullLate == Ready > CQEntries

CqFull == Ready >= CQEntries

\* Who is between reading the head and publishing.
Posting(a) == at[a] = "publish"

\* Where the actor goes after a post: the owner to its next entry, the
\* worker to the next job.
AfterPost(a) == IF a = "owner" THEN "submit" ELSE "pop"

PostReserve(a) ==
    /\ at[a] = "post"
    /\ IF CqFull
       THEN /\ dropped' = dropped \cup {cur[a].cookie}
            /\ Goto(a, AfterPost(a))
            /\ cur' = [cur EXCEPT ![a] = Nothing]
            /\ UNCHANGED seen
       ELSE /\ seen' = [seen EXCEPT ![a] = cq_head]
            /\ Goto(a, "publish")
            /\ UNCHANGED <<dropped, cur>>
    /\ raced' = (raced \/ \E b \in Posters \ {a} : Posting(b))
    /\ UNCHANGED <<userVars, jobVars, ring, cq_head, cq_tail, posted>>

\* Entry, head and wake-up.  A reaper that is on the list leaves it and
\* looks again.
PostPublish(a) ==
    /\ Posting(a)
    /\ ring' = [ring EXCEPT ![seen[a] % CQEntries] = cur[a]]
    /\ cq_head' = seen[a] + 1
    /\ posted' = Append(posted, cur[a])
    /\ at' = [b \in Posters |->
                IF b = a THEN AfterPost(a)
                ELSE IF b = "owner" /\ at[b] = "waiting" THEN "reap" ELSE at[b]]
    /\ cur' = [cur EXCEPT ![a] = Nothing]
    /\ seen' = [seen EXCEPT ![a] = 0]
    /\ UNCHANGED <<userVars, jobVars, cq_tail, dropped, raced>>

-----------------------------------------------------------------------------
(* The owner.                                                              *)

\* The program writes an entry into the submission ring.
WriteSqe(k) ==
    /\ at["owner"] = "user"
    /\ Len(kind) < MaxSqes /\ Len(sq) < SQEntries
    /\ kind' = Append(kind, k)
    /\ sq' = Append(sq, Len(kind) + 1)
    /\ UNCHANGED <<state, left, reap, overcommitted, cqVars, jobVars, at, cur, seen>>

\* The program reads one completion and advances cq_tail.
Consume ==
    /\ at["owner"] = "user"
    /\ Ready > 0
    /\ cq_tail' = cq_tail + 1
    /\ UNCHANGED <<userVars, jobVars, ring, cq_head, posted, dropped, raced, at, cur, seen>>

\* SYS_STREAM_SUBMIT, up to the loop of stream_submit_batch.
Submit(n) ==
    /\ at["owner"] = "user"
    /\ state = "ACTIVE"
    /\ left' = n
    /\ Goto("owner", "submit")
    /\ UNCHANGED <<state, kind, sq, reap, overcommitted, cqVars, jobVars, cur, seen>>

\* The batch ends: it is complete, no entry is left, or no job can be
\* allocated, in which case the entry is not consumed.
SubmitEnd ==
    /\ at["owner"] = "submit"
    /\ left > 0 /\ sq # <<>> => kind[Head(sq)] # "bad"
    /\ Goto("owner", "user")
    /\ left' = 0
    /\ UNCHANGED <<state, kind, sq, reap, overcommitted, cqVars, jobVars, cur, seen>>

\* Entries taken whose completion the owner has not read, when one more is.
Outstanding == Cardinality({c \in 1..Len(kind) : \A k \in 1..Len(sq) : sq[k] # c}) + 1 - cq_tail

\* Mutant: the kernel's cursor is not advanced.
TakeEntryAgain ==
    /\ at["owner"] = "submit" /\ left > 0 /\ sq # <<>>
    /\ left' = left - 1
    /\ UNCHANGED <<state, kind, reap, sq, overcommitted>>

TakeEntry ==
    /\ at["owner"] = "submit" /\ left > 0 /\ sq # <<>>
    /\ left' = left - 1
    /\ sq' = Tail(sq)
    /\ overcommitted' = (overcommitted \/ Outstanding > CQEntries)
    /\ UNCHANGED <<state, kind, reap>>

\* reject_sqe: an unknown operation, a missing pledge or a bad VMO handle.
SubmitReject ==
    /\ TakeEntry
    /\ kind[Head(sq)] = "bad"
    /\ cur' = [cur EXCEPT !["owner"] = [cookie |-> Head(sq), result |-> "rejected"]]
    /\ Goto("owner", "post")
    /\ UNCHANGED <<cqVars, jobVars, seen>>

\* stream_worker_enqueue wakes a worker that sleeps.
Woken == [at EXCEPT !["worker"] = IF @ = "waiting" THEN "pop" ELSE @]

\* The job is linked and handed to the worker; a bulk operation pays first.
SubmitJob ==
    LET c == Head(sq)  cost == IF kind[c] = "bulk" THEN Length ELSE 0 IN
    /\ TakeEntry
    /\ kind[c] # "bad"
    /\ io_tokens >= cost
    /\ io_tokens' = io_tokens - cost
    /\ job' = [job EXCEPT ![c] = "QUEUED"]
    /\ queue' = Append(queue, c)
    /\ at' = Woken
    /\ UNCHANGED <<pending, doomed, cqVars, cur, seen>>

\* rlimit_check_io refuses: the job is linked and chained on io_pending_head.
SubmitThrottled ==
    LET c == Head(sq) IN
    /\ TakeEntry
    /\ kind[c] = "bulk" /\ io_tokens < Length
    /\ job' = [job EXCEPT ![c] = "QUEUED"]
    /\ pending' = <<c>> \o pending
    /\ UNCHANGED <<queue, io_tokens, doomed, cqVars, at, cur, seen>>

\* SYS_STREAM_REAP.
Reap(n, w) ==
    /\ at["owner"] = "user"
    /\ reap' = [min |-> n, wait |-> w, expired |-> FALSE]
    /\ Goto("owner", "reap")
    /\ UNCHANGED <<state, kind, sq, left, overcommitted, cqVars, jobVars, cur, seen>>

\* The top of stream_reap's loop.
ReapReturn ==
    /\ at["owner"] = "reap"
    /\ Ready >= reap.min \/ reap.wait = "probe" \/ reap.expired
    /\ reap' = NoReap
    /\ Goto("owner", "user")
    /\ UNCHANGED <<state, kind, sq, left, overcommitted, cqVars, jobVars, cur, seen>>

ReapMustWait ==
    /\ at["owner"] = "reap"
    /\ Ready < reap.min /\ reap.wait # "probe" /\ ~reap.expired
    /\ Goto("owner", "block")
    /\ UNCHANGED <<userVars, cqVars, jobVars, cur, seen>>

\* sched_block_on_channel.
ReapBlock ==
    /\ at["owner"] = "block"
    /\ Goto("owner", "waiting")
    /\ UNCHANGED <<userVars, cqVars, jobVars, cur, seen>>

\* The deadline passes; the timer's scan makes a sleeping reaper ready.
ReapDeadline ==
    /\ at["owner"] \in {"reap", "waiting"} /\ reap.wait = "timed"
    /\ reap' = [reap EXCEPT !.expired = TRUE]
    /\ Goto("owner", "reap")
    /\ UNCHANGED <<state, kind, sq, left, overcommitted, cqVars, jobVars, cur, seen>>

\* stream_destroy: every linked job is marked for cancellation.
Destroy ==
    /\ at["owner"] = "user"
    /\ state = "ACTIVE"
    /\ state' = "DESTROYING"
    /\ job' = [c \in Cookies |-> IF job[c] = "none" THEN "none" ELSE "CANCELING"]
    /\ doomed' = {c \in Cookies : job[c] = "RUNNING" /\ at["worker"] \in {"run", "complete"}}
    /\ UNCHANGED <<kind, sq, left, reap, overcommitted, queue, pending, io_tokens, cqVars,
                   at, cur, seen>>

-----------------------------------------------------------------------------
(* The worker.                                                             *)

\* worker_pop; the job's state is overwritten, whatever it was.
WorkerPop ==
    /\ at["worker"] = "pop" /\ queue # <<>>
    /\ cur' = [cur EXCEPT !["worker"] = [cookie |-> Head(queue), result |-> "none"]]
    /\ job' = [job EXCEPT ![Head(queue)] = "RUNNING"]
    /\ queue' = Tail(queue)
    /\ Goto("worker", "run")
    /\ UNCHANGED <<userVars, cqVars, pending, io_tokens, doomed, seen>>

\* The dispatcher: a job already marked is not run; otherwise the operation
\* takes place.
WorkerRun ==
    /\ at["worker"] = "run"
    /\ cur' = [cur EXCEPT !["worker"].result =
                  IF job[cur["worker"].cookie] = "CANCELING" THEN "canceled" ELSE "done"]
    /\ Goto("worker", "complete")
    /\ UNCHANGED <<userVars, cqVars, jobVars, seen>>

\* Mutant: the mark is not looked at again when the operation has ended.
FinalResultAsRun(c, result) == result

FinalResult(c, result) == IF job[c] = "CANCELING" THEN "canceled" ELSE result

\* stream_complete_job: the state is read without the lock ...
WorkerComplete ==
    /\ at["worker"] = "complete"
    /\ cur' = [cur EXCEPT !["worker"].result = FinalResult(cur["worker"].cookie, @)]
    /\ Goto("worker", "unlink")
    /\ UNCHANGED <<userVars, cqVars, jobVars, seen>>

\* Mutant: the job stays on the stream's list.
WorkerUnlinkNot ==
    /\ at["worker"] = "unlink"
    /\ Goto("worker", "post")
    /\ UNCHANGED <<userVars, cqVars, jobVars, cur, seen>>

\* ... and the job unlinked under it.
WorkerUnlink ==
    /\ at["worker"] = "unlink"
    /\ job' = [job EXCEPT ![cur["worker"].cookie] = "none"]
    /\ Goto("worker", "post")
    /\ UNCHANGED <<userVars, cqVars, queue, pending, io_tokens, doomed, cur, seen>>

\* The queue is found empty, and the worker blocks.  Between the two steps
\* an enqueue wakes nobody.
WorkerIdle ==
    /\ at["worker"] = "pop" /\ queue = <<>>
    /\ Goto("worker", "block")
    /\ UNCHANGED <<userVars, cqVars, jobVars, cur, seen>>
WorkerBlock ==
    /\ at["worker"] = "block"
    /\ Goto("worker", "waiting")
    /\ UNCHANGED <<userVars, cqVars, jobVars, cur, seen>>

\* Mutant: the worker's wait has no timeout.
WorkerTickNever ==
    /\ at["worker"] = "never"
    /\ UNCHANGED vars

\* The 10 ms timeout of the worker's wait.
WorkerTick ==
    /\ at["worker"] = "waiting"
    /\ Goto("worker", "pop")
    /\ UNCHANGED <<userVars, cqVars, jobVars, cur, seen>>

-----------------------------------------------------------------------------
(* The timer: rlimit_refill_io_tokens, called by schedule() for a task that *)
(* is running when the tick comes.                                          *)


Refill == IF Rate \div REFILL_DIVISOR = 0 THEN 1 ELSE Rate \div REFILL_DIVISOR

\* Tokens are added up to one second's worth and the jobs on top of the
\* stack that they pay for are handed to the worker.
Tick ==
    LET full == IF io_tokens + Refill > Rate THEN Rate ELSE io_tokens + Refill
        paid == CHOOSE n \in 0..Len(pending) :
                   /\ n * Length <= full
                   /\ n = Len(pending) \/ (n + 1) * Length > full
    IN
    /\ at["owner"] # "waiting"
    /\ io_tokens' = full - paid * Length
    /\ pending' = SubSeq(pending, paid + 1, Len(pending))
    /\ queue' = queue \o SubSeq(pending, 1, paid)
    /\ at' = IF paid > 0 THEN Woken ELSE at
    /\ UNCHANGED <<userVars, cqVars, job, doomed, cur, seen>>

-----------------------------------------------------------------------------
OwnerInKernel ==
    \/ SubmitReject \/ SubmitJob \/ SubmitThrottled \/ SubmitEnd
    \/ ReapReturn \/ ReapMustWait \/ ReapBlock
    \/ PostReserve("owner") \/ PostPublish("owner")

Worker ==
    \/ WorkerPop \/ WorkerRun \/ WorkerComplete
    \/ WorkerUnlink \/ PostReserve("worker") \/ PostPublish("worker")
    \/ WorkerIdle \/ WorkerBlock

Next ==
    \/ \E k \in Kinds : WriteSqe(k)
    \/ Consume
    \/ \E n \in 1..SQEntries : Submit(n)
    \/ \E n \in 1..CQEntries, w \in Waits : Reap(n, w)
    \/ Destroy
    \/ OwnerInKernel \/ ReapDeadline
    \/ Worker \/ WorkerTick
    \/ Tick

Spec == Init /\ [][Next]_vars

\* A task in the kernel keeps running, the worker is a task like any other,
\* and the timer ticks.
FairSpec ==
    /\ Spec
    /\ WF_vars(OwnerInKernel) /\ WF_vars(ReapDeadline)
    /\ WF_vars(Worker) /\ WF_vars(WorkerTick)
    /\ WF_vars(Tick)

-----------------------------------------------------------------------------
(* Properties.                                                             *)

\* Every variable keeps its type, and a job is linked exactly while it is
\* queued, throttled or with the worker (s->jobs_head, job->worker_next).
TypeOK ==
    /\ state \in {"ACTIVE", "DESTROYING"}
    /\ kind \in Seq(Kinds)
    /\ io_tokens \in 0..Rate
    /\ cq_head \in 0..MaxSqes /\ cq_tail \in 0..MaxSqes
    /\ LET waiting == [k \in 1..Len(queue) + Len(pending) |-> (queue \o pending)[k]]
           running == IF at["worker"] \in {"run", "complete", "unlink"}
                      THEN {cur["worker"].cookie} ELSE {}
       IN  /\ {c \in Cookies : job[c] # "none"} = {waiting[k] : k \in DOMAIN waiting} \cup running
           /\ \A j, k \in DOMAIN waiting : waiting[j] = waiting[k] => j = k

\* As long as no two posts overlapped, the ring holds every completion that
\* was published and not read yet, in order: none is overwritten, repeated or
\* lost (stream_post_cqe's overflow check).
RingHoldsCompletions ==
    ~raced => /\ Len(posted) = cq_head
              /\ \A k \in cq_tail..cq_head - 1 : ring[k % CQEntries] = posted[k + 1]

\* An owner that never has more entries out than the completion ring holds
\* loses no completion, unless two posts overlapped (stream_post_cqe drops
\* one when the ring is full; no code limits active_jobs).
NoCompletionDropped ==
    ~overcommitted /\ ~raced => dropped = {}

\* Each entry completes once at most, by rejection or by its job.
CompletedOnce ==
    \A j, k \in 1..Len(posted) : posted[j].cookie = posted[k].cookie => j = k

\* A job marked while its operation was running reports cancellation, even
\* when the operation succeeded (stream_complete_job looks at the mark again).
RunningJobsCanceled ==
    \A k \in 1..Len(posted) : posted[k].cookie \in doomed => posted[k].result = "canceled"

\* The worker never leaves a job it was handed: it comes to an empty queue
\* again and again, although the wake-up of an enqueue may come before the
\* worker sleeps (the worker's timed wait).
HandedJobsComplete ==
    []<>(queue = <<>> /\ at["worker"] \in {"pop", "block", "waiting"})


-----------------------------------------------------------------------------
(* What comments say, and the code does not do.                            *)

\* "queued jobs get an immediate CQE with -ECANCELED": after stream_destroy
\* no operation begins (the worker overwrites the mark).
NothingRunsAfterDestroy ==
    [][state = "DESTROYING" /\ at["worker"] = "run" => cur'["worker"].result # "done"]_vars

\* "Under spec invariants ... this never fires": no completion is dropped.
NeverOverflows == dropped = {}

\* Drained "per tick": a throttled job that fits the bucket is handed over,
\* also when its owner sleeps in stream_reap.
ThrottledJobsAlwaysResume == Length <= Rate => []<>(pending = <<>>)

\* A completion that satisfies a sleeping reaper wakes it.
SatisfiedReaperReturns ==
    (at["owner"] = "waiting" /\ Ready >= reap.min) ~> (at["owner"] = "user")
=============================================================================
