SPECIFICATION FairSpec
CONSTANTS
    MaxSqes = 3
    Kinds = {"bad", "msg", "bulk"}
    SQEntries = 1
    CQEntries = 2
    Rate = 2
    Length = 2
    Waits = {"timed", "forever"}
INVARIANT TypeOK
INVARIANT RingHoldsCompletions
INVARIANT NoCompletionDropped
INVARIANT CompletedOnce
INVARIANT RunningJobsCanceled
CHECK_DEADLOCK FALSE
PROPERTY HandedJobsComplete
 
