CONSTANTS
    Senders = {s1, s2}
    Receivers = {r1}
    Capacity = 2
    MaxSends = 3
    Timeouts = {"zero", "finite", "forever"}
    Modes = {"blocking", "nonblocking"}
    SnapIds = {1}
    NoMsg = NoMsg
SPECIFICATION FairSpec
INVARIANTS RingHoldsUndelivered SleepersOnList
PROPERTIES DeliversInOrder ImplementsQueue 
CHECK_DEADLOCK FALSE
