CONSTANTS
    Senders = {s1}
    Receivers = {r1}
    Capacity = 1
    MaxSends = 2
    Timeouts = {"finite", "forever"}
    Modes = {"blocking"}
    SnapIds = {}
    NoMsg = NoMsg
SPECIFICATION FairSpec
PROPERTIES WaitingMessageWakesReceiver
CHECK_DEADLOCK FALSE
