CONSTANTS
    Chans = {"ext", "own"}
    Self = 1
    Peer <- PeersOneOutside
    GlobalScope = {1, 2}
    TXN_MAX_NESTING = 2
    Slots = {2}
    RingSize = 1
    MaxTxns = 2
    MaxSends = 4
SPECIFICATION Spec
INVARIANTS CommittedDelivered UncommittedInvisible WireInSendOrder PartialRecordTruthful
CHECK_DEADLOCK FALSE
