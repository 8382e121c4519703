SPECIFICATION MCSpec
CONSTANTS
    Clients = {c1, c2, c3}
    None = None
    MaxCrashes = 2
    MaxFailures = 2
    Procs = {p1, p2}
    Nobody = Nobody
    SeqValues = 3
    MaxRequests = 5
    MaxLost = 1
    Lengths = {1, 3}
    PacketSizes = {1, 2}
    MaxAgg = 2
    NumBufs = 2
    TxSeqMod = 4
    MaxSends = 3
    MaxOps = 3
    MaxBad = 2
    Full = 4
    Channels = 2
    Sizes = {2, 4}
    Requests = {1, 3, 5, 8}
    Separate = FALSE
    RingDepth = 2
    SeqMod = 3
    MaxPkts = 5
    MaxCalls = 1
    MaxFaults = 0
CHECK_DEADLOCK FALSE
INVARIANTS
    TypesOK
    RingExclusive
    OneOwner
    StaleAnswerBounded
    ActiveIsTrue
    StampHonest
    LossCounted
    NothingStale
    WireInOrder
    DrainedBeforeOff
    RelatchedOrPending
PROPERTY StopReturns
