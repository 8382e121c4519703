\* Sessions, retunes and lost commands over a network that loses and corrupts.
SPECIFICATION Spec
CONSTANTS
    NumFrames = 2
    FifoCap = 3
    SockCap = 2
    Spp = 2
    Requests = {1, 3}
    Modes = {"fifo"}
    Formats = {"known", "other"}
    Ops = {"start", "stop", "retune"}
    PokeOutcomes = {"ok", "noack", "lost"}
    NetFaults = {"lost", "bad"}
    StreamingAtOpen = FALSE
    StopBeforeStart = TRUE
    ConcurrentControl = FALSE
    MaxPkts = 4
    MaxOps = 3
    MaxErrors = 0
    MaxDrain = 3
    Free = Free
    Claimed = Claimed
    None = None
INVARIANTS
    TypeOK
    StoppedReleasesFrames
    GapsAccounted
    SingleSocketConsumer
PROPERTIES
    OrderedDelivery
    RetuneIsolation
    StartIsolation
