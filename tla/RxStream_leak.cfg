\* One start, one stop, and one receive error between them.
SPECIFICATION Spec
CONSTANTS
    NumFrames = 2
    FifoCap = 3
    SockCap = 2
    Spp = 2
    Requests = {1, 3}
    Modes = {"fifo"}
    Formats = {"known"}
    Ops = {"start", "stop"}
    PokeOutcomes = {"ok"}
    NetFaults = {}
    StreamingAtOpen = FALSE
    StopBeforeStart = TRUE
    ConcurrentControl = FALSE
    MaxPkts = 3
    MaxOps = 2
    MaxErrors = 1
    MaxDrain = 3
    Free = Free
    Claimed = Claimed
    None = None
INVARIANTS
    FullStopReleasesFrames
