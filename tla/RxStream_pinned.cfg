\* Fewer frames than FIFO entries, as in the deployed sizes: queued packets pin the pool.
SPECIFICATION Spec
CONSTANTS
    NumFrames = 2
    FifoCap = 3
    SockCap = 2
    Spp = 2
    Requests = {1, 3}
    Modes = {"fifo"}
    Formats = {"known"}
    Ops = {"start"}
    PokeOutcomes = {"ok"}
    NetFaults = {}
    StreamingAtOpen = FALSE
    StopBeforeStart = TRUE
    ConcurrentControl = FALSE
    MaxPkts = 5
    MaxOps = 1
    MaxErrors = 0
    MaxDrain = 3
    Free = Free
    Claimed = Claimed
    None = None
INVARIANTS
    BackpressureDropsOldest
