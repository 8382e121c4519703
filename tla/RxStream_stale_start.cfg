\* START without a STOP on a device that already streams.
SPECIFICATION Spec
CONSTANTS
    NumFrames = 2
    FifoCap = 3
    SockCap = 2
    Spp = 2
    Requests = {1, 3}
    Modes = {"fifo"}
    Formats = {"known"}
    Ops = {"start"}
    PokeOutcomes = {"ok"}
    NetFaults = {}
    StreamingAtOpen = TRUE
    StopBeforeStart = FALSE
    ConcurrentControl = FALSE
    MaxPkts = 3
    MaxOps = 1
    MaxErrors = 0
    MaxDrain = 3
    Free = Free
    Claimed = Claimed
    None = None
PROPERTIES
    StartIsolation
