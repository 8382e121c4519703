\* A perfect network and a slow application: nothing is lost and nobody waits for ever.
SPECIFICATION LiveSpec
CONSTANTS
    NumFrames = 2
    FifoCap = 4
    SockCap = 6
    Spp = 2
    Requests = {1, 3}
    Modes = {"fifo"}
    Formats = {"known"}
    Ops = {"start", "stop", "retune"}
    PokeOutcomes = {"ok", "noack", "lost"}
    NetFaults = {}
    StreamingAtOpen = FALSE
    StopBeforeStart = TRUE
    ConcurrentControl = FALSE
    MaxPkts = 5
    MaxOps = 2
    MaxErrors = 0
    MaxDrain = 6
    Free = Free
    Claimed = Claimed
    None = None
INVARIANTS
    LosslessHost
PROPERTIES
    SocketDrains
    ControlReturns
