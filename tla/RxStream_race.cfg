\* The application retunes from one thread while another is in recv().
SPECIFICATION Spec
CONSTANTS
    NumFrames = 2
    FifoCap = 3
    SockCap = 2
    Spp = 2
    Requests = {1, 3}
    Modes = {"fifo"}
    Formats = {"known"}
    Ops = {"start", "retune"}
    PokeOutcomes = {"ok"}
    NetFaults = {}
    StreamingAtOpen = FALSE
    StopBeforeStart = TRUE
    ConcurrentControl = TRUE
    MaxPkts = 3
    MaxOps = 2
    MaxErrors = 0
    MaxDrain = 3
    Free = Free
    Claimed = Claimed
    None = None
INVARIANTS
    RetuneDrainsAlone
