\* A network that loses, reorders and corrupts, receive errors, both forms of recv(), and a FIFO small enough to overwrite.
SPECIFICATION Spec
CONSTANTS
    NumFrames = 4
    FifoCap = 2
    SockCap = 2
    Spp = 2
    Requests = {1, 3}
    Modes = {"fifo", "plain"}
    Formats = {"known"}
    Ops = {"start", "retune"}
    PokeOutcomes = {"ok"}
    NetFaults = {"lost", "late", "bad"}
    StreamingAtOpen = FALSE
    StopBeforeStart = TRUE
    ConcurrentControl = FALSE
    MaxPkts = 5
    MaxOps = 1
    MaxErrors = 1
    MaxDrain = 3
    Free = Free
    Claimed = Claimed
    None = None
INVARIANTS
    FrameOwnership
    FramesAccounted
    SegmentContract
