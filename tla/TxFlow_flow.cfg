\* One sender, a device that pauses at two packets, one begin, end and abort in any order. The application may stop sending.
SPECIFICATION LiveSpec
CHECK_DEADLOCK FALSE
CONSTANTS
    Spp = 2
    Sizes = {3}
    Modes = {"block", "try"}
    Flags = {"both"}
    SeqMod = 3
    High = 2
    Low = 0
    Events = {e1}
    ControlOps = {"begin", "end", "abort"}
    MaxPkts = 3
    MaxOps = 2
    MaxRepeats = 1
INVARIANTS
    TypeOK
    WireContiguous
    BurstFraming
    OneLatePacket
    PauseClock
    CountsAgree
PROPERTIES
    SendReturns
