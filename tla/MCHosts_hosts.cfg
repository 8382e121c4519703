SPECIFICATION MCSpec
CONSTANTS
    Registers = {rate, rxfreq, chan}
    RateRegister = rate
    EpochRegisters = {rxfreq}
    StatusRegisters = {rxfreq}
    StreamRegister = chan
    Values = {v1, v2}
    NoValue = NoValue
    MaxFaults = 2
    Total = 3
    Block = 2
    MaxJobs = 4
    MaxLosses = 2
CHECK_DEADLOCK FALSE
INVARIANTS
    CacheHonest
    TransferExact
    HostThreadsSafe
    HostBeliefs
