INIT ControlInit
NEXT ControlNext
CONSTANTS
    Procs = {p1, p2}
    Nobody = Nobody
    SeqValues = 3
    MaxRequests = 5
    MaxLost = 1
CHECK_DEADLOCK FALSE
INVARIANT RejectedIsHarmless
