\* Two threads, four calls, a sequence number of three values. The program may end after its last call.
SPECIFICATION Spec
CHECK_DEADLOCK FALSE
SYMMETRY Symmetry
CONSTANTS
    Threads = {t1, t2}
    Regs = {lo}
    Values = {v1, v2}
    Checked = {lo}
    Done = Done
    Refused = Refused
    Failed = Failed
    None = None
    NoThread = NoThread
    SeqMod = 3
    Lifetime = 2
    Replies = {"ok", "bad"}
    MaxCalls = 4
    MaxErrors = 1
INVARIANTS
    TypeOK
    OwnAnswer
PROPERTIES
    ImplementsBus
