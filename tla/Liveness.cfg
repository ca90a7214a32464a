SPECIFICATION FairSpec
CONSTANTS
    r1 = r1
    r2 = r2
    r3 = r3
    Requests = {r1, r2}
    Poke = Poke
    NoJob = NoJob
    MaxConcurrent = 1
    ChanCap = 1
    PipeCap = 1
    Faults = {"crash"}
INVARIANTS InSync
PROPERTIES Answered StopCompletes DeathNoticed LossReported
