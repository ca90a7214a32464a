SPECIFICATION FairDaemonSpec
CONSTANTS
    r1 = r1
    Requests = {}
    Poke = Poke
    NoJob = NoJob
    MaxConcurrent = 1
    ChanCap = 1
    PipeCap = 1
    Faults = {"crash"}
    FailFast = TRUE
PROPERTIES LossEndsProcess SignalEndsProcess
