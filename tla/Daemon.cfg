SPECIFICATION DaemonSpec
CONSTANTS
    r1 = r1
    Requests = {r1}
    Poke = Poke
    NoJob = NoJob
    MaxConcurrent = 1
    ChanCap = 1
    PipeCap = 1
    Faults = {"crash", "wrong_id"}
    FailFast = TRUE
INVARIANTS WholeInv NoOrphanAtExit SuccessOnlyIfAsked
PROPERTIES ReadyzKnowsLoss ImplementsResident
