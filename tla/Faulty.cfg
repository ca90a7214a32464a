SPECIFICATION Spec
CONSTANTS
    r1 = r1
    r2 = r2
    r3 = r3
    Requests = {r1, r2, r3}
    Poke = Poke
    NoJob = NoJob
    MaxConcurrent = 2
    ChanCap = 1
    PipeCap = 1
    Faults = {"crash", "closes", "garbage", "oversized", "wrong_id", "replay", "odd_error"}
SYMMETRY Symmetric
INVARIANTS OwnAnswer NoneStranded NoOrphan FatalIsFinal HandshakeFirst Inv
PROPERTIES NotQueuedBehindDying ImplementsResident
