SPECIFICATION LaunchSpec
CONSTANTS
    Commands <- MCCommands
    MiB = 1
    HeldSizes <- MCHeld
    BatchSizes <- MCBatches
    CacheBound = 3000
INVARIANTS CeilingCoversProcess
