SPECIFICATION ExchangeSpec
CONSTANTS
    Bodies <- MCBodies
    Outcomes <- MCOutcomes
    MaxBody = 1048576
    MaxQuestions = 2
    MaxInput = 4194304
INVARIANTS ExchangeInv ShapeNeverDepends
PROPERTIES LostToClockOrStack ToldIffLost LayersAgree
