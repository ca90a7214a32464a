SPECIFICATION FairSpec
CONSTANTS
    Cap = 3
    MaxLength = 5
    Streams <- ShortStreams
INVARIANTS TypeOK Bounded
PROPERTIES ReadsLines AllTold
