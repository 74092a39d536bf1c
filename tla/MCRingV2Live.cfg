SPECIFICATION FairSpec
CONSTANTS
    SlotCount = 2
    Batches = {1}
    Tries = 2
    MaxSequence = 3
    MaxGeneration = 3
    Quiesced = TRUE
CHECK_DEADLOCK FALSE
INVARIANTS
    NeverRefused
PROPERTIES
    EveryResetAdopted
