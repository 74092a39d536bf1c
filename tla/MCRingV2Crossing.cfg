SPECIFICATION Spec
CONSTANTS
    SlotCount = 2
    Batches = {1, 2}
    Tries = 2
    MaxSequence = 3
    MaxGeneration = 2
    Quiesced = FALSE
CHECK_DEADLOCK FALSE
INVARIANTS
    SoleWriter
    DeliveredInOrder
    UnreadIntact
    HeldBatchWhole
PROPERTIES
    QueueSpec
