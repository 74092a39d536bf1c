SPECIFICATION FairSpec
CONSTANTS
    A = A
    B = B
    calm = calm
    wild = wild
    Sources = {A}
    Count <- Uneven
    Settings = {calm}
    Loops <- Straight
    Modes = {"snapshot", "live"}
    Frames = 1
    MaxSlots = 2
    MaxResets = 4
    Faults = {"operator", "append", "finish", "decode", "decoder", "refuse", "import", "finalize", "timeout", "crash", "gone"}
    TransportLock = FALSE
    Requests = 3
    MaxGeneration = 9
    MaxSequence = 20
CHECK_DEADLOCK FALSE
INVARIANTS
    RingInStep
PROPERTIES
    CaptureEnds
    SessionEnds
