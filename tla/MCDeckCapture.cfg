SPECIFICATION Spec
CONSTANTS
    A = A
    B = B
    calm = calm
    wild = wild
    Sources = {A, B}
    Count <- Uneven
    Settings = {calm, wild}
    Loops <- AnyLoops
    Modes = {"snapshot", "live"}
    Frames = 2
    MaxSlots = 3
    MaxResets = 2
    Faults = {"append", "finish", "refuse", "finalize", "timeout", "crash", "gone"}
    TransportLock = TRUE
    Requests = 3
    MaxGeneration = 3
    MaxSequence = 4
CHECK_DEADLOCK FALSE
SYMMETRY AnySettings
INVARIANTS InStep NeverMisjudged TapeFaithful ViewTellsEnd FreshFrames SeamsClosed
