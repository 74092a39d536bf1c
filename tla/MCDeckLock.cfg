SPECIFICATION Spec
CONSTANTS
    A = A
    B = B
    calm = calm
    wild = wild
    Sources = {A}
    Count <- Uneven
    Settings = {calm, wild}
    Loops <- AnyLoops
    Modes = {"live"}
    Frames = 1
    MaxSlots = 3
    MaxResets = 4
    Faults = {}
    TransportLock = FALSE
    Requests = 4
    MaxGeneration = 4
    MaxSequence = 5
CHECK_DEADLOCK FALSE
INVARIANTS
    NeverMisjudged
