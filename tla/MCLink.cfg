\* Three commands with late deadlines, cut frames, a full pipe, a hung command
\* and the end of either process at any step.
SPECIFICATION FairSpec
CONSTANTS
    MaxMessages = 5
    MaxPending = 2
    PipeFrames = 2
    MaxCalls = 3
    MaxFrames = 6
    MaxLate = 2
    Faults = {"host", "worker", "hang", "contain"}
INVARIANTS
    PeersAgree
    CleanEnd
PROPERTIES
    CallsSpec
    CallsEnd
    WorkerEnds
\* A session ends with its worker.
CHECK_DEADLOCK FALSE
