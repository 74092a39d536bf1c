\* Two recordings one after the other, stopped by two commands and by the actor,
\* with a queue of one frame.
SPECIFICATION FairSpec
CONSTANTS
    s1 = s1
    s2 = s2
    d1 = d1
    Stoppers = {s1, s2}
    Destinations = {d1}
    Capacity = 1
    MaxRecordings = 2
    MaxFrames = 2
    Faults = {"open", "write", "finish", "publish", "spawn"}
\* A session ends, and its writers with it.
CHECK_DEADLOCK FALSE
INVARIANTS RecordingHonest
PROPERTIES StopsEnd
