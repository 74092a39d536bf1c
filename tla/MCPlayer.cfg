\* The program may exit: no step is left then.
SPECIFICATION FairSpec
CONSTANTS
    Cartridges = {1, 2}
    SlotFrames = 2
    ChannelCapacity = 2
    MaxMishaps = 1
    Faults = {"link", "reject", "output", "start", "file"}
INVARIANTS PassFaithful ViewHonest
PROPERTIES EndsWhole CommandsEnd PlaysOut
CHECK_DEADLOCK FALSE
