SPECIFICATION FairSpec
CONSTANTS
    Paths = {p1}
    kMaxQueuedFrames = 2
    MaxSessions = 1
    MaxFrames = 1
    MaxCrashes = 1
    NoFile = NoFile
    Torn = Torn
PROPERTIES
    StopTerminates
