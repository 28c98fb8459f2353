SPECIFICATION FairSpec
CONSTANTS
    Paths = {p1, p2}
    kMaxQueuedFrames = 2
    MaxSessions = 2
    MaxFrames = 3
    MaxCrashes = 1
    NoFile = NoFile
    Torn = Torn
INVARIANTS
    TypeOK
    NothingLostInSession
    SavedFilesAreComplete
    StaleFrameOnlyAtHead
    NothingOutlivesSession
PROPERTIES
    StopOkMeansSaved
    KeepsPromise
    QueuedIsTaken
    StopReturnsOutsideWindow
