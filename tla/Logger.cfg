SPECIFICATION FairSpec
CONSTANTS
    kMaxQueueSize = 2
    MaxFileLines = 1
    MaxLines = 7
INVARIANTS
    KeepsNewestLines
    QuietExitDrains
PROPERTIES
    LinesAreTaken
    ExitReturnsOutsideWindow
CHECK_DEADLOCK FALSE
