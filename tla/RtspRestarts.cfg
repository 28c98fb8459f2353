SPECIFICATION Spec
CONSTANTS
    Peers = {p1, p2}
    kMaxClients = 1
    kMaxQueuedFrames = 2
    MaxSessions = 2
    MaxFrames = 3
INVARIANTS
    StoppedHoldsNothing
    StaleAtMostOne
PROPERTIES
    SlowClientsDoNotStall
    StopTerminates
