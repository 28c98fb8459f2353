SPECIFICATION Spec
CONSTANTS
    Peers = {p1, p2}
    kMaxClients = 2
    kMaxQueuedFrames = 2
    MaxSessions = 1
    MaxFrames = 3
SYMMETRY PeerSymmetry
INVARIANTS
    TypeOK
    FdsOwnedOnce
    NewestKeyIsKept
PROPERTIES
    SentInOrder
