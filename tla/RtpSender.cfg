SPECIFICATION Spec
CONSTANTS
    Frames <- MCFrames
    kRtpPayloadMax = 4
    SeqLimit = 3
    MaxFrames = 2
    MaxLosses = 3
INVARIANTS
    ReceiverRebuildsUnits
CHECK_DEADLOCK FALSE
