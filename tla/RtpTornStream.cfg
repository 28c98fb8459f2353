SPECIFICATION Spec
CONSTANTS
    Frames <- MCFrames
    kRtpPayloadMax = 4
    SeqLimit = 8
    MaxFrames = 2
    MaxLosses = 0
INVARIANTS
    BothTransportsCarryUnits
CHECK_DEADLOCK FALSE
