SPECIFICATION Spec
CONSTANTS
    kMaxGopSlots = 4
    DefaultSlots = 2
    NoGop = NoGop
    Torn = Torn
    MaxGops = 7
    MaxCalls = 3
PROPERTIES
    FlushWritesNewest
CHECK_DEADLOCK FALSE
