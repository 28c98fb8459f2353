SPECIFICATION FairSpec
CONSTANTS
    Capacity = 4
    Items <- MCItems
    NoItem = NoItem
    kCalibrationSamples = 2
    Input = 10
    Output = 6
    Offsets <- MCOffsets
    MaxStarts = 2
    MaxSamples = 9
INVARIANTS
    TypeOK
    SamplesInOrder
    BiasIsFinished
    CropOnSensor
    PollsReadySensor
PROPERTIES
    SamplesAreFiltered
CHECK_DEADLOCK FALSE
