SPECIFICATION Spec
CONSTANTS
    Sinks = {recorder, rtsp}
    MaxStarts = 2
    MaxFrames = 3
    MaxToggles = 3
INVARIANTS
    TypeOK
    StagesNest
    ThreadOnLiveEncoders
    SinksSeeEveryFrame
    AtMostOneLateFrame
PROPERTIES
    StreamsAreReleased
    StopTerminates
