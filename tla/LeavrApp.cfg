SPECIFICATION AppSpec
CONSTANTS
    Main = main
    Posters <- JustMain
    Events <- AllEvents
    LoopEvents <- AllEvents
INVARIANTS
    LoopHasRecorder
    PartsOutliveTheirUsers
    ExitIsClean
PROPERTIES
    SignalLeadsToExit
