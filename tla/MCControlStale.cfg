CONSTANTS
    SetpointMin = 24
    SetpointMax = 24
    SetpointDefault = 24
    WindowPauseMs = 3
    RecoveryWaitMs = 2
    ClockMod = 7
    NoSensor = NoSensor
    Samples <- HotOnly
    EventSets <- Buttons
    StepMs <- OneStep
SPECIFICATION Spec
INVARIANTS InvalidReadingIsShown
