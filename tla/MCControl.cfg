CONSTANTS
    SetpointMin = 24
    SetpointMax = 24
    SetpointDefault = 24
    WindowPauseMs = 3
    RecoveryWaitMs = 2
    ClockMod = 6
    NoSensor = NoSensor
    Samples <- DryHumid
    EventSets <- TwoAtOnce
    StepMs <- OneOrTwo
SPECIFICATION Spec
INVARIANTS IndInv PausedInTime NoCoolingThroughOpenWindow NoCoolingBeforeReading
PROPERTIES RecoveryIsWaited PauseIsJustifiedOnceMeasured FollowsPolicy
