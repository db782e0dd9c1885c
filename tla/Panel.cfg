SPECIFICATION PanelSpec
CONSTANTS
    Messages <- MCMessages
    SetpointDefault = 24
    HalfSecondMs = 1
    RecoveryWaitMs = 3
    ClockMod = 5
    PollGaps = {1}
    Brightness = 4
    CutPoints <- MCCutPoints
INVARIANTS
    StateCanBeRead
    SecondsAreRight
    TemperatureCanBeRead
    OneCallIsEnough
PROPERTIES
    DigitsAreOldOrNew
    AckTellsThePlug
