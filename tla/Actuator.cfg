CONSTANTS
    HalfTurn = 13
    BuzzerClickMs = 3
    SuspectHalfMs = 4
    PausedHalfMs = 2
    States = {"COOLING", "WINDOW_SUSPECT", "AC_PAUSED"}
    MaxGapMs = 2
SPECIFICATION Spec
INVARIANTS BuzzerIsExactForHalfATurn LampBlinks
