CONSTANTS
    Buttons = {"SETPOINT_UP"}
    DebounceSamples = 5
    LongPressMs = 3
    ClockMod = 7
    PollGaps = {1, 2}
    LagPolls = 2
SPECIFICATION Spec
PROPERTIES OneEventPerPress PressLengthDecides NoEventMerged
