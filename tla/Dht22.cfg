\* Thirteen microseconds of the program are about one here; the limits are cut
\* in proportion to a frame of five bits.
CONSTANTS
    ByteBits = 1
    ByteMod = 2
    LoopUs = {1, 2}
    MaxLoopUs = 2
    UsMod = 200
    UsStarts = {160}
    PullUs = 2
    ThresholdUs = 4
    PulseTimeoutUs = 10
    ReadTimeoutUs = 136
    LoopGuard = 11
    BusyGuard = 4
    WaitUs = {2, 3}
    RespUs = {5}
    LowUs = {4, 5}
    ZeroUs = {4}
    OneUs = {8, 9}
    MaxPulseUs = 9
    FreezeIn = {"start"}
SPECIFICATION Spec
INVARIANTS DhtInv FrameIsReceived IrqsOffAreBounded
PROPERTIES ImplementsContract
