CONSTANTS
    Readings = {r1, r2}
    NoReading = NoReading
    NoMessage = NoMessage
    Depth = 1
    DhtReadPeriodMs = 2
    StartMs = 1
    MaxGapMs = 2
    ClockMod = 5
SPECIFICATION FairSpec
INVARIANTS NoReadIsSkipped ToldOfTheWindow ToldOfTheMeasurement
PROPERTIES PeriodIsKeptSinceNonZero WindowBecomesKnown
