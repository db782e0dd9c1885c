CONSTANTS
    Readings = {r1, r2}
    NoReading = NoReading
    Partial = Partial
    Pieces = 2
SPECIFICATION FairSpec
INVARIANTS DiagInv LinesAreWhole LineIsCurrent LineTellsOneRead
PROPERTIES ReportsGoOn FaultIsDumped
\* The fault handler ends in an endless loop.
CHECK_DEADLOCK FALSE
