CONSTANTS
    Outputs = {o1, o2}
    FirstOutput = o1
    NoOutput = NoOutput
    Sources = {"UP", "B1"}
    SourceGap = 2
    QueueDepth = 4
    DisplayPeriod = 2
    ActuatorPeriod = 1
SPECIFICATION PathSpec
INVARIANTS PathInv OutputsCatchUp NoClickIsDropped
