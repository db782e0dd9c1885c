CONSTANTS
    Message = {m1, m2}
    Nothing = Nothing
    Depth = 3
    Blocking = TRUE
SPECIFICATION FairSpec
INVARIANTS SlotInv CopyIsWhole
PROPERTIES IsLossyFifo AcceptedIsRead
