SPECIFICATION FairSpec
CONSTANTS
    Reader = {r1, r2}
    ReadThread = ReadThread
    Cap = 2
    MaxPackets = 4
    r1 = r1
    r2 = r2
INVARIANTS
    TypeOK
    TokenPerPacket
    SelectTellsTruth
    EofAfterAll
    ConnectHears
PROPERTIES
    DeliversInOrder
    ReadReturns
    CloseReturns
CHECK_DEADLOCK FALSE
