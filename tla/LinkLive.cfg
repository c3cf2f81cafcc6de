SPECIFICATION FairSpec
CONSTANTS
    Modulus = 3
    ExtModulus = 3
    K = 2
    DefaultN2 = 2
    Version2N2 = 2
    Payload = {1, 2}
    Oversized = {}
    DataA = 2
    DataB = 0
    AirCap = 3
    Patient = TRUE
PROPERTIES
    DeliversOrBreaks
    ConnectReturns
    SilenceIsNoticed
CHECK_DEADLOCK FALSE
