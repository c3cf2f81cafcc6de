SPECIFICATION Spec
CONSTANTS
    Modulus = 3
    ExtModulus = 3
    K = 2
    DefaultN2 = 1
    Version2N2 = 1
    Payload = {1}
    Oversized = {}
    DataA = 1
    DataB = 0
    AirCap = 3
    Patient = TRUE
PROPERTY ConnectedWhenTold
CHECK_DEADLOCK FALSE
