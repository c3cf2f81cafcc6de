SPECIFICATION Spec
CONSTANTS
    Modulus = 3
    ExtModulus = 3
    K = 2
    DefaultN2 = 1
    Version2N2 = 1
    Payload = {1, 2}
    Oversized = {}
    DataA = 2
    DataB = 1
    AirCap = 2
    Patient = FALSE
INVARIANTS
    AssertionsHold
PROPERTY DeliversInOrder
CHECK_DEADLOCK FALSE
