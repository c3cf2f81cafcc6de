SPECIFICATION Spec
CONSTANTS
    Modulus = 3
    ExtModulus = 3
    K = 2
    DefaultN2 = 1
    Version2N2 = 1
    Payload = {1, 2, 3}
    Oversized = {}
    DataA = 3
    DataB = 1
    AirCap = 3
    Patient = TRUE
INVARIANTS
    TypeOK
    AcknowledgedIsDelivered
    NeverReset
PROPERTY DeliversInOrder
CHECK_DEADLOCK FALSE
