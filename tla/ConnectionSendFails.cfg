SPECIFICATION FailingSpec
CONSTANTS
    Modulus = 3
    ExtModulus = 4
    K = 2
    DefaultN2 = 1
    Version2N2 = 2
    Payload = {"small", "big"}
    Oversized = {"big"}
    MaxStore = 3
INVARIANT AssertionsHold
