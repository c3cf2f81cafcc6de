SPECIFICATION AllSpec
CONSTANTS
    Modulus = 8
    ExtModulus = 128
    K = 7
    DefaultN2 = 3
    Version2N2 = 10
    Payload = {1, 2, 3, 4, 5, 6, 7, 8, 9}
    Oversized = {}
    MaxQueue = 9
    Trips = {1, 150, 2000, 9999}
    Damaged = {"DM", "I"}
INVARIANTS
    InRangeIsBetween
    LoopsMatchClosedForms
    ParseInvertsSerialize
    T1OutlastsRoundTrip
PROPERTY LoopsEnd
CHECK_DEADLOCK FALSE
