SPECIFICATION FairSpec
CONSTANTS
    Client = {c1, c2}
    Sender = {s1, s2}
    Payload <- MCPayload
    Leftover <- MCLeftover
    MaxFaults = 1
    c1 = c1
    c2 = c2
    s1 = s1
    s2 = s2
INVARIANTS
    TypeOK
    FramesIntact
PROPERTIES
    Resynchronises
    KeepsContract
    FramesArrive
CHECK_DEADLOCK FALSE
