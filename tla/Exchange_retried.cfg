SPECIFICATION FairSpec
CONSTANTS
    K1 = k1
    K2 = k2
    KS = ks
    E1 = e1
    C1 = c1
    C2 = c2
    Keys = {k1, k2, ks}
    SoundKeys = {k1, k2, ks}
    Ids = {e1}
    Callers = {c1}
    Asked <- OneBody
    Application <- Replies
    Client = e1
    ClientKeys <- Rotating
    ServerKey = ks
    ServerPolicy <- Serving
    ClientPolicy <- Asking1
    Changes <- Altered
    Ahead = 0
    InFlight = 2
    MaxFaults = 1
    MaxClock = 3
INVARIANTS
    ServedUnderCurrentKey
    AnswerIsMine
PROPERTIES
    EveryCallerIsAnswered
CHECK_DEADLOCK FALSE
