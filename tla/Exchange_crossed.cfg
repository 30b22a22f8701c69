SPECIFICATION Spec
CONSTANTS
    K1 = k1
    K2 = k2
    KS = ks
    E1 = e1
    C1 = c1
    C2 = c2
    Keys = {k1, k2, ks}
    SoundKeys = {k1, k2, ks}
    Ids = {e1}
    Callers = {c1, c2}
    Asked <- TwoBodies
    Application <- Replies
    Client = e1
    ClientKeys <- Settled
    ServerKey = ks
    ServerPolicy <- Serving
    ClientPolicy <- Asking1
    Changes <- Altered
    Ahead = 1
    InFlight = 1
    MaxFaults = 2
    MaxClock = 2
INVARIANTS
    TypeOK
    ServedWasAsked
    AnswerIsMine
PROPERTY
    ImplementsRequestReply
CHECK_DEADLOCK FALSE
