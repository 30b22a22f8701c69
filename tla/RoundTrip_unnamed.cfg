SPECIFICATION Spec
CONSTANTS
    K1 = k1
    K2 = k2
    Weak = weak
    E1 = e1
    E2 = e2
    Keys = {k1, k2, weak}
    SoundKeys = {k1, k2}
    Ids = {e1, e2}
    Exchanges <- AllExchanges
    Resolver <- Known
    Starts = {1}
    MaxClock = 4
INVARIANT
    RefusalsAreNamed
CHECK_DEADLOCK FALSE
