SPECIFICATION Spec
CONSTANTS
    K1 = k1
    K2 = k2
    Weak = weak
    E1 = e1
    E2 = e2
    E3 = e3
    E4 = e4
    Keys = {k1, k2, weak}
    SoundKeys = {k1, k2}
    Ids = {e1, e2, e3, e4}
    Calls <- DisputedCalls
    KeyStates <- Settled
    Starts = {4}
    MaxClock = 4
INVARIANT
    MissingComesFirst
CHECK_DEADLOCK FALSE
