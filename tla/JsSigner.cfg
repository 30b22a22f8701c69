SPECIFICATION Spec
CONSTANTS
    K1 = k1
    K2 = k2
    Weak = weak
    E1 = e1
    E2 = e2
    Keys = {k1, k2, weak}
    SoundKeys = {k1, k2}
    Ids = {e1, e2}
    Signings <- AllSignings
    Starts = {1}
    MaxClock = 2
    Contents = {"b0", "b1", "b2"}
INVARIANTS
    TypeOK
    SignsAsPython
    CommitsToContentsHeld
CHECK_DEADLOCK FALSE
