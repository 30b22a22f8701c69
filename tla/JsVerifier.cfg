SPECIFICATION FairSpec
CONSTANTS
    K1 = k1
    K2 = k2
    Weak = weak
    E1 = e1
    E2 = e2
    E3 = e3
    E4 = e4
    Keys = {k1, k2, weak}
    SoundKeys = {k1, k2}
    Ids = {e1, e2, e3, e4}
    Calls <- JsCalls
    KeyStates <- JsRotating
    MaxClock = 8
    Contents = {"b0", "b1", "b2"}
INVARIANTS
    TypeOK
    DecidesOnContentsHeld
PROPERTIES
    ImplementsSection9
    EveryCallEnds
CHECK_DEADLOCK FALSE
