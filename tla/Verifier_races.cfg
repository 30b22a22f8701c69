SPECIFICATION FairSpec
CONSTANTS
    K1 = k1
    K2 = k2
    Weak = weak
    E1 = e1
    E2 = e2
    E3 = e3
    E4 = e4
    Keys = {k1, k2, weak}
    SoundKeys = {k1, k2}
    Ids = {e1}
    Calls <- RaceCalls
    KeyStates <- Rotating
    Starts = {2, 6}
    MaxClock = 8
INVARIANTS
    AcceptedIsVouched
    FreshWhenAnswered
    AskedOnlyWhatMatters
PROPERTIES
    ImplementsSection9
    EveryCallEnds
CHECK_DEADLOCK FALSE
