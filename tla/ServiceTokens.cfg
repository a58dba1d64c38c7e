\* Two tokens, a window of three ticks, a reaper that runs every two.
CONSTANTS
    Tokens = {t1, t2}
    Window = 3
    Period = 2
    MaxDelay = 1
    MaxFails = 1
SPECIFICATION Spec
INVARIANTS
    TypeOK
    LeaseHonoured
    StaleRowsBounded
PROPERTY
    ReapedForGood
