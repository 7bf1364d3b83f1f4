\* Two activities of one source.
SPECIFICATION Spec
CONSTANTS
    Configuration <- SharedConfiguration
    None = None
    Second = 4
    Overshoot = 1
    Horizon = 100
CHECK_DEADLOCK FALSE
INVARIANT ActivityHonoured
