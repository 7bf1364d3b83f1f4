\* Defined and random activities for four seconds of four ticks, and activities
\* that all have a count; sleeps overshoot by a tick.
SPECIFICATION FairSpec
CONSTANTS
    Configuration <- MCConfiguration
    None = None
    Second = 4
    Overshoot = 1
    Horizon = 16
CHECK_DEADLOCK FALSE
INVARIANTS
    TypeOK
    
    ActivityHonoured
PROPERTY CountedEnds
