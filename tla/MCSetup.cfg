\* Every family of configurations, with 16-bit integers.
SPECIFICATION Spec
CONSTANTS
    MaxU64 = 65535
    Config <- MCConfig
CHECK_DEADLOCK FALSE
INVARIANTS
    RunIsSound
    EveryDrawSucceeds
    ActivitiesAsNamed
    NothingLeftRunning
