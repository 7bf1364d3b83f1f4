\* Three interceptors, one record key with two values.
SPECIFICATION FairSpec
CONSTANTS
    Interceptor = {i1, i2, i3}
    Key = {k1}
    Value = {v1, v2}
    NoRecord = NoRecord
CHECK_DEADLOCK FALSE
INVARIANTS
    VerdictIsUnanimous
    ReturnsLast
PROPERTY StopEndsCall
