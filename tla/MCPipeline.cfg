\* Two payments through channels of one slot, a batch of two records, and nodes
\* that always answer.
SPECIFICATION AnsweredSpec
CONSTANTS
    Payment = {p1, p2}
    NoPayment = NoPayment
    ChannelSize = 1
    WriteResults = TRUE
    BatchSize = 2
    TotalTime = TRUE
CHECK_DEADLOCK FALSE
INVARIANTS
    NobodyWaitsInACircle
    EachPaymentOnce
    FileFollowsReports
PROPERTIES
    ShutdownEndsRun
    ProducedIsReported
