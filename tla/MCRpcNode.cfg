\* Two payments through each of the four kinds of node: one that holds the
\* client, or is polled for ever, and one that has to get past it.
SPECIFICATION RpcSpec
CONSTANTS
    NoPayment = NoPayment
    Payment = {p1, p2}
CHECK_DEADLOCK FALSE
INVARIANTS
    LockDiscipline
    ResultsAreTrue
PROPERTIES
    ShutdownEndsCalls
    PollingServesAll
