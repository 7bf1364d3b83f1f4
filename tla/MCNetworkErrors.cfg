\* Routes that break a policy or the graph, without interceptors.
SPECIFICATION Spec
CONSTANTS
    Alice = Alice
    Bob = Bob
    Carol = Carol
    ab = ab
    bc = bc
    nowhere = nowhere
    h1 = h1
    h2 = h2
    MaxU64 = 350000
    Node <- MCNode
    Hash <- MCHash
    Scid <- MCScid
    Channel <- MCChannel
    Source <- MCSource
    Hops <- MCHops
    PathCount <- MCPathCount
    PaymentHash <- MCPaymentHash
    Msat <- MCMsat
    Height <- MCHeight
    Capacity = 10
    HasInterceptors = FALSE
    Payment = {"DeltaTooSmall", "Disconnected", "FeeOverflows", "ZeroAmount", "Cycle", "TwoPaths", "UnknownChannel"}
CHECK_DEADLOCK FALSE
INVARIANTS
    StuckOnlyAfterShutdown
    ChannelsWithinLimits
