\* Three payments that meet on both channels, in both directions, two of them
\* with the same hash, and interceptors that may hold, fail or break them.
SPECIFICATION FairSpec
CONSTANTS
    Alice = Alice
    Bob = Bob
    Carol = Carol
    ab = ab
    bc = bc
    nowhere = nowhere
    h1 = h1
    h2 = h2
    MaxU64 = 350000
    Node <- MCNode
    Hash <- MCHash
    Scid <- MCScid
    Channel <- MCChannel
    Source <- MCSource
    Hops <- MCHops
    PathCount <- MCPathCount
    PaymentHash <- MCPaymentHash
    Msat <- MCMsat
    Height <- MCHeight
    Capacity = 10
    HasInterceptors = TRUE
    Payment = {"AliceToCarol", "CarolToAlice", "SameHash"}
CHECK_DEADLOCK FALSE
INVARIANTS
    ChannelsSane
    HtlcOwnership
    StuckOnlyAfterShutdown
    EventsAgree
    LedgerMatchesOutcomes
PROPERTIES
    EveryPaymentReports
    ChannelsKeepContract
    EveryStepAdvances
    OutcomeIsFinal
