\* A payment over channels of odd capacity.
SPECIFICATION Spec
CONSTANTS
    Alice = Alice
    Bob = Bob
    Carol = Carol
    ab = ab
    bc = bc
    nowhere = nowhere
    h1 = h1
    h2 = h2
    MaxU64 = 350000
    Node <- MCNode
    Hash <- MCHash
    Scid <- MCScid
    Channel <- MCChannel
    Source <- MCSource
    Hops <- MCHops
    PathCount <- MCPathCount
    PaymentHash <- MCPaymentHash
    Msat <- MCMsat
    Height <- MCHeight
    Capacity = 9
    HasInterceptors = FALSE
    Payment = {"AliceToBob"}
CHECK_DEADLOCK FALSE
INVARIANT NoSanityFailure
