\* One channel of 8 msat, two hashes, up to three additions per direction.
SPECIFICATION Spec
CONSTANTS
    Alice = Alice
    Bob = Bob
    Stranger = Stranger
    h1 = h1
    h2 = h2
    MCCapacity = 8
    MaxIndex = 3
    MaxU64 = 3000000
    Node <- MCNode
    Channel <- MCChannelAB
    Msat <- MCMsat
    Height <- MCHeight
    Hash <- MCHash
CONSTRAINT IndexBound
INVARIANTS
    TypeOK
    SanityCheck
    InFlightLimits
    IndexesUnique
PROPERTY HtlcsAreFixed
