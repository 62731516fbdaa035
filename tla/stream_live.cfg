CONSTANTS
    Requests = {r1, r2, r3, r4}
    r1 = r1
    r2 = r2
    r3 = r3
    r4 = r4
    r5 = r5
    lower = lower
    seller = seller
    SELLER = SELLER
    unshaped = unshaped
    alice = alice
    bob = bob
    i1 = i1
    i2 = i2
    arc = arc
    n1 = n1
    Wallets <- MCWallets
    Addresses <- MCAddresses
    AddrOf <- MCAddrOf
    NoAddress = NoAddress
    MaxTime = 2
    Faults = {}
    Payloads <- MCPayloads
    NoHeader = NoHeader
    Malformed = Malformed
    Shaped <- MCShaped
    LowerCase <- MCLowerCase
    PayTos = {seller}
    Network = arc
    MinValid = 1
    NoWallet = NoWallet
    Empty = Empty
    Items <- MCItems
    ChunkPrice <- MCChunkPrice
    NoPrice = NoPrice
    DefaultPrice = 1
    MaxAge = 1
    NoSession = NoSession
    NoItem = NoItem
    Opening = {i2}
    Chunks <- LiveChunks
    Buyer = lower
    Item = i1
    OwnRequests <- ThreeOwn
SPECIFICATION FairClientSpec
INVARIANTS
    ChargedChunkIsServed
    SessionsLastTheirAge
PROPERTIES
    ExpiredIsCollected
    StreamEnds
CHECK_DEADLOCK FALSE
