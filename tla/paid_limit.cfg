CONSTANTS
    Requests = {1, 2, 3}
    lower = lower
    seller = seller
    alice = alice
    bob = bob
    arc = arc
    quote = quote
    dataset = dataset
    task = task
    open = open
    Wallets <- MCWallets
    Addresses <- MCAddresses
    AddrOf <- MCAddrOf
    NoAddress = NoAddress
    MaxTime = 0
    Faults = {}
    Payloads <- MCPayloads
    NoHeader = NoHeader
    Malformed = Malformed
    Shaped <- MCWallets
    LowerCase <- MCLowerCase
    PayTos = {seller}
    Network = arc
    MinValid = 2
    NoWallet = NoWallet
    Empty = Empty
    Buyer = lower
    Routes <- MCRoutes
    PriceText <- MCPriceText
    Decimals = 2
    MaxPrice = 120
    MaxU64 = 140
    Invalid = Invalid
    Precision = 10
    Scale = 17
    Wholes <- MCWholes
    Places = 3
    LayerCalls <- UsedLayers
    Endpoints <- MCEndpoints
    Limit = 3
    NoLimit = NoLimit
    NoCall = NoCall
    Stopped = Stopped
    Buffer = 1
SPECIFICATION PaidSpec
INVARIANT StopsAtLimit
CHECK_DEADLOCK FALSE
