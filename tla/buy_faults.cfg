CONSTANTS
    Requests = {r1, r2}
    r1 = r1
    r2 = r2
    lower = lower
    checksummed = checksummed
    junk = junk
    seller = seller
    SELLER = SELLER
    alice = alice
    bob = bob
    i1 = i1
    i2 = i2
    c1 = c1
    c2 = c2
    arc = arc
    eth = eth
    n1 = n1
    n2 = n2
    n3 = n3
    Wallets <- MCWallets
    Addresses <- MCAddresses
    AddrOf <- MCAddrOf
    NoAddress = NoAddress
    Contents = {c1, c2}
    CacheTtl = 1
    MaxTime = 0
    Faults = {"db", "rpc", "gateway", "payer", "disconnect", "crash"}
    Seller = bob
    Owners = {bob}
    Genesis = {}
    NoRow = NoRow
    NoKey = NoKey
    Payloads <- FaultPayloads
    NoHeader = NoHeader
    Malformed = Malformed
    Shaped <- MCShaped
    LowerCase <- MCLowerCase
    PayTos = {seller, junk}
    Network = arc
    MinValid = 1
    NoWallet = NoWallet
    NoRequest = NoRequest
    Empty = Empty
    Items = {i1, i2}
    ContentOf <- MCContentOf
    ItemPrice <- MCItemPrice
    NoPrice = NoPrice
    DefaultPrice = 5
    HttpRequests <- FaultRequests
SPECIFICATION BuySpec
SYMMETRY RequestSymmetry
INVARIANTS
    BuyTypeOK
    GrantsArePaidFor
    ServedIsPaidOrNamesAnOwner
    BooksMatchLedger
    OwnersAreNotCharged
PROPERTIES
    UsesAccessManager
    SellsContent
CHECK_DEADLOCK FALSE
