CONSTANTS
    Requests = {r1, r2}
    r1 = r1
    r2 = r2
    lower = lower
    junk = junk
    alice = alice
    bob = bob
    c1 = c1
    Wallets = {lower, junk}
    Addresses <- MCAddresses
    AddrOf <- MCAddrOf
    NoAddress = NoAddress
    Contents = {c1}
    CacheTtl = 1
    MaxTime = 1
    Faults = {"db", "rpc", "disconnect", "crash", "clock"}
    Seller = bob
    Owners = {bob, alice}
    Genesis = {}
    NoRow = NoRow
    NoKey = NoKey
SPECIFICATION AccessSpec
SYMMETRY RequestSymmetry
INVARIANTS
    AccessTypeOK
    CacheSound
    ConfirmedOnChain
    NothingUngranted
PROPERTY CheckIsLinearizable
CHECK_DEADLOCK FALSE
