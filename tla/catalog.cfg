CONSTANTS
    i1 = i1
    i2 = i2
    b1 = b1
    s1 = s1
    s2 = s2
    q1 = q1
    seller = seller
    heir = heir
    Items <- MCItems
    Buyers = {b1}
    Sellers = {seller, heir}
    Configs <- MCConfigs
    NoConfig = NoConfig
    Unset = Unset
    NoRow = NoRow
    Sales = {s1, s2}
    Readers = {q1}
    Asked <- MCAsked
    NoItem = NoItem
    MaxStarts = 2
    MaxRows = 2
    Faults = {"db", "crash"}
SPECIFICATION CatalogSpec
SYMMETRY SaleSymmetry
INVARIANTS
    CatalogTypeOK
    RowsFromOneStart
    QuotesAgree
    StatsAddUp
PROPERTY
    RowsSurvive
CHECK_DEADLOCK FALSE
