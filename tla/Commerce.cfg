SPECIFICATION FairCommerceSpec
CONSTANTS
    ProductInfo = {matt, glossy}
    matt = matt
    glossy = glossy
    PhoneNumber = {home, office}
    home = home
    office = office
    NoPhone = NoPhone
    MaxAddresses = 2
    Mail = {m1, m2}
    m1 = m1
    m2 = m2
    MaxAttempts = 3
    MaxDeaths = 2
    MaxSweeps = 2
    Amount <- MCAmount
    StockLimit = 4
    Gross = {0, 2}
    Discounts <- MCDiscounts
    Limit = {1, 2}
    Unlimited = Unlimited
    MaxUses = 3
    LastDay = 2
    ProductId = {cup, vase}
    LineId = {l1, l2, l3}
    LineAmount <- MCLineAmount
    MaxQuantity = 2
    cup = cup
    vase = vase
    l1 = l1
    l2 = l2
    l3 = l3
INVARIANTS
    CommerceTypeOK
    NoOverselling
    LedgerAgrees
    EmptyShelfAnnounced
    AnnouncedOnce
    TotalFits
    RaisedOnce
    OneEnding
    NeverAhead
    OneLinePerProduct
    EventsTellStatus
    OnlyDefaultsLockOut
    CopiesExplained
    CopiesBounded
PROPERTIES
    TerminalOrderFrozen
    PaymentCatchesUp
    UsedOnItsTerms
    TerminalProductFrozen
    SetAsideUserFrozen
    MailsSettled
CHECK_DEADLOCK FALSE
