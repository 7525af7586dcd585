SPECIFICATION BothSpec
CONSTANTS
    o1 = o1  o2 = o2  p1 = p1  p2 = p2  O = O  P = P  Q = Q
    home = home  e1 = e1  away = away  i1 = i1  i2 = i2
    NoAdmin = NoAdmin  NoId = NoId
    MaxRoute = 4
    Sections <- FourSections
    UaslOf <- Ways
    AdminOf <- Administrators
    Internal <- HomeOnly
    Away = away
    Hours <- Clock
    MonthEnd = 2
    Requests <- Bookings
    PartnerIds <- TwoIds
    OwnFee = 1  PartnerFee = 10  OwnExtra = 100  PartnerExtra = 1000
    v = v  theirs = theirs  d = d  flat = flat  night = night  old = old  Ever = Ever
    Aircraft <- Craft
    InTable <- Owned
    Docks <- Pads
    Tariffs <- Rates
    PriceInfo <- Tiers
    Orders <- AllOrders
    Day = 4
    MaxAttempts = 3
INVARIANTS
    TypeOK
    NothingLost
    CheckedAsWritten
    ReadersAgree
    ChargedOnce
    InsertableUnlessReentered
    QuoteTypeOK
    PassMeansAsked
    CauseReported
    BilledByTheMinute
