\* Fertilizer of two holders: bought, passed on, paid, claimed, and Unripe tokens chopped.
SPECIFICATION Spec
CONSTANTS
    a = a
    b = b
    Accounts = {a, b}
    ReplantSeason = 1
    EndDecreaseSeason = 3
    Humidity0 = 4
    RestartHumidity = 2
    HumidityDecrease = 1
    EndHumidity = 0
    HumidityBase = 1
    FertilizerDenominator = 3
    Precision = 2
    DollarPerUnripeLP = 3
    DollarUnit = 2
    UnripeSupply <- ForChop
    Amounts = {1, 2}
    OwnerSeasons = {}
    ChopAmounts = {2}
    Mints = {4, 9}
    NewLPs = {2}
    MaxId = 7
    MaxSeason = 3
    MaxMints = 13
SYMMETRY Symmetry
CHECK_DEADLOCK FALSE
CONSTRAINT OneHolderOrNoChop
INVARIANTS TypeOK ClaimsCovered NoOverRecapitalization
PROPERTIES ClaimsAreKept BackingNeverDiluted
