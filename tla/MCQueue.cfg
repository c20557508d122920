\* The queue: ids added out of order while payments end the first of them.
SPECIFICATION Spec
CONSTANTS
    Accounts = {}
    ReplantSeason = 1
    EndDecreaseSeason = 3
    Humidity0 = 4
    RestartHumidity = 2
    HumidityDecrease = 1
    EndHumidity = 0
    HumidityBase = 1
    FertilizerDenominator = 3
    Precision = 2
    DollarPerUnripeLP = 3
    DollarUnit = 2
    UnripeSupply <- ForDebt
    Amounts = {1, 2}
    OwnerSeasons = {0, 1, 9}
    ChopAmounts = {}
    Mints = {0, 4, 15}
    NewLPs = {1}
    MaxId = 8
    MaxSeason = 5
    MaxMints = 34
CHECK_DEADLOCK FALSE
INVARIANTS QueueSorted DebtExact SunriseCanPay
PROPERTIES RefinesDebt
