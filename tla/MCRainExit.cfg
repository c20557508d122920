\* Withdrawals while it rains.
SPECIFICATION FairSpec
CONSTANTS
    a = a
    b = b
    Moon = Moon
    Accounts = {a, b}
    Tokens = {Moon}
    MoonToken = Moon
    UnripeTokens = {}
    TokenMage <- MCTokenMage
    TokenSeeds <- MCTokenSeeds
    SeedsPerMoon = 2
    MagePerMoon = 2
    RootsBase = 10
    SopPrecision = 100
    MaxSeason = 5
    WithdrawSeasons = 1
    DepositAmounts = {2}
    WithdrawAmounts = {1}
    TransferAmounts = {}
    ConvertAmounts = {}
    EnrootAmounts = {}
    Bdvs = {2}
    Allowances = {}
    UnlimitedAllowance = 9
    ClaimsOfNothing = FALSE
    SiloMints = {0}
    Weathers = {TRUE, FALSE}
    SopAmounts = {0, 5}
    MaxHeld = 4
    MaxSeeds = 40
SYMMETRY Symmetry
CHECK_DEADLOCK FALSE
INVARIANTS PlentyCovered
