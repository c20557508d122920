\* Claims that name a Season without a Withdrawal among others.
SPECIFICATION MCSpec
CONSTANTS
    a = a
    b = b
    Moon = Moon
    LP = LP
    Diamond = Diamond
    NaN = NaN
    Accounts = {a, b}
    Tokens = {Moon, LP}
    MoonToken = Moon
    UnripeTokens = {LP}
    TokenMage <- MCTokenMage
    TokenSeeds <- MCTokenSeeds
    SeedsPerMoon = 2
    MagePerMoon = 2
    RootsBase = 10
    SopPrecision = 100
    BdvUnit = 12
    MaxSeason = 3
    WithdrawSeasons = 1
    DepositAmounts = {2}
    WithdrawAmounts = {1, 2}
    TransferAmounts = {1, 2}
    ConvertAmounts = {1, 2}
    EnrootAmounts = {1, 2}
    Bdvs = {1, 2, 3}
    Allowances = {1, 2}
    UnlimitedAllowance = 9
    ClaimsOfNothing = TRUE
    SiloMints = {0, 3}
    Weathers = {FALSE}
    SopAmounts = {0}
    MaxHeld = 7
    MaxSeeds = 40
    Parts = {"mage"}
SYMMETRY Symmetry
CHECK_DEADLOCK FALSE
INVARIANTS NeverThrows
