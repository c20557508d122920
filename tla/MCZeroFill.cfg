\* Orders filled with no Pods.
SPECIFICATION MCSpec
CONSTANTS
    a = a
    b = b
    Accounts = {a, b}
    NoListing = NoListing
    Nobody = Nobody
    MaxPods = 3
    MaxUint32 = 0
    SoldOutSoil = 0
    SowAmounts = {2}
    SoilAmounts = {2}
    Yields = {1}
    InitialMoons = 2
    PriceUnit = 2
    FixedPrices = {1, 3}
    PriceFunctions <- MCPriceFunctions
    ListingPricings = {}
    OrderPricings <- FixedOrFalling
    MaxHarvestables = {3}
    MinFills = {0}
    MaxPlaces = {2}
    MoonAmounts = {2}
    FillAmounts = {0, 1}
    Allowances = {}
    UnlimitedAllowance = 9
    Parts = {"orders"}
SYMMETRY Symmetry
CHECK_DEADLOCK FALSE
INVARIANTS PodsConserved
