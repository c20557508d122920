\* The Field and the Marketplace, and what their followers make of the events.
SPECIFICATION MCSpec
CONSTANTS
    a = a
    b = b
    diamond = diamond
    Accounts = {a, b}
    Diamond = diamond
    InsideLast = FALSE
    NoListing = NoListing
    Nobody = Nobody
    MaxPods = 4
    MaxUint32 = 0
    SoldOutSoil = 0
    SowAmounts = {1, 2}
    SoilAmounts = {2}
    Yields = {1, 200}
    InitialMoons = 2
    PriceUnit = 1
    FixedPrices = {1, 2}
    PriceFunctions <- MCPriceFunctions
    ListingPricings <- FixedTwo
    OrderPricings <- FixedOne
    MaxHarvestables = {2}
    MinFills = {1}
    MaxPlaces = {3}
    MoonAmounts = {2}
    FillAmounts = {1, 2}
    Allowances = {}
    UnlimitedAllowance = 9
    NaN = NaN
    Parts = {"plots", "transfers", "sales", "orders"}
SYMMETRY Symmetry
VIEW View
CHECK_DEADLOCK FALSE
INVARIANTS PlotsMirrored FieldTotalsMirrored ListingsMirrored OrdersMirrored PlotsRebuilt
