\* The Field and the Marketplace: listings and transfers, and orders.
SPECIFICATION MCSpec
CONSTANTS
    a = a
    b = b
    Accounts = {a, b}
    NoListing = NoListing
    Nobody = Nobody
    MaxPods = 3
    MaxUint32 = 0
    SoldOutSoil = 0
    SowAmounts = {1, 2}
    SoilAmounts = {2}
    Yields = {1}
    InitialMoons = 2
    PriceUnit = 2
    FixedPrices = {1, 3}
    PriceFunctions <- MCPriceFunctions
    ListingPricings <- FixedOrFalling
    OrderPricings <- FixedOrFalling
    MaxHarvestables = {2}
    MinFills = {0}
    MaxPlaces = {2}
    MoonAmounts = {1, 2}
    FillAmounts = {1, 2}
    Allowances = {1, 9}
    UnlimitedAllowance = 9
    Parts = {"listings", "orders"}
SYMMETRY Symmetry
CHECK_DEADLOCK FALSE
INVARIANTS TypeOK PlotsPartitionLine MoonsSolvent ListingBacked PodsConserved
PROPERTIES ListingDiesWithOwnership NoUnauthorisedLoss SellerPaid OrdersProtectBuyer
    RefinesPodLine
