\* The draft is edited between the confirmation and the re-observation.
CONSTANTS
    KeyCount = 1
    Currencies = {"usd"}
    ZeroDecimal = {}
    Usd = "usd"
    Plans = {"studio"}
    PlanOf <- Studio
    BreadthThreshold = 5
    BreadthTotalThreshold = 10
    None = None
    Revisions = {"r0", "r1"}
    Modes = {"test"}
    Publishers = {p1}
    Baseline = "r0"
    InitialRows <- BaselineRows
    StripeSeeds <- Parity
    EditAmounts = {9}
    DashboardCoverages = {}
    Events = {}
    MaxAttempts = 2
    MaxPrices = 0
SPECIFICATION Spec
PROPERTY OnlyConfirmedBreaches
