\* A request crashes; operators go on reviewing and submitting.
CONSTANTS
    KeyCount = 1
    Currencies = {"usd"}
    ZeroDecimal = {}
    Usd = "usd"
    Plans = {"studio"}
    PlanOf <- Studio
    BreadthThreshold = 5
    BreadthTotalThreshold = 10
    None = None
    Revisions = {"r0", "r1"}
    Modes = {"test"}
    Publishers = {p1}
    Baseline = "r0"
    InitialRows <- BaselineRows
    StripeSeeds <- Parity
    EditAmounts = {}
    DashboardCoverages = {}
    Events = {"crash"}
    MaxAttempts = 2
    MaxPrices = 0
SPECIFICATION RetrySpec
PROPERTY AttemptsClose
