\* Every kind of operation, on three keys and two currencies, while calls are
\* refused and prices are changed in the Dashboard; no crash.  Or a plan of one
\* key, for every catalog, draft and Price over two currencies, three amounts
\* and two tax behaviours.
CONSTANTS
    Works = {"publish", "plan"}
    KeyCount = 3
    Currencies = {"usd", "jpy"}
    ZeroDecimal = {"jpy"}
    Usd = "usd"
    Plans = {"studio"}
    PlanOf <- Studio
    BreadthThreshold = 5
    BreadthTotalThreshold = 10
    None = None
    Revisions = {"r0", "r1"}
    Modes = {"live"}
    Publishers = {p1}
    Baseline = "r0"
    InitialRows <- ThreeKeyRows
    StripeSeeds <- ThreeKeySeeds
    EditAmounts = {}
    DashboardCoverages <- ByHand
    Events = {"refusal", "lost_reply", "dashboard"}
    MaxAttempts = 1
    MaxPrices = 3
    Amounts = {4, 5, 6}
    TaxValues = {"unspecified", "exclusive"}
    ServerActions = {}
    Terms = {}
    Coupons = {}
    Null = Null
SPECIFICATION MCFairSpec
INVARIANTS
    PlanExecutable
    BigMovesNeedConfirmation
PROPERTIES
    AttemptsClose
    ArchiveSparesWhatIsSold
    PlanConverges
