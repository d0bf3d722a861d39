\* Two requests publish to two modes while the draft is created, edited and
\* discarded; calls are refused, replies lost, log writes fail, the console
\* crashes.  Or three calls about one tenant, with two sets of terms.
CONSTANTS
    Works = {"publish", "override"}
    KeyCount = 1
    Currencies = {"usd"}
    ZeroDecimal = {}
    Usd = "usd"
    Plans = {"studio"}
    PlanOf <- Studio
    BreadthThreshold = 5
    BreadthTotalThreshold = 10
    None = None
    Revisions = {"r0", "r1"}
    Modes = {"test", "live"}
    Publishers = {p1, p2}
    Baseline = "r0"
    InitialRows <- BaselineRows
    StripeSeeds <- Parity
    EditAmounts = {9}
    DashboardCoverages = {}
    Events = {"refusal", "lost_reply", "log_failure", "crash"}
    MaxAttempts = 2
    MaxPrices = 0
    Amounts = {}
    TaxValues = {}
    ServerActions = {1, 2, 3}
    Terms = {1, 2}
    Coupons = {1, 2}
    Null = Null
SPECIFICATION MCSpec
SYMMETRY PublisherSymmetry
INVARIANTS
    TypeOK
    OneWriterPerMode
    LogMatchesOutcome
    PublishedWereExecuted
    OrphanMeansUnfinished
    OverridesTypeOK
    NoSilentOrphan
    LiveRowsAreUsable
    RevokedMeansOff
PROPERTIES
    WriteAheadExplains
    ConvergedOnSuccess
    KeysStayOnSale
