\* Two requests of one session at a time, two database connections.
CONSTANTS
  r1 = r1
  r2 = r2
  Requests = {r1, r2}
  Connections = 2
  MaxRoleChanges = 1
  MaxRefresh = 1
  None = None
SPECIFICATION Spec
CHECK_DEADLOCK FALSE
INVARIANTS
  TypeOK
  SpentTwiceOnlyAfterLoss
  RowKeepsCurrent
  SignedOutStaysOut
  OneMintInFlight
PROPERTIES
  StoreAnswersAreRecent
  EveryRequestAnswered
