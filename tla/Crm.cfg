\* Two operators work on the people or on the deals of one organisation, or one
\* of them turns the pages of a list.
CONSTANTS
  o1 = o1
  o2 = o2
  Operators = {o1, o2}
  g1 = g1
  g2 = g2
  Organisations = {g1, g2}
  c1 = c1
  c2 = c2
  c3 = c3
  Contacts = {c1, c2, c3}
  k1 = k1
  k2 = k2
  Keys = {k1, k2}
  d1 = d1
  d2 = d2
  Deals = {d1, d2}
  Products = {p1}
  Null = Null
  Files <- MCFiles
  Desks <- MCDesks
  MaxTx = 3
  RowIds = {1, 2, 3, 4, 5}
  Instants = {2, 3, 4}
  PerMilli = 2
  Limit = 2
  Lists <- MCLists
  MaxRowWrites = 1
  NoValue = NoValue
SPECIFICATION MCSpec
CHECK_DEADLOCK FALSE
INVARIANTS
  TypeOK
  ImportSparesTheForgotten
  ResidualSurfaced
  StageLogChains
  NoRawCheckViolation
  WalkShowsEachRowOnce
  QuietSessionsPageTheList
PROPERTY
  VoidedDealsRest
