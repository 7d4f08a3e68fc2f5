SPECIFICATION DashboardSpec
CONSTANTS
  Logs = {1, 2, 3}
  KeyOf <- MCKeyOf
  Unknown = "Unknown"
  Recent = {3}
  Before <- MCBefore
  Hits = {3}
  Limit = 2
  None = None
  Null = Null
  MaxCalls = 2
  MaxEvents = 2
  Rows = {1, 2, 3}
  PathOf <- MCPathOf
  Groups <- MCGroups
  Bindings = {1, 2, 3, 4}
  InitialTable <- MCInitialTable
  InitialBindings <- MCInitialBindings
  Providers = {"p", "q"}
  Middlewares = {"m", "o"}
  MaxRequests = 2
  MaxClicks <- MCMaxClicks
INVARIANTS
  RowsBelongToSelection
  ListIsCurrent
  TreesAccountForAll
  ComposedIsStored
PROPERTIES
  FeedComesBack
CHECK_DEADLOCK FALSE
