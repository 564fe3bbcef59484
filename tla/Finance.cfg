\* Payments, settlements and decisions around midnight; every report after every step.
SPECIFICATION Spec
CONSTANTS
  rev = rev
  cash = cash
  terminal = terminal
  acc = acc
  walk = walk
  bag = bag
  exp = exp
  sys = sys
  cl = cl
  wi = wi
  dr = dr
  None = None
  Accounts = {rev, cash, terminal, acc, bag, walk}
  AccountType <- MCAccountType
  Owner <- MCOwner
  Role <- MCRole
  Excluded <- MCExcluded
  Contracted <- MCContracted
  DueDays <- MCDueDays
  AgingLimits <- MCAgingLimits
  ManualRoutes <- MCManualRoutes
  WeekLength = 2
  MonthLength = 4
  MaxAmount = 2
  MaxTxns = 2
  MaxInstant = 3
CHECK_DEADLOCK FALSE
INVARIANTS
  BooksBalance
  StatementsAddUp
  DashboardAgrees
PROPERTIES
  DecisionIsFinal
  PastChangesOnlyByVerification
