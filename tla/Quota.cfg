\* Two orders of one product compete for the quota of one contract while its
\* price item is edited and removed: a limit of two, or of one.
SPECIFICATION Spec
CONSTANTS
  firm = firm
  walkin = walkin
  k1 = k1
  k2 = k2
  water = water
  tare = tare
  None = None
  NoProduct = NoProduct
  Warehouse = Warehouse
  Vendor = Vendor
  Revenue = Revenue
  Cash = Cash
  Card = Card
  Clients = {firm, walkin}
  WalkIn = walkin
  Owner <- MCOwner
  Inventories <- MCInventories
  Accounts <- MCAccounts
  Virtual <- MCVirtual
  CatalogPrice <- MCCatalogPrice
  Orders = {o1, o2}
  Couriers = {k1}
  Contracts = {c1}
  Products = {water}
  Returnable <- NoContainers
  InitStock <- AmpleStock
  Methods = {"CONTRACT"}
  WarehouseOpen = FALSE
  OnboardingOpen = FALSE
  MaxQty <- TwoUnits
  StaleLimit = 1
  Terms <- MCTwoLimits
  Dated = {}
SYMMETRY OrderSymmetry
INVARIANTS
  TypeOK
  NeverOverstated
  ReservedExactlyWhileAlive
PROPERTIES
  QuotaLostOnlyByRemoval
  LimitBrokenOnlyByEdit
  TerminalIsFinal
  OrdersAreDeals
