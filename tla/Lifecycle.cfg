\* Two contracts of one client, one of them dated, and an order whose contract
\* price is edited between two values.
SPECIFICATION FairSpec
CONSTANTS
  firm = firm
  walkin = walkin
  k1 = k1
  k2 = k2
  water = water
  tare = tare
  None = None
  NoProduct = NoProduct
  Warehouse = Warehouse
  Vendor = Vendor
  Revenue = Revenue
  Cash = Cash
  Card = Card
  Clients = {firm, walkin}
  WalkIn = walkin
  Owner <- MCOwner
  Inventories <- MCInventories
  Accounts <- MCAccounts
  Virtual <- MCVirtual
  CatalogPrice <- MCCatalogPrice
  Orders = {o1}
  Couriers = {k1}
  Contracts = {c1, c2}
  Products = {water}
  Returnable <- NoContainers
  InitStock <- AmpleStock
  Methods = {"CONTRACT"}
  WarehouseOpen = FALSE
  OnboardingOpen = FALSE
  MaxQty <- TwoUnits
  StaleLimit = 1
  Terms <- MCTwoPrices
  Dated = {c1}
INVARIANTS
  OneActiveContract
PROPERTIES
  ClosedStaysClosed
  StaleOrdersLeaveUnlessBlocked
  TotalDriftsOnlyByTopUp
