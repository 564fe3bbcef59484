\* Cash, card and warehouse sales with containers and scarce stock, two
\* couriers and deliveries corrected to fewer units.
SPECIFICATION Spec
CONSTANTS
  firm = firm
  walkin = walkin
  k1 = k1
  k2 = k2
  water = water
  tare = tare
  None = None
  NoProduct = NoProduct
  Warehouse = Warehouse
  Vendor = Vendor
  Revenue = Revenue
  Cash = Cash
  Card = Card
  Clients = {firm, walkin}
  WalkIn = walkin
  Owner <- MCOwner
  Inventories <- MCInventories
  Accounts <- MCAccounts
  Virtual <- MCVirtual
  CatalogPrice <- MCCatalogPrice
  Orders = {o1, o2}
  Couriers = {k1, k2}
  Contracts = {}
  Products = {water, tare}
  Returnable <- WaterInTare
  InitStock <- ScarceStock
  Methods = {"CASH", "CARD"}
  WarehouseOpen = TRUE
  OnboardingOpen = TRUE
  MaxQty <- TwoWaters
  StaleLimit = 1
  Terms <- MCOnePrice
  Dated = {}
SYMMETRY OrderSymmetry
INVARIANTS
  SettledExactlyOnce
  BalancesMatchLedger
  ClientOwesUnpaidOrders
  GoodsMatchOrders
  CourierOnTheWay
  TurnoverMatchesLedger
  FleetMatchesDeliveries
